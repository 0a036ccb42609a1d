---------------------------- MODULE PlatformProofs ----------------------------
(***************************************************************************)
(* Theorems about the parts of Platform, each of its own specification     *)
(* and for any number of its threads, devices, keys and handles.           *)
(***************************************************************************)
EXTENDS Platform, SequenceTheorems, FiniteSetTheorems, TLAPS

-----------------------------------------------------------------------------
(* Registry: a call is answered by the key that was opened. *)

RegNames == RegKeys \cup RegReal

(* The records of a thread, which RegTypeOK leaves open. *)
RegShape ==
    /\ regPushed \subseteq RegKeys
    /\ regHandle \in [RegKeys -> RegHandles \cup {RegNone}]
    /\ regKernel \in [RegHandles -> RegReal \cup RegKeys \cup {"SOFTWARE", RegNone}]
    /\ regAt \in [RegThreads -> {"idle", "open", "close", "query", "set"}]
    /\ regMine \in [RegThreads -> [handle : RegHandles \cup {RegNone},
                                   name : RegNames \cup {RegNone}, virtual : BOOLEAN]]
    /\ regAnswer \in [RegThreads -> [by : RegNames \cup {"SOFTWARE", RegNone},
                                     virtual : BOOLEAN,
                                     err : {"SUCCESS", "SHARING_VIOLATION", "MORE_DATA",
                                            "FILE_NOT_FOUND", "ACCESS_DENIED"}]]

(* What a thread has under its handle: a virtual key is in the table under it,
   until the close has taken it out; a real one is in the kernel.          *)
RegHeld ==
    \A t \in RegThreads :
       /\ regMine[t].handle # RegNone =>
             /\ regAt[t] # "open"
             /\ regMine[t].name # RegNone
             /\ regKernel[regMine[t].handle] # RegNone
             /\ regMine[t].virtual /\ regAt[t] # "close" =>
                   /\ regMine[t].name \in regPushed
                   /\ regHandle[regMine[t].name] = regMine[t].handle
             /\ ~regMine[t].virtual =>
                   regKernel[regMine[t].handle] = regMine[t].name
       /\ regMine[t].handle = RegNone => regAt[t] \in {"idle", "open"}
       /\ regAt[t] = "open" =>
             ~regMine[t].virtual /\ regMine[t].name \in RegReal
       /\ regAt[t] \in {"query", "set"} => ~regMine[t].virtual

(* A handle belongs to one thread. *)
RegApart ==
    \A t, u \in RegThreads :
       regMine[t].handle # RegNone /\ regMine[t].handle = regMine[u].handle => t = u

(* What is in the table has been put there by a thread that holds it still. *)
RegTabled ==
    \A k \in RegKeys : regHandle[k] # RegNone =>
       \E t \in RegThreads : /\ regMine[t].handle = regHandle[k]
                             /\ regMine[t].name = k /\ regMine[t].virtual
                             /\ regAt[t] # "close"

(* A thread without a key has not been answered for one. *)
RegSilent ==
    \A t \in RegThreads : regMine[t].handle = RegNone => regAnswer[t].by = RegNone

RegIInv == RegShape /\ RegHeld /\ RegApart /\ RegTabled /\ RegSilent /\ RegAnsweredByKey

-----------------------------------------------------------------------------
(* A thread's handle is in the table exactly if the thread opened a virtual
   key with it, and then for that key alone.                               *)
LEMMA RegMatchIsMine ==
  ASSUME RegIInv, NEW t \in RegThreads, regAt[t] = "idle", regMine[t].handle # RegNone
  PROVE  /\ \A k \in RegMatch(regMine[t].handle) :
               regMine[t].virtual /\ k = regMine[t].name
         /\ RegMatch(regMine[t].handle) = {} => ~regMine[t].virtual
<1>1. ASSUME NEW k \in RegMatch(regMine[t].handle)
      PROVE  regMine[t].virtual /\ k = regMine[t].name
  <2>1. k \in RegKeys /\ regHandle[k] = regMine[t].handle
    BY DEF RegMatch, RegIInv, RegShape
  <2>2. PICK u \in RegThreads : /\ regMine[u].handle = regHandle[k]
                                /\ regMine[u].name = k /\ regMine[u].virtual
    BY <2>1 DEF RegIInv, RegTabled
  <2>3. u = t
    BY <2>1, <2>2 DEF RegIInv, RegApart
  <2>4. QED
    BY <2>2, <2>3
<1>2. ASSUME regMine[t].virtual
      PROVE  regMine[t].name \in RegMatch(regMine[t].handle)
  BY <1>2 DEF RegIInv, RegHeld, RegMatch
<1>3. QED
  BY <1>1, <1>2

LEMMA RegInitIInv == RegInit => RegIInv
<1> SUFFICES ASSUME RegInit PROVE RegIInv
  OBVIOUS
<1> USE DEF RegInit, RegNothing, RegSilence
<1>1. RegShape
  BY DEF RegShape
<1>2. RegHeld /\ RegApart /\ RegTabled /\ RegSilent /\ RegAnsweredByKey
  BY DEF RegHeld, RegApart, RegTabled, RegSilent, RegAnsweredByKey
<1>3. QED
  BY <1>1, <1>2 DEF RegIInv

(* The table and the thread that opens a virtual key. *)
LEMMA RegOpenVirtualHolds ==
  ASSUME RegIInv, NEW t \in RegThreads, NEW n \in RegNames,
         regAt[t] = "idle", regMine[t] = RegNothing, n \in regPushed,
         RegOpenVirtual(t, n), UNCHANGED <<regAt, regPushed, regTold>>
  PROVE  RegIInv'
<1> USE RegNoneAssumption DEF RegNothing, RegNames
<1>k. n \in RegKeys
  BY DEF RegIInv, RegShape
<1>1. CASE regHandle[n] # RegNone
  <2>1. /\ UNCHANGED <<regHandle, regKernel, regMine>>
        /\ regAnswer' = [regAnswer EXCEPT ![t] = [by |-> RegNone, virtual |-> TRUE,
                                                  err |-> "SHARING_VIOLATION"]]
    BY <1>1 DEF RegOpenVirtual, RegAnswered
  <2>2. RegShape' /\ RegHeld' /\ RegApart' /\ RegTabled'
    BY <2>1 DEF RegIInv, RegShape, RegHeld, RegApart, RegTabled
  <2>3. RegSilent' /\ RegAnsweredByKey'
    BY <2>1 DEF RegIInv, RegShape, RegSilent, RegAnsweredByKey
  <2>4. QED
    BY <2>2, <2>3 DEF RegIInv
<1>2. CASE regHandle[n] = RegNone
  <2>1. PICK h \in RegFree :
          /\ regKernel' = [regKernel EXCEPT ![h] = "SOFTWARE"]
          /\ regHandle' = [regHandle EXCEPT ![n] = h]
          /\ regMine' = [regMine EXCEPT ![t] = [handle |-> h, name |-> n, virtual |-> TRUE]]
    BY <1>2 DEF RegOpenVirtual
  <2>2. regAnswer' = [regAnswer EXCEPT ![t] = [by |-> RegNone, virtual |-> TRUE,
                                               err |-> "SUCCESS"]]
    BY <1>2 DEF RegOpenVirtual, RegAnswered
  <2>3. h \in RegHandles /\ regKernel[h] = RegNone /\ h # RegNone
    BY DEF RegFree
  <2>4. \A u \in RegThreads : regMine[u].handle # h
    BY <2>3 DEF RegIInv, RegHeld
  <2>5. RegShape'
    BY <1>k, <2>1, <2>2, <2>3 DEF RegIInv, RegShape
  <2>6. RegHeld'
    BY <1>k, <1>2, <2>1, <2>3, <2>4 DEF RegIInv, RegShape, RegHeld
  <2>7. RegApart'
    BY <2>1, <2>3, <2>4 DEF RegIInv, RegShape, RegApart
  <2>8. RegTabled'
    BY <1>k, <2>1, <2>3, <2>4 DEF RegIInv, RegShape, RegTabled
  <2>9. RegSilent' /\ RegAnsweredByKey'
    BY <2>1, <2>2, <2>3 DEF RegIInv, RegShape, RegSilent, RegAnsweredByKey
  <2>10. QED
    BY <2>5, <2>6, <2>7, <2>8, <2>9 DEF RegIInv
<1>3. QED
  BY <1>1, <1>2

(* A step that changes only what thread t is at, and its answer. *)
LEMMA RegAsked ==
  ASSUME RegIInv, NEW t \in RegThreads, regMine[t].handle # RegNone,
         UNCHANGED <<regPushed, regHandle, regKernel, regMine>>,
         NEW at \in {"idle", "query", "set"},
         regAt' = [regAt EXCEPT ![t] = at], regAt[t] # "close",
         at # "idle" => ~regMine[t].virtual,
         \/ regAnswer' = regAnswer
         \/ \E err \in {"SUCCESS", "MORE_DATA", "FILE_NOT_FOUND", "ACCESS_DENIED"} :
               regAnswer' = [regAnswer EXCEPT ![t] =
                                [by |-> regMine[t].name, virtual |-> regMine[t].virtual,
                                 err |-> err]]
  PROVE  RegIInv'
<1> USE DEF RegNames
<1>1. RegShape'
  BY DEF RegIInv, RegShape
<1>2. RegHeld'
  BY DEF RegIInv, RegShape, RegHeld
<1>3. RegApart' /\ RegTabled'
  BY DEF RegIInv, RegShape, RegApart, RegTabled
<1>4. RegSilent'
  BY DEF RegIInv, RegShape, RegSilent
<1>5. RegAnsweredByKey'
  <2>1. CASE regAnswer' = regAnswer
    BY <2>1 DEF RegIInv, RegAnsweredByKey
  <2>2. CASE regAnswer' # regAnswer
    <3>1. PICK err \in {"SUCCESS", "MORE_DATA", "FILE_NOT_FOUND", "ACCESS_DENIED"} :
             regAnswer' = [regAnswer EXCEPT ![t] =
                              [by |-> regMine[t].name, virtual |-> regMine[t].virtual,
                               err |-> err]]
      BY <2>2
    <3>2. /\ regAnswer'[t].by = regMine[t].name
          /\ regAnswer'[t].virtual = regMine[t].virtual
      BY <3>1 DEF RegIInv, RegShape
    <3>3. \A u \in RegThreads \ {t} : regAnswer'[u] = regAnswer[u]
      BY <3>1 DEF RegIInv, RegShape
    <3>4. QED
      BY <3>2, <3>3 DEF RegIInv, RegAnsweredByKey
  <2>3. QED
    BY <2>1, <2>2
<1>6. QED
  BY <1>1, <1>2, <1>3, <1>4, <1>5 DEF RegIInv

(* A query or a write is answered by the table, or goes on to the kernel for a
   key that is not in it.                                                  *)
LEMMA RegQueryStep ==
  ASSUME RegIInv, NEW t \in RegThreads, NEW v, NEW form, NEW room,
         RegQuery(t, v, form, room)
  PROVE  RegIInv'
<1>1. regAt[t] = "idle" /\ regMine[t].handle # RegNone
  BY DEF RegQuery
<1>2. UNCHANGED <<regPushed, regHandle, regKernel, regMine>>
  BY DEF RegQuery
<1> DEFINE keys == RegMatch(regMine[t].handle)
           err  == RegResult(v, form, room)
<1>3. CASE keys # {}
  <2>1. PICK k \in keys :
           regAnswer' = [regAnswer EXCEPT ![t] = [by |-> k, virtual |-> TRUE, err |-> err]]
    BY <1>3 DEF RegQuery, RegAnswered
  <2>2. k = regMine[t].name /\ regMine[t].virtual = TRUE
    BY <1>1, RegMatchIsMine DEF RegIInv, RegShape
  <2>3. err \in {"SUCCESS", "MORE_DATA", "FILE_NOT_FOUND", "ACCESS_DENIED"}
    BY DEF RegResult
  <2>4. regAt' = [regAt EXCEPT ![t] = "idle"]
    BY <1>1, <1>3 DEF RegQuery, RegIInv, RegShape
  <2>5. QED
    BY <1>1, <1>2, <2>1, <2>2, <2>3, <2>4, RegAsked
<1>4. CASE keys = {}
  <2>1. ~regMine[t].virtual
    BY <1>1, <1>4, RegMatchIsMine
  <2>2. regAt' = [regAt EXCEPT ![t] = "query"] /\ regAnswer' = regAnswer
    BY <1>4 DEF RegQuery
  <2>3. QED
    BY <1>1, <1>2, <2>1, <2>2, RegAsked
<1>5. QED
  BY <1>3, <1>4

LEMMA RegSetStep ==
  ASSUME RegIInv, NEW t \in RegThreads, NEW v, RegSetValue(t, v)
  PROVE  RegIInv'
<1>1. regAt[t] = "idle" /\ regMine[t].handle # RegNone
  BY DEF RegSetValue
<1>2. UNCHANGED <<regPushed, regHandle, regKernel, regMine>>
  BY DEF RegSetValue
<1> DEFINE keys == RegMatch(regMine[t].handle)
<1>3. CASE keys # {}
  <2>1. PICK k \in keys :
           regAnswer' = [regAnswer EXCEPT ![t] =
              [by |-> k, virtual |-> TRUE,
               err |-> IF v = "absent" THEN "FILE_NOT_FOUND" ELSE "SUCCESS"]]
    BY <1>3 DEF RegSetValue, RegAnswered
  <2>2. k = regMine[t].name /\ regMine[t].virtual = TRUE
    BY <1>1, RegMatchIsMine DEF RegIInv, RegShape
  <2>3. regAt' = [regAt EXCEPT ![t] = "idle"]
    BY <1>1, <1>3 DEF RegSetValue, RegIInv, RegShape
  <2>4. QED
    BY <1>1, <1>2, <2>1, <2>2, <2>3, RegAsked
<1>4. CASE keys = {}
  <2>1. ~regMine[t].virtual
    BY <1>1, <1>4, RegMatchIsMine
  <2>2. regAt' = [regAt EXCEPT ![t] = "set"] /\ regAnswer' = regAnswer
    BY <1>4 DEF RegSetValue
  <2>3. QED
    BY <1>1, <1>2, <2>1, <2>2, RegAsked
<1>5. QED
  BY <1>3, <1>4

(* The kernel's answer is for the real key that the handle is open to. *)
LEMMA RegNextHook ==
  ASSUME RegIInv, NEW t \in RegThreads, RegQueryNext(t) \/ RegSetNext(t)
  PROVE  RegIInv'
<1>1. /\ regAt[t] \in {"query", "set"}
      /\ regAt' = [regAt EXCEPT ![t] = "idle"]
      /\ regAnswer' = [regAnswer EXCEPT ![t] =
             [by |-> regKernel[regMine[t].handle], virtual |-> FALSE, err |-> "SUCCESS"]]
      /\ UNCHANGED <<regPushed, regHandle, regKernel, regMine>>
  BY DEF RegQueryNext, RegSetNext, RegAnswered
<1>2. regMine[t].handle # RegNone /\ regMine[t].virtual = FALSE
  BY <1>1 DEF RegIInv, RegShape, RegHeld
<1>3. regKernel[regMine[t].handle] = regMine[t].name
  BY <1>1, <1>2 DEF RegIInv, RegHeld
<1>4. QED
  BY <1>1, <1>2, <1>3, RegAsked

LEMMA RegOpenReal ==
  ASSUME RegIInv, NEW t \in RegThreads, NEW n \in RegReal,
         regAt[t] = "idle", regMine[t] = RegNothing,
         regAt' = [regAt EXCEPT ![t] = "open"],
         regMine' = [regMine EXCEPT ![t].name = n],
         UNCHANGED <<regPushed, regHandle, regKernel, regAnswer>>
  PROVE  RegIInv'
<1> USE RegNoneAssumption DEF RegNames
<1>1. regMine[t].handle = RegNone /\ regMine[t].virtual = FALSE
  BY DEF RegNothing
<1>2. /\ regMine' \in [RegThreads -> [handle : RegHandles \cup {RegNone},
                                      name : RegNames \cup {RegNone}, virtual : BOOLEAN]]
      /\ regMine'[t].handle = RegNone /\ regMine'[t].name = n
      /\ regMine'[t].virtual = FALSE
      /\ \A u \in RegThreads \ {t} : regMine'[u] = regMine[u]
  BY <1>1 DEF RegIInv, RegShape
<1>3. RegShape'
  BY <1>2 DEF RegIInv, RegShape
<1>4. RegHeld'
  BY <1>2 DEF RegIInv, RegShape, RegHeld
<1>5. RegApart' /\ RegTabled'
  BY <1>1, <1>2 DEF RegIInv, RegShape, RegApart, RegTabled
<1>6. RegSilent'
  BY <1>1, <1>2 DEF RegIInv, RegSilent
<1>7. RegAnsweredByKey'
  BY <1>1, <1>2 DEF RegIInv, RegSilent, RegAnsweredByKey
<1>8. QED
  BY <1>3, <1>4, <1>5, <1>6, <1>7 DEF RegIInv

LEMMA RegOpenNextHolds ==
  ASSUME RegIInv, NEW t \in RegThreads, RegOpenNext(t)
  PROVE  RegIInv'
<1> USE RegNoneAssumption DEF RegNames
<1>1. PICK h \in RegFree :
        /\ regKernel' = [regKernel EXCEPT ![h] = regMine[t].name]
        /\ regMine' = [regMine EXCEPT ![t].handle = h]
  BY DEF RegOpenNext
<1>2. /\ regAt[t] = "open" /\ regAt' = [regAt EXCEPT ![t] = "idle"]
      /\ regAnswer' = [regAnswer EXCEPT ![t] = [by |-> RegNone, virtual |-> FALSE,
                                                err |-> "SUCCESS"]]
      /\ UNCHANGED <<regPushed, regHandle>>
  BY DEF RegOpenNext, RegAnswered
<1>3. h \in RegHandles /\ regKernel[h] = RegNone /\ h # RegNone
  BY DEF RegFree
<1>4. \A u \in RegThreads : regMine[u].handle # h
  BY <1>3 DEF RegIInv, RegHeld
<1>5. regMine[t].handle = RegNone /\ regMine[t].virtual = FALSE /\ regMine[t].name \in RegReal
  BY <1>2 DEF RegIInv, RegShape, RegHeld
<1>6. RegShape'
  BY <1>1, <1>2, <1>3, <1>5 DEF RegIInv, RegShape
<1>7. RegHeld'
  BY <1>1, <1>2, <1>3, <1>4, <1>5 DEF RegIInv, RegShape, RegHeld
<1>8. RegApart'
  BY <1>1, <1>4 DEF RegIInv, RegShape, RegApart
<1>9. RegTabled'
  BY <1>1, <1>2, <1>5 DEF RegIInv, RegShape, RegTabled
<1>10. RegSilent' /\ RegAnsweredByKey'
  BY <1>1, <1>2, <1>3 DEF RegIInv, RegShape, RegSilent, RegAnsweredByKey
<1>11. QED
  BY <1>6, <1>7, <1>8, <1>9, <1>10 DEF RegIInv

(* The close takes the handle out of the table while it is still this
   thread's for the kernel.                                                *)
LEMMA RegCloseKeyHolds ==
  ASSUME RegIInv, NEW t \in RegThreads, RegCloseKey(t)
  PROVE  RegIInv'
<1> USE RegNoneAssumption DEF RegNames, RegCloseKey
<1>1. RegShape'
  BY DEF RegIInv, RegShape
<1>2. RegHeld'
  <2>1. ASSUME NEW u \in RegThreads, u # t, regMine[u].handle # RegNone,
               regMine[u].virtual, regAt[u] # "close"
        PROVE  regHandle'[regMine[u].name] = regMine[u].handle
    BY <2>1 DEF RegIInv, RegShape, RegHeld, RegApart
  <2>2. QED
    BY <2>1 DEF RegIInv, RegShape, RegHeld
<1>3. RegApart' /\ RegSilent' /\ RegAnsweredByKey'
  BY DEF RegIInv, RegApart, RegSilent, RegAnsweredByKey
<1>4. RegTabled'
  BY DEF RegIInv, RegShape, RegTabled
<1>5. QED
  BY <1>1, <1>2, <1>3, <1>4 DEF RegIInv

LEMMA RegCloseNextHolds ==
  ASSUME RegIInv, NEW t \in RegThreads, RegCloseNext(t)
  PROVE  RegIInv'
<1> USE RegNoneAssumption DEF RegNames, RegNothing, RegSilence, RegCloseNext
<1>1. regMine[t].handle # RegNone
  BY DEF RegIInv, RegHeld
<1>2. RegShape'
  BY <1>1 DEF RegIInv, RegShape
<1>3. RegHeld'
  BY <1>1 DEF RegIInv, RegShape, RegHeld, RegApart
<1>4. RegApart'
  BY DEF RegIInv, RegShape, RegApart
<1>5. RegTabled'
  BY <1>1 DEF RegIInv, RegShape, RegTabled
<1>6. RegSilent' /\ RegAnsweredByKey'
  BY DEF RegIInv, RegShape, RegSilent, RegAnsweredByKey
<1>7. QED
  BY <1>2, <1>3, <1>4, <1>5, <1>6 DEF RegIInv

LEMMA RegNextIInv == RegIInv /\ [RegNext]_regVars => RegIInv'
<1> SUFFICES ASSUME RegIInv, [RegNext]_regVars PROVE RegIInv'
  OBVIOUS
<1>1. ASSUME NEW k \in RegKeys, RegPushKey(k) PROVE RegIInv'
  <2>1. RegShape' /\ RegHeld'
    BY <1>1 DEF RegPushKey, RegIInv, RegShape, RegHeld
  <2>2. QED
    BY <1>1, <2>1 DEF RegPushKey, RegIInv, RegApart, RegTabled, RegSilent, RegAnsweredByKey
<1>2. ASSUME NEW t \in RegThreads, NEW n \in RegKeys \cup RegReal, RegOpenKey(t, n)
      PROVE  RegIInv'
  <2>1. CASE n \in regPushed /\ RegOpenVirtual(t, n) /\ UNCHANGED regAt
    BY <1>2, <2>1, RegOpenVirtualHolds DEF RegOpenKey, RegNames
  <2>2. CASE n \in RegReal \ regPushed /\ regAt' = [regAt EXCEPT ![t] = "open"]
    BY <1>2, <2>2, RegOpenReal DEF RegOpenKey
  <2>3. QED
    BY <1>2, <2>1, <2>2 DEF RegOpenKey
<1>3. ASSUME NEW t \in RegThreads, RegQueryValue(t) PROVE RegIInv'
  BY <1>3, RegQueryStep DEF RegQueryValue
<1>4. ASSUME NEW t \in RegThreads, NEW v, NEW f, RegQuerySize(t, v, f) PROVE RegIInv'
  BY <1>4, RegQueryStep DEF RegQuerySize
<1>5. CASE UNCHANGED regVars
  BY <1>5 DEF regVars, RegIInv, RegShape, RegHeld, RegApart, RegTabled, RegSilent, RegAnsweredByKey
<1>6. QED
  BY <1>1, <1>2, <1>3, <1>4, <1>5, RegOpenNextHolds, RegCloseKeyHolds, RegCloseNextHolds, RegSetStep, RegNextHook
  DEF RegNext

-----------------------------------------------------------------------------
(* The inductive invariant holds of every state: handles belong to one thread
   each, and the table names only handles that are still held.             *)
THEOREM RegInvariance == RegSpec => []RegIInv
<1> QED
  BY RegInitIInv, RegNextIInv, PTL DEF RegSpec

(* However many threads open, close, query and write however many keys, and
   whichever handles the kernel gives out again: each call is answered for the
   key that the thread opened (hook_RegCloseKey, reg_hook_match_key_locked). *)
THEOREM RegKeyAnswers == RegSpec => []RegAnsweredByKey
<1>1. RegIInv => RegAnsweredByKey
  BY DEF RegIInv
<1> QED
  BY RegInvariance, <1>1, PTL

-----------------------------------------------------------------------------
(* Clock, for clocks of any resolution, any time zone and any moment: TLC
   tries two ticks an hour and two and a half days.                        *)

(* Multiples of a day are a day apart. *)
LEMMA ClockMultiples ==
  ASSUME NEW d \in Nat, NEW x \in Int, NEW y \in Int, x < y
  PROVE  x * d + d <= y * d
<1>1. \A n \in Nat : n * d >= 0
  BY Z3
<1>2. y - x - 1 \in Nat
  OBVIOUS
<1>3. (y - x - 1) * d >= 0
  BY <1>1, <1>2
<1>4. (y - x - 1) * d = y * d - x * d - d
  BY Z3
<1>5. x * d \in Int /\ y * d \in Int
  OBVIOUS
<1>6. QED
  BY <1>3, <1>4, <1>5

LEMMA ClockDivMod ==
  \A a, d \in Int : d > 0 => a = d * (a \div d) + (a % d)
  BY Z3T(30)

(* A natural number is so many days and a time of the day, in one way. *)
LEMMA ClockSplit ==
  ASSUME NEW a \in Nat, NEW d \in Nat \ {0}
  PROVE  /\ a \div d \in Int /\ a % d \in 0 .. d - 1
         /\ a = (a \div d) * d + (a % d)
<1>1. a \div d \in Int /\ a % d \in 0 .. d - 1
  BY SMT
<1>2. a = d * (a \div d) + (a % d)
  <2>1. a \in Int /\ d \in Int /\ d > 0
    OBVIOUS
  <2>2. d > 0 => a = d * (a \div d) + (a % d)
    BY <2>1, ClockDivMod, Zenon
  <2>3. QED
    BY <2>1, <2>2, Zenon
<1>3. d * (a \div d) = (a \div d) * d
  BY <1>1, SMT
<1>4. QED
  BY <1>1, <1>2, <1>3

LEMMA ClockSplitOnce ==
  ASSUME NEW d \in Nat \ {0}, NEW q \in Int, NEW r \in 0 .. d - 1, q * d + r \in Nat
  PROVE  (q * d + r) % d = r
<1> DEFINE a  == q * d + r
           q2 == a \div d
           r2 == a % d
<1>1. q2 \in Int /\ r2 \in 0 .. d - 1 /\ a = q2 * d + r2
  BY ClockSplit
<1>2. q * d \in Int /\ q2 * d \in Int
  BY <1>1
<1>3. ~(q < q2)
  <2>1. q < q2 => q * d + d <= q2 * d
    BY <1>1, ClockMultiples
  <2>2. QED
    BY <1>1, <1>2, <2>1
<1>4. ~(q2 < q)
  <2>1. q2 < q => q2 * d + d <= q * d
    BY <1>1, ClockMultiples
  <2>2. QED
    BY <1>1, <1>2, <2>1
<1>5. q = q2
  BY <1>1, <1>3, <1>4
<1>6. QED
  BY <1>1, <1>2, <1>5

-----------------------------------------------------------------------------
(* The day is a number of ticks; the zone a number of hours. *)
LEMMA ClockTicks == ClockHour \in Nat \ {0} /\ ClockDay \in Nat \ {0} /\ ClockDay = 24 * ClockHour
  BY ClockHourAssumption DEF ClockDay

(* The warped time of day is one of the nineteen hours, the later the later. *)
LEMMA ClockScaled ==
  ASSUME NEW time \in 0 .. ClockDay - 1
  PROVE  /\ ClockScale(time) \in 0 .. 19 * ClockHour - 1
         /\ \A later \in time .. ClockDay - 1 : ClockScale(time) <= ClockScale(later)
  BY ClockTicks DEF ClockScale

(* The warped time is the day's beginning and the scaled time of the day. *)
LEMMA ClockFaked ==
  ASSUME NEW real \in Nat
  PROVE  LET biased == real + 2 * ClockHour
             day    == biased \div ClockDay
             time   == biased % ClockDay
         IN  /\ biased \in Nat /\ day \in Int /\ time \in 0 .. ClockDay - 1
             /\ biased = day * ClockDay + time
             /\ ClockFake(real) = day * ClockDay + ClockScale(time) - 2 * ClockHour
<1> DEFINE biased == real + 2 * ClockHour
<1>1. biased \in Nat
  BY ClockTicks
<1>2. QED
  BY <1>1, ClockTicks, ClockSplit DEF ClockFake

(* The warp keeps the order of times. *)
LEMMA ClockInOrder ==
  ASSUME NEW r \in Nat, NEW s \in Nat, r <= s
  PROVE  ClockFake(r) <= ClockFake(s) /\ ClockFake(r) \in Int
<1> DEFINE d1 == (r + 2 * ClockHour) \div ClockDay
           t1 == (r + 2 * ClockHour) % ClockDay
           d2 == (s + 2 * ClockHour) \div ClockDay
           t2 == (s + 2 * ClockHour) % ClockDay
<1>1. /\ d1 \in Int /\ t1 \in 0 .. ClockDay - 1
      /\ r + 2 * ClockHour = d1 * ClockDay + t1
      /\ ClockFake(r) = d1 * ClockDay + ClockScale(t1) - 2 * ClockHour
  BY ClockFaked
<1>2. /\ d2 \in Int /\ t2 \in 0 .. ClockDay - 1
      /\ s + 2 * ClockHour = d2 * ClockDay + t2
      /\ ClockFake(s) = d2 * ClockDay + ClockScale(t2) - 2 * ClockHour
  BY ClockFaked
<1>3. /\ ClockScale(t1) \in 0 .. 19 * ClockHour - 1
      /\ ClockScale(t2) \in 0 .. 19 * ClockHour - 1
  BY <1>1, <1>2, ClockScaled
<1> HIDE DEF d1, t1, d2, t2
<1> DEFINE p1 == d1 * ClockDay
           p2 == d2 * ClockDay
<1>4. p1 \in Int /\ p2 \in Int
  BY <1>1, <1>2, ClockTicks
<1>5. d1 < d2 => p1 + ClockDay <= p2
  BY <1>1, <1>2, ClockTicks, ClockMultiples
<1>6. d2 < d1 => p2 + ClockDay <= p1
  BY <1>1, <1>2, ClockTicks, ClockMultiples
<1>7. d1 = d2 => ClockScale(t1) <= ClockScale(t2)
  <2> SUFFICES ASSUME d1 = d2 PROVE ClockScale(t1) <= ClockScale(t2)
    OBVIOUS
  <2>1. t1 <= t2
    BY <1>1, <1>2, <1>4, ClockTicks
  <2>2. QED
    BY <1>1, <1>2, <2>1, ClockScaled
<1> HIDE DEF p1, p2
<1>8. ~(d2 < d1)
  BY <1>1, <1>2, <1>4, <1>6, ClockTicks DEF p1, p2
<1>9. QED
  BY <1>1, <1>2, <1>3, <1>4, <1>5, <1>7, <1>8, ClockTicks DEF p1, p2

-----------------------------------------------------------------------------
(* What the game has been told is what its call gives for a moment that has
   passed, unless it has asked for nothing yet.                            *)
ClockTold ==
    clockTold = ClockUntold
    \/ \E r \in Nat : /\ clockTold = ClockAnswer(clockCall, r)
                      /\ ~clockBack => r <= clockReal

ClockIInv == ClockTypeOK /\ ClockTold

(* Any call's answer is a time after the one that stands for none, and a later
   moment has no earlier one.                                              *)
LEMMA ClockAnswers ==
  ASSUME ClockTypeOK, NEW r \in Nat
  PROVE  /\ ClockAnswer(clockCall, r) \in Int
         /\ ClockAnswer(clockCall, r) > ClockUntold
         /\ \A s \in Nat : r <= s =>
               ClockAnswer(clockCall, r) <= ClockAnswer(clockCall, s)
<1>1. ClockFake(r) \in Int /\ ClockFake(r) >= -(2 * ClockHour)
  <2>1. ClockFake(0) = -(2 * ClockHour) + ClockScale(2 * ClockHour)
    <3>1. (0 + 2 * ClockHour) \div ClockDay = 0 /\ (0 + 2 * ClockHour) % ClockDay = 2 * ClockHour
      <4>1. 2 * ClockHour \in 0 .. ClockDay - 1
        BY ClockTicks
      <4>2. 0 + 2 * ClockHour = 2 * ClockHour
        BY ClockTicks
      <4> HIDE DEF ClockDay
      <4>3. \A a, d \in Int : 0 <= a /\ a < d => a \div d = 0 /\ a % d = a
        BY Z3T(30)
      <4>4. QED
        BY <4>1, <4>2, <4>3, ClockTicks
    <3>2. 0 * ClockDay = 0
      BY ClockTicks
    <3>3. QED
      BY <3>1, <3>2, ClockTicks, ClockScaled DEF ClockFake
  <2>2. ClockScale(2 * ClockHour) \in Nat
    BY ClockTicks, ClockScaled
  <2>3. ClockFake(0) <= ClockFake(r) /\ ClockFake(r) \in Int /\ ClockFake(0) \in Int
    BY ClockInOrder
  <2>4. QED
    BY <2>1, <2>2, <2>3, ClockTicks
<1>2. ASSUME NEW s \in Nat, r <= s
      PROVE  ClockFake(r) <= ClockFake(s) /\ ClockFake(s) \in Int
  BY <1>2, ClockInOrder
<1>3. ClockFileTime(r) \in Int /\ ClockFileTime(r) >= -(2 * ClockHour)
  BY <1>1, ClockTicks DEF ClockFileTime
<1>4. ASSUME NEW s \in Nat, r <= s
      PROVE  ClockFileTime(r) <= ClockFileTime(s) /\ ClockFileTime(s) \in Int
  BY <1>1, <1>2, <1>4 DEF ClockFileTime
<1>5. /\ ClockHour \in Nat \ {0} /\ ClockZone \in -12 .. 14
      /\ ClockDay \in Nat /\ ClockDay = 24 * ClockHour
      /\ ClockUntold = -(2 * ClockDay)
  BY ClockTicks, ClockZoneAssumption DEF ClockUntold
<1>6. ClockZone * ClockHour \in Int /\ ClockZone * ClockHour >= -(12 * ClockHour)
  <2>1. (ClockZone + 12) * ClockHour >= 0
    <3>1. \A m, n \in Nat : m * n >= 0
      BY Z3
    <3>2. ClockZone + 12 \in Nat
      BY <1>5
    <3>3. QED
      BY <1>5, <3>1, <3>2
  <2>2. (ClockZone + 12) * ClockHour = ClockZone * ClockHour + 12 * ClockHour
    BY <1>5, Z3
  <2>3. ClockZone * ClockHour \in Int
    BY <1>5
  <2>4. QED
    BY <1>5, <2>1, <2>2, <2>3
<1> HIDE DEF ClockDay
<1>7. CASE clockCall = "GetSystemTimeAsFileTime"
  BY <1>3, <1>4, <1>5, <1>7 DEF ClockAnswer
<1>8. CASE clockCall = "GetSystemTime"
  BY <1>3, <1>4, <1>5, <1>8 DEF ClockAnswer, ClockSystemTime
<1>9. CASE clockCall = "GetLocalTime"
  <2>1. ClockAnswer(clockCall, r) = ClockLocalTime(r)
    BY <1>9 DEF ClockAnswer
  <2>2. \A s \in Nat : ClockAnswer(clockCall, s) = ClockLocalTime(s)
    BY <1>9 DEF ClockAnswer
  <2>3. CASE clockConfig.timezone
    BY <1>3, <1>4, <1>5, <2>1, <2>2, <2>3 DEF ClockLocalTime
  <2>4. CASE ~clockConfig.timezone
    <3> DEFINE east == ClockZone * ClockHour
    <3>1. east \in Int /\ east >= -(12 * ClockHour)
      BY <1>6
    <3>2. \A s \in Nat : ClockLocalTime(s) = s + east
      BY <2>4 DEF ClockLocalTime
    <3> HIDE DEF east
    <3>3. QED
      BY <1>5, <2>1, <2>2, <3>1, <3>2
  <2>5. QED
    BY <2>3, <2>4
<1>10. QED
  BY <1>7, <1>8, <1>9 DEF ClockTypeOK, ClockCalls

(* Where a warped time is in Japan: after 07:00 if it is of the day that it
   began with at 22:00 UTC, and before 02:00 if it is of the next.         *)
LEMMA ClockWarped ==
  ASSUME NEW r \in Nat
  PROVE  LET japan == (ClockFake(r) + 9 * ClockHour) % ClockDay
         IN  ~(japan >= 2 * ClockHour /\ japan < 7 * ClockHour)
<1> DEFINE day  == (r + 2 * ClockHour) \div ClockDay
           time == (r + 2 * ClockHour) % ClockDay
           s    == ClockScale(time)
<1>1. /\ day \in Int /\ time \in 0 .. ClockDay - 1
      /\ r + 2 * ClockHour = day * ClockDay + time
      /\ ClockFake(r) = day * ClockDay + s - 2 * ClockHour
  BY ClockFaked
<1>2. s \in 0 .. 19 * ClockHour - 1
  BY <1>1, ClockScaled
<1>3. r + 2 * ClockHour \in Nat
  BY ClockTicks
<1> HIDE DEF day, time, s
<1> DEFINE p == day * ClockDay
<1>4. p \in Int /\ p >= 0
  <2>1. p \in Int
    BY <1>1, ClockTicks
  <2>2. day >= 0
    <3>1. day < 0 => p + ClockDay <= 0 * ClockDay
      BY <1>1, ClockTicks, ClockMultiples
    <3>2. 0 * ClockDay = 0
      BY ClockTicks
    <3> HIDE DEF p
    <3>3. r + 2 * ClockHour = p + time
      BY <1>1 DEF p
    <3>4. QED
      BY <1>1, <1>3, <2>1, <3>1, <3>2, <3>3, ClockTicks
  <2>3. \A m, n \in Nat : m * n >= 0
    BY Z3
  <2>4. QED
    BY <1>1, <2>1, <2>2, <2>3, ClockTicks
<1>5. CASE s + 7 * ClockHour < ClockDay
  <2>1. s + 7 * ClockHour \in 0 .. ClockDay - 1
    BY <1>2, <1>5, ClockTicks
  <2>2. ClockFake(r) + 9 * ClockHour = day * ClockDay + (s + 7 * ClockHour)
    <3> HIDE DEF p
    <3>1. ClockFake(r) = p + s - 2 * ClockHour
      BY <1>1 DEF p
    <3>2. ClockFake(r) + 9 * ClockHour = p + (s + 7 * ClockHour)
      BY <1>2, <1>4, <3>1, ClockTicks
    <3>3. QED
      BY <3>2 DEF p
  <2>3. day * ClockDay + (s + 7 * ClockHour) \in Nat
    <3> HIDE DEF p
    <3>1. p + (s + 7 * ClockHour) \in Nat
      BY <1>2, <1>4, ClockTicks
    <3>2. QED
      BY <3>1 DEF p
  <2>4. (ClockFake(r) + 9 * ClockHour) % ClockDay = s + 7 * ClockHour
    BY <1>1, <2>1, <2>2, <2>3, ClockTicks, ClockSplitOnce
  <2>5. QED
    BY <1>2, <2>4, ClockTicks
<1>6. CASE s + 7 * ClockHour >= ClockDay
  <2>1. s + 7 * ClockHour - ClockDay \in 0 .. ClockDay - 1
    BY <1>2, <1>6, ClockTicks
  <2>2. (day + 1) * ClockDay = day * ClockDay + ClockDay
    BY <1>1, ClockTicks, Z3
  <2>3. /\ ClockFake(r) + 9 * ClockHour
             = (day + 1) * ClockDay + (s + 7 * ClockHour - ClockDay)
        /\ (day + 1) * ClockDay + (s + 7 * ClockHour - ClockDay) \in Nat
    <3> HIDE DEF p
    <3>1. ClockFake(r) = p + s - 2 * ClockHour /\ (day + 1) * ClockDay = p + ClockDay
      BY <1>1, <2>2 DEF p
    <3> DEFINE next == (day + 1) * ClockDay
    <3> HIDE DEF next
    <3>2. next = p + ClockDay
      BY <3>1 DEF next
    <3>3. /\ ClockFake(r) + 9 * ClockHour = next + (s + 7 * ClockHour - ClockDay)
          /\ next + (s + 7 * ClockHour - ClockDay) \in Nat
      BY <1>2, <1>4, <1>6, <3>1, <3>2, ClockTicks
    <3>4. QED
      BY <3>3 DEF next
  <2>4. (ClockFake(r) + 9 * ClockHour) % ClockDay = s + 7 * ClockHour - ClockDay
    <3>1. day + 1 \in Int
      BY <1>1
    <3>2. QED
      BY <2>1, <2>3, <3>1, ClockTicks, ClockSplitOnce
  <2>5. QED
    BY <1>2, <2>4, ClockTicks
<1>7. s + 7 * ClockHour \in Int /\ ClockDay \in Int
  BY <1>2, ClockTicks
<1>8. QED
  BY <1>5, <1>6, <1>7

-----------------------------------------------------------------------------
LEMMA ClockInitHolds == ClockInit => ClockIInv
<1>1. ClockUntold \in Int
  BY ClockTicks DEF ClockUntold
<1>2. QED
  <2>1. ClockInit => ClockTypeOK
    <3> SUFFICES ASSUME ClockInit PROVE ClockTypeOK
      OBVIOUS
    <3>1. clockReal \in Nat /\ clockTold \in Int
      BY <1>1 DEF ClockInit
    <3>2. clockConfig \in ClockConfigs /\ clockCall \in ClockCalls
      BY DEF ClockInit
    <3>3. clockBack \in BOOLEAN
      BY Zenon DEF ClockInit
    <3>4. QED
      BY <3>1, <3>2, <3>3 DEF ClockTypeOK
  <2>2. ClockInit => ClockTold
    BY DEF ClockInit, ClockTold
  <2>3. QED
    BY <2>1, <2>2 DEF ClockIInv

(* A step changes neither the configuration nor the call. *)
LEMMA ClockUnmoved ==
  ASSUME clockConfig' = clockConfig, clockCall' = clockCall, NEW r
  PROVE  ClockAnswer(clockCall, r)' = ClockAnswer(clockCall, r)
BY DEF ClockAnswer, ClockFileTime, ClockSystemTime, ClockLocalTime

LEMMA ClockStepHolds == ClockIInv /\ [ClockNext]_clockVars => ClockIInv'
<1> SUFFICES ASSUME ClockIInv, [ClockNext]_clockVars PROVE ClockIInv'
  OBVIOUS
<1> USE DEF ClockIInv
<1>1. CASE ClockTick
  <2>1. ClockTypeOK'
    BY <1>1 DEF ClockTick, ClockTypeOK
  <2>2. ClockTold'
    <3>1. clockTold' = clockTold /\ clockReal' >= clockReal /\ clockReal' \in Nat
          /\ clockReal \in Nat /\ clockBack' = clockBack
      BY <1>1 DEF ClockTick, ClockTypeOK
    <3>2. clockConfig' = clockConfig /\ clockCall' = clockCall
      BY <1>1 DEF ClockTick
    <3>3. QED
      BY <3>1, <3>2, ClockUnmoved DEF ClockTold
  <2>3. QED
    BY <2>1, <2>2
<1>2. CASE ClockRead
  <2>1. ClockTypeOK'
    <3>1. clockTold' \in Int
      BY <1>2, ClockAnswers DEF ClockRead, ClockTypeOK
    <3>2. QED
      BY <1>2, <3>1 DEF ClockRead, ClockTypeOK
  <2>2. ClockTold'
    <3>1. /\ clockTold' = ClockAnswer(clockCall, clockReal)
          /\ clockReal' = clockReal /\ clockReal \in Nat
      BY <1>2 DEF ClockRead, ClockTypeOK
    <3>2. clockConfig' = clockConfig /\ clockCall' = clockCall
      BY <1>2 DEF ClockRead
    <3>3. ClockAnswer(clockCall, clockReal)' = ClockAnswer(clockCall, clockReal)
      BY <3>1, <3>2 DEF ClockAnswer, ClockFileTime, ClockSystemTime, ClockLocalTime
    <3>4. clockTold' = ClockAnswer(clockCall, clockReal)'
      BY <3>1, <3>3
    <3>5. \E r \in Nat : clockTold' = ClockAnswer(clockCall, r)' /\ r <= clockReal'
      <4>1. clockReal <= clockReal'
        BY <3>1
      <4>2. clockTold' = ClockAnswer(clockCall, clockReal)
        BY <3>1
      <4>3. \A r \in Nat : ClockAnswer(clockCall, r)' = ClockAnswer(clockCall, r)
        BY <3>2, ClockUnmoved
      <4>4. QED
        BY <3>1, <4>1, <4>2, <4>3
    <3>6. QED
      BY <3>5 DEF ClockTold
  <2>3. QED
    BY <2>1, <2>2
<1>3. CASE \E time \in {0, ClockDay} : ClockSet(time)
  <2> PICK time \in {0, ClockDay} : ClockSet(time)
    BY <1>3
  <2>1. time \in Nat
    BY ClockTicks
  <2>2. ClockTypeOK'
    BY <2>1 DEF ClockSet, ClockTypeOK
  <2>3. ClockTold'
    <3>1. clockTold' = clockTold /\ clockReal \in Nat /\ clockReal' \in Nat
      BY <2>1 DEF ClockSet, ClockTypeOK
    <3>2. clockConfig' = clockConfig /\ clockCall' = clockCall
      BY DEF ClockSet
    <3>3. ~clockBack' => ~clockBack /\ ~(clockReal' < clockReal)
      BY Zenon DEF ClockSet
    <3>4. ~clockBack' => ~clockBack /\ clockReal <= clockReal'
      BY <3>1, <3>3
    <3>5. QED
      BY <3>1, <3>2, <3>4, ClockUnmoved DEF ClockTold
  <2>4. QED
    BY <2>2, <2>3
<1>4. CASE UNCHANGED clockVars
  <2>1. /\ clockTold' = clockTold /\ clockReal' = clockReal /\ clockBack' = clockBack
        /\ clockConfig' = clockConfig /\ clockCall' = clockCall
    BY <1>4 DEF clockVars
  <2>2. ClockTypeOK'
    BY <2>1 DEF ClockTypeOK
  <2>3. ClockTold'
    BY <2>1, ClockUnmoved DEF ClockTold
  <2>4. QED
    BY <2>2, <2>3
<1>5. QED
  BY <1>1, <1>2, <1>3, <1>4 DEF ClockNext

(* The game is told times of the configuration's making only. *)
THEOREM ClockInvariance == ClockSpec => []ClockIInv
  BY ClockInitHolds, ClockStepHolds, PTL DEF ClockSpec

(* my_GetSystemTimeAsFileTime: no moment is told as one in the hours of
   maintenance, for any resolution of the clock and any moment.            *)
THEOREM ClockKeepsOut == ClockSpec => []ClockSkips
<1>1. ClockIInv => ClockSkips
  <2> SUFFICES ASSUME ClockIInv, clockConfig.timewarp, clockConfig.timezone,
                      clockTold # ClockUntold
               PROVE  LET japan == (IF clockCall = "GetLocalTime" THEN clockTold
                                    ELSE clockTold + 9 * ClockHour) % ClockDay
                      IN  ~(japan >= 2 * ClockHour /\ japan < 7 * ClockHour)
    BY DEF ClockSkips
  <2>1. PICK r \in Nat : clockTold = ClockAnswer(clockCall, r)
    BY DEF ClockIInv, ClockTold
  <2>2. clockCall \in ClockCalls
    BY DEF ClockIInv, ClockTypeOK
  <2>3. (IF clockCall = "GetLocalTime" THEN clockTold
         ELSE clockTold + 9 * ClockHour) = ClockFake(r) + 9 * ClockHour
    BY <2>1, <2>2 DEF ClockCalls, ClockAnswer, ClockFileTime, ClockSystemTime, ClockLocalTime
  <2>4. QED
    BY <2>3, ClockWarped
<1>2. QED
  BY <1>1, ClockInvariance, PTL

(* No step tells an earlier time than the one before, as long as Windows' clock
   has not been set back.                                                  *)
THEOREM ClockGoesForward == ClockSpec => ClockForward
<1>1. ClockIInv /\ [ClockNext]_clockVars => [~clockBack' => clockTold' >= clockTold]_clockVars
  <2> SUFFICES ASSUME ClockIInv, ClockNext, ~clockBack'
               PROVE  clockTold' >= clockTold
    OBVIOUS
  <2>1. CASE ClockTick
    BY <2>1 DEF ClockTick, ClockIInv, ClockTypeOK
  <2>2. CASE ClockRead
    <3>1. ~clockBack /\ clockTold' = ClockAnswer(clockCall, clockReal)
      BY <2>2 DEF ClockRead
    <3>2. clockReal \in Nat /\ ClockTypeOK
      BY DEF ClockIInv, ClockTypeOK
    <3>3. CASE clockTold = ClockUntold
      BY <3>1, <3>2, <3>3, ClockAnswers, ClockTicks DEF ClockUntold
    <3>4. CASE \E r \in Nat : clockTold = ClockAnswer(clockCall, r) /\ r <= clockReal
      BY <3>1, <3>2, <3>4, ClockAnswers
    <3>5. QED
      BY <3>1, <3>3, <3>4 DEF ClockIInv, ClockTold
  <2>3. CASE \E time \in {0, ClockDay} : ClockSet(time)
    BY <2>3 DEF ClockSet, ClockIInv, ClockTypeOK
  <2>4. QED
    BY <2>1, <2>2, <2>3 DEF ClockNext
<1>2. QED
  BY <1>1, ClockInvariance, PTL DEF ClockSpec, ClockForward

-----------------------------------------------------------------------------
(* Nusec, for a log of any size and any number of records: TLC tries a log
   of two places and five records.                                         *)

(* The library erases what it was told of, and nobody else erases. *)
NusecSender ==
    /\ nusecState.tail = nusecTail \/ ~nusecState.asked
    /\ nusecState.asked => nusecTail + nusecState.count <= nusecHead
    /\ ~nusecState.asked => nusecState.count = 0 /\ nusecRead = {}

NusecCounters ==
    /\ nusecHead \in Nat /\ nusecTail \in Nat
    /\ nusecLog \in [0 .. NusecSize - 1 -> Int]
    /\ nusecState \in [tail : Nat, count : Nat, asked : BOOLEAN]

NusecIInv == NusecCounters /\ NusecSender /\ NusecLogWhole /\ NusecReadsTold

-----------------------------------------------------------------------------
LEMMA NusecHasRoom == NusecSize \in Nat /\ NusecSize > 0
  BY NusecSizeAssumption

LEMMA NusecRounds ==
  ASSUME NEW x \in Int, NEW y \in Int, x < y
  PROVE  x * NusecSize + NusecSize <= y * NusecSize
<1>1. \A m, n \in Nat : m * n >= 0
  BY Z3
<1>2. y - x - 1 \in Nat
  OBVIOUS
<1>3. (y - x - 1) * NusecSize >= 0
  BY <1>1, <1>2, NusecHasRoom
<1>4. (y - x - 1) * NusecSize = y * NusecSize - x * NusecSize - NusecSize
  BY NusecHasRoom, Z3
<1>5. x * NusecSize \in Int /\ y * NusecSize \in Int
  BY NusecHasRoom
<1>6. QED
  BY <1>3, <1>4, <1>5, NusecHasRoom

LEMMA NusecPlace ==
  ASSUME NEW p \in Nat
  PROVE  /\ p % NusecSize \in 0 .. NusecSize - 1
         /\ p \div NusecSize \in Int
         /\ p = (p \div NusecSize) * NusecSize + (p % NusecSize)
<1>1. \A a, d \in Int : d > 0 => a = d * (a \div d) + (a % d)
  BY Z3T(30)
<1>2. p % NusecSize \in 0 .. NusecSize - 1 /\ p \div NusecSize \in Int
  BY NusecHasRoom
<1>3. p = NusecSize * (p \div NusecSize) + (p % NusecSize)
  <2>1. p \in Int /\ NusecSize \in Int /\ NusecSize > 0
    BY NusecHasRoom
  <2>2. NusecSize > 0 => p = NusecSize * (p \div NusecSize) + (p % NusecSize)
    BY <1>1, <2>1, Zenon
  <2>3. QED
    BY <2>1, <2>2, Zenon
<1>4. NusecSize * (p \div NusecSize) = (p \div NusecSize) * NusecSize
  BY <1>2, NusecHasRoom
<1>5. QED
  BY <1>2, <1>3, <1>4

(* Two records less than a whole log apart have places of their own. *)
LEMMA NusecOwnPlace ==
  ASSUME NEW p \in Nat, NEW q \in Nat, p < q, q - p < NusecSize
  PROVE  p % NusecSize # q % NusecSize
<1> DEFINE dp == p \div NusecSize
           dq == q \div NusecSize
           rp == p % NusecSize
           rq == q % NusecSize
<1>1. dp \in Int /\ rp \in 0 .. NusecSize - 1 /\ p = dp * NusecSize + rp
  BY NusecPlace
<1>2. dq \in Int /\ rq \in 0 .. NusecSize - 1 /\ q = dq * NusecSize + rq
  BY NusecPlace
<1> HIDE DEF dp, dq, rp, rq
<1>3. SUFFICES ASSUME rp = rq PROVE FALSE
  BY DEF rp, rq
<1> DEFINE mp == dp * NusecSize
           mq == dq * NusecSize
<1>4. mp \in Int /\ mq \in Int
  BY <1>1, <1>2, NusecHasRoom
<1>5. dp < dq => mp + NusecSize <= mq
  BY <1>1, <1>2, NusecRounds
<1>6. dq < dp => mq + NusecSize <= mp
  BY <1>1, <1>2, NusecRounds
<1>7. p = mp + rp /\ q = mq + rq /\ (dp = dq => mp = mq)
  BY <1>1, <1>2
<1> HIDE DEF mp, mq
<1>8. QED
  BY <1>1, <1>2, <1>3, <1>4, <1>5, <1>6, <1>7, NusecHasRoom

-----------------------------------------------------------------------------
LEMMA NusecInitHolds == NusecInit => NusecIInv
<1> SUFFICES ASSUME NusecInit PROVE NusecIInv
  OBVIOUS
<1>1. NusecCounters
  BY NusecHasRoom DEF NusecInit, NusecCounters, NusecNoState
<1>2. NusecSender
  BY DEF NusecInit, NusecSender, NusecNoState
<1>3. NusecLogWhole
  BY NusecHasRoom DEF NusecInit, NusecLogWhole
<1>4. NusecReadsTold
  BY DEF NusecInit, NusecReadsTold
<1>5. QED
  BY <1>1, <1>2, <1>3, <1>4 DEF NusecIInv

(* A record is put in a place that no record of the log has. *)
LEMMA NusecPutHolds == NusecIInv /\ NusecPut => NusecIInv'
<1> SUFFICES ASSUME NusecIInv, NusecPut PROVE NusecIInv'
  OBVIOUS
<1>1. /\ nusecHead \in Nat /\ nusecTail \in Nat /\ nusecTail <= nusecHead
      /\ nusecHead' = nusecHead + 1 /\ nusecTail' = nusecTail
      /\ nusecState' = nusecState /\ nusecRead' = nusecRead
      /\ nusecHead - nusecTail < NusecSize
      /\ nusecState \in [tail : Nat, count : Nat, asked : BOOLEAN]
  BY NusecHasRoom DEF NusecIInv, NusecCounters, NusecLogWhole, NusecPut, NusecFull
<1>2. nusecHead % NusecSize \in 0 .. NusecSize - 1
  BY <1>1, NusecPlace
<1>3. nusecLog' = [nusecLog EXCEPT ![nusecHead % NusecSize] = nusecHead]
  BY DEF NusecPut
<1>4. NusecCounters'
  BY <1>1, <1>2, <1>3 DEF NusecIInv, NusecCounters
<1>5. NusecSender'
  BY <1>1 DEF NusecIInv, NusecSender
<1>6. NusecLogWhole'
  <2>1. ASSUME NEW p \in nusecTail .. nusecHead
        PROVE  nusecLog'[p % NusecSize] = p
    <3>1. p \in Nat /\ p % NusecSize \in 0 .. NusecSize - 1
      BY <1>1, NusecPlace
    <3>2. CASE p = nusecHead
      BY <1>2, <1>3, <3>2 DEF NusecIInv, NusecCounters
    <3>3. CASE p < nusecHead
      <4>1. p % NusecSize # nusecHead % NusecSize
        BY <1>1, <3>1, <3>3, NusecOwnPlace, NusecHasRoom
      <4>2. nusecLog[p % NusecSize] = p
        BY <1>1, <3>3 DEF NusecIInv, NusecLogWhole
      <4>3. QED
        BY <1>2, <1>3, <3>1, <4>1, <4>2 DEF NusecIInv, NusecCounters
    <3>4. QED
      BY <1>1, <3>2, <3>3
  <2>2. nusecTail' .. nusecHead' - 1 = nusecTail .. nusecHead
    BY <1>1
  <2>3. QED
    BY <1>1, <2>1, <2>2, NusecHasRoom DEF NusecLogWhole
<1>7. NusecReadsTold'
  BY <1>1 DEF NusecIInv, NusecReadsTold
<1>8. QED
  BY <1>4, <1>5, <1>6, <1>7 DEF NusecIInv

(* The sender is told of the log as it is. *)
LEMMA NusecGetStateHolds == NusecIInv /\ NusecGetState => NusecIInv'
<1> SUFFICES ASSUME NusecIInv, NusecGetState PROVE NusecIInv'
  OBVIOUS
<1>1. /\ nusecHead' = nusecHead /\ nusecTail' = nusecTail /\ nusecLog' = nusecLog
      /\ nusecState' = [tail |-> nusecTail, count |-> nusecHead - nusecTail, asked |-> TRUE]
      /\ nusecRead' = {}
  BY DEF NusecGetState
<1>2. /\ nusecHead \in Nat /\ nusecTail \in Nat /\ nusecTail <= nusecHead
      /\ nusecHead - nusecTail \in Nat
  BY DEF NusecIInv, NusecCounters, NusecLogWhole
<1>3. NusecCounters'
  BY <1>1, <1>2 DEF NusecIInv, NusecCounters
<1>4. NusecSender'
  BY <1>1, <1>2 DEF NusecSender
<1>5. NusecLogWhole' /\ NusecReadsTold'
  BY <1>1 DEF NusecIInv, NusecLogWhole, NusecReadsTold
<1>6. QED
  BY <1>3, <1>4, <1>5 DEF NusecIInv

(* Records that are in their places are what is read from them. *)
LEMMA NusecGetDataHolds ==
  ASSUME NEW count \in 1 .. NusecSize, NusecIInv, NusecGetData(count)
  PROVE  NusecIInv'
<1>1. /\ nusecHead' = nusecHead /\ nusecTail' = nusecTail /\ nusecLog' = nusecLog
      /\ nusecState' = nusecState /\ nusecState.asked
      /\ count \in 1 .. nusecState.count
      /\ nusecRead' = nusecRead \cup NusecRecords(nusecState.tail, count)
  BY DEF NusecGetData
<1>2. /\ nusecState.tail = nusecTail /\ nusecState.tail \in Nat
      /\ nusecState.count \in Nat /\ nusecHead \in Nat
  BY <1>1 DEF NusecIInv, NusecCounters, NusecSender
<1>3. ASSUME NEW r \in NusecRecords(nusecState.tail, count)
      PROVE  r \in nusecState.tail .. nusecState.tail + nusecState.count - 1
  <2>1. PICK q \in nusecState.tail .. nusecState.tail + count - 1 :
           q < nusecHead /\ r = nusecLog[q % NusecSize]
    BY <1>3 DEF NusecRecords
  <2>2. q \in nusecTail .. nusecHead - 1
    BY <1>1, <1>2, <2>1
  <2>3. r = q
    BY <2>1, <2>2 DEF NusecIInv, NusecLogWhole
  <2>4. QED
    BY <1>1, <1>2, <2>1, <2>3
<1>4. NusecReadsTold'
  BY <1>1, <1>3 DEF NusecIInv, NusecReadsTold
<1>5. NusecCounters' /\ NusecSender' /\ NusecLogWhole'
  BY <1>1 DEF NusecIInv, NusecCounters, NusecSender, NusecLogWhole
<1>6. QED
  BY <1>4, <1>5 DEF NusecIInv

(* However many the sender names, the log ends up empty or as it was. *)
LEMMA NusecEraseHolds == NusecIInv /\ NusecErase => NusecIInv'
<1> SUFFICES ASSUME NusecIInv, NusecErase PROVE NusecIInv'
  OBVIOUS
<1>1. /\ nusecHead' = nusecHead /\ nusecLog' = nusecLog /\ nusecState' = NusecNoState
      /\ nusecRead' = {} /\ nusecState.asked
      /\ nusecTail' = nusecTail \/ nusecTail' = NusecErased(nusecState.count)
  BY DEF NusecErase
<1>2. /\ nusecHead \in Nat /\ nusecTail \in Nat /\ nusecState.count \in Nat
      /\ nusecTail <= nusecHead /\ nusecTail + nusecState.count <= nusecHead
  BY <1>1 DEF NusecIInv, NusecCounters, NusecSender, NusecLogWhole
<1>3. NusecErased(nusecState.count) = nusecHead
  BY <1>2 DEF NusecErased
<1>4. nusecTail' = nusecTail \/ nusecTail' = nusecHead
  BY <1>1, <1>3
<1>5. NusecCounters'
  BY <1>1, <1>2, <1>4 DEF NusecIInv, NusecCounters, NusecNoState
<1>6. NusecSender' /\ NusecReadsTold'
  BY <1>1 DEF NusecSender, NusecReadsTold, NusecNoState
<1>7. NusecLogWhole'
  BY <1>1, <1>2, <1>4, NusecHasRoom DEF NusecIInv, NusecLogWhole
<1>8. QED
  BY <1>5, <1>6, <1>7 DEF NusecIInv

LEMMA NusecStepHolds == NusecIInv /\ [NusecNext]_nusecVars => NusecIInv'
<1> SUFFICES ASSUME NusecIInv, [NusecNext]_nusecVars PROVE NusecIInv'
  OBVIOUS
<1>1. CASE NusecPut
  BY <1>1, NusecPutHolds
<1>2. CASE NusecGetState
  BY <1>2, NusecGetStateHolds
<1>3. CASE NusecErase
  BY <1>3, NusecEraseHolds
<1>4. CASE \E count \in 1 .. NusecSize : NusecGetData(count)
  BY <1>4, NusecGetDataHolds
<1>5. CASE UNCHANGED <<nusecHead, nusecTail, nusecLog, nusecState, nusecRead>>
  BY <1>5 DEF NusecIInv, NusecCounters, NusecSender, NusecLogWhole, NusecReadsTold
<1>6. CASE \E delta \in NusecDeltas : NusecAddPlays(delta) \/ NusecPutLimit(delta)
  BY <1>5, <1>6 DEF NusecAddPlays, NusecPutLimit
<1>7. CASE NusecCertOpen \/ NusecCertRead
  BY <1>5, <1>7 DEF NusecCertOpen, NusecCertRead
<1>8. CASE UNCHANGED nusecVars
  BY <1>5, <1>8 DEF nusecVars
<1>9. QED
  BY <1>1, <1>2, <1>3, <1>4, <1>6, <1>7, <1>8 DEF NusecNext

THEOREM NusecInvariance == NusecSpec => []NusecIInv
  BY NusecInitHolds, NusecStepHolds, PTL DEF NusecSpec

(* nusec_ioctl_put_trace_log_data and nusec_ioctl_erase_trace_log: no record of
   the log is overwritten, and the log never has more than it has places for. *)
THEOREM NusecKeepsLog == NusecSpec => []NusecLogWhole
  BY NusecInvariance, PTL DEF NusecIInv

(* nusec_ioctl_get_trace_log_data: the sender reads none but the records that
   it was told of, whatever is put meanwhile.                              *)
THEOREM NusecReadsOnlyTold == NusecSpec => []NusecReadsTold
  BY NusecInvariance, PTL DEF NusecIInv

-----------------------------------------------------------------------------
(* Amex: no lock is needed for a handler to know its own handle. *)

AmexShape ==
    /\ amexFile \in [AmexDevices -> AmexHandles \cup {AmexNone}]
    /\ amexKernel \in [AmexHandles -> AmexDevices \cup {"free", "other"}]
    /\ amexThread \in [AmexThreads ->
                          [at : {"idle", "checked", "cleared", "created", "sized",
                                 "published", "closing", "test1", "test2",
                                 "service", "service1", "service2"},
                           device : AmexDevices \cup {AmexNone},
                           fd : AmexHandles \cup {AmexNone}]]
    /\ amexGame \subseteq AmexHandles

(* A thread that has a handle of its own, which the game has not, or not any
   more: from CreateFile to the answer, and from the close to CloseHandle. *)
AmexOpens(t)  == amexThread[t].at \in {"created", "sized", "published"}
AmexCloses(t) == amexThread[t].at = "closing"

AmexOpeningOK(t) ==
    /\ AmexOpens(t) \/ amexThread[t].at \in {"checked", "cleared"} =>
          amexThread[t].device \in AmexStores
    /\ AmexOpens(t) => amexKernel[amexThread[t].fd] = amexThread[t].device
    /\ amexThread[t].at \in {"created", "sized"} =>
          \A d \in AmexDevices : amexFile[d] # amexThread[t].fd

AmexClosingOK(t) ==
    AmexCloses(t) => /\ amexKernel[amexThread[t].fd] # "free"
                 /\ \A d \in AmexDevices : amexFile[d] # amexThread[t].fd

AmexOwnOK(t) ==
    AmexOpens(t) \/ AmexCloses(t) =>
       amexThread[t].fd \in AmexHandles /\ amexThread[t].fd \notin amexGame

AmexOpenings == \A t \in AmexThreads : AmexOpeningOK(t)
AmexClosings == \A t \in AmexThreads : AmexClosingOK(t)
AmexOwned == /\ \A t \in AmexThreads : AmexOwnOK(t)
         /\ \A t, u \in AmexThreads :
               /\ AmexOpens(t) \/ AmexCloses(t)
               /\ AmexOpens(u) \/ AmexCloses(u)
               /\ amexThread[u].fd = amexThread[t].fd
               => u = t

(* The share mode: Windows has a store open once. *)
AmexOneHandle ==
    \A d \in AmexStores, h, k \in AmexHandles :
       amexKernel[h] = d /\ amexKernel[k] = d => h = k

AmexGameOpen == \A h \in amexGame : amexKernel[h] # "free"

(* iohook_open_nul_fd has opened the memories' handles for good. *)
AmexAlwaysOpen == \A d \in AmexMemories : amexFile[d] # AmexNone

AmexIInv == /\ AmexShape /\ AmexOpenings /\ AmexClosings /\ AmexOwned /\ AmexOneHandle /\ AmexGameOpen
        /\ AmexAlwaysOpen /\ AmexOwnHandles

-----------------------------------------------------------------------------
LEMMA AmexDistinct ==
  /\ AmexNone \notin AmexHandles
  /\ \A d \in AmexDevices : d # "free" /\ d # "other"
  /\ \A d \in AmexStores : d \in AmexDevices /\ d \notin AmexMemories
  /\ \A d \in AmexMemories : d \in AmexDevices
<1>1. \A d \in AmexDevices : d \notin {"free", "other"}
  BY AmexDevicesAssumption, Zenon DEF AmexDevices
<1>2. \A d \in AmexStores : d \notin AmexMemories
  BY AmexDevicesAssumption, Zenon
<1>3. \A d \in AmexDevices : d # "free" /\ d # "other"
  BY <1>1, Zenon
<1>4. QED
  BY <1>2, <1>3, AmexNoneAssumption DEF AmexDevices

(* The handlers' handles are of different devices. *)
LEMMA AmexOneOwner ==
  ASSUME AmexShape, AmexOwnHandles, NEW fd \in AmexHandles
  PROVE  \A d, e \in AmexOwners(fd) : d = e
<1>1. ASSUME NEW d \in AmexOwners(fd) PROVE amexKernel[fd] = d
  BY AmexDistinct DEF AmexOwnHandles, AmexOwners
<1>2. QED
  BY <1>1

LEMMA AmexInitHolds == AmexInit => AmexIInv
<1> SUFFICES ASSUME AmexInit PROVE AmexIInv
  OBVIOUS
<1>1. PICK nul \in [AmexMemories -> AmexHandles] :
         /\ \A d, e \in AmexMemories : nul[d] = nul[e] => d = e
         /\ amexFile = [d \in AmexDevices |->
                           IF d \in AmexMemories THEN nul[d] ELSE AmexNone]
         /\ amexKernel = [h \in AmexHandles |->
                             IF \E d \in AmexMemories : nul[d] = h
                             THEN CHOOSE d \in AmexMemories : nul[d] = h ELSE "free"]
  BY DEF AmexInit
<1>2. \A h \in AmexHandles :
         \/ amexKernel[h] = "free"
         \/ amexKernel[h] \in AmexMemories /\ nul[amexKernel[h]] = h
  BY <1>1
<1>3. \A d \in AmexMemories : amexKernel[nul[d]] = d
  <2>1. ASSUME NEW d \in AmexMemories PROVE amexKernel[nul[d]] = d
    <3>1. /\ nul[d] \in AmexHandles
          /\ amexKernel[nul[d]] = CHOOSE e \in AmexMemories : nul[e] = nul[d]
      BY <1>1
    <3>2. amexKernel[nul[d]] \in AmexMemories /\ nul[amexKernel[nul[d]]] = nul[d]
      BY <3>1
    <3>3. QED
      BY <1>1, <3>2
  <2>2. QED
    BY <2>1
<1>4. \A t \in AmexThreads : amexThread[t].at = "idle" /\ ~AmexOpens(t) /\ ~AmexCloses(t)
  BY DEF AmexInit, AmexIdle, AmexOpens, AmexCloses
<1>5. AmexShape
  <2>1. amexThread \in [AmexThreads ->
                          [at : {"idle", "checked", "cleared", "created", "sized",
                                 "published", "closing", "test1", "test2",
                                 "service", "service1", "service2"},
                           device : AmexDevices \cup {AmexNone},
                           fd : AmexHandles \cup {AmexNone}]]
    BY DEF AmexInit, AmexIdle
  <2>2. amexKernel \in [AmexHandles -> AmexDevices \cup {"free", "other"}]
    <3>1. \A h \in AmexHandles : amexKernel[h] \in AmexDevices \cup {"free", "other"}
      BY <1>2, AmexDistinct
    <3>2. amexKernel = [h \in AmexHandles |-> amexKernel[h]]
      BY <1>1
    <3> HIDE DEF AmexShape
    <3>3. QED
      BY <3>1, <3>2
  <2>3. amexFile \in [AmexDevices -> AmexHandles \cup {AmexNone}]
    BY <1>1
  <2>4. QED
    BY <2>1, <2>2, <2>3 DEF AmexShape, AmexInit
<1>6. AmexOpenings /\ AmexClosings /\ AmexOwned
  BY <1>4 DEF AmexOpenings, AmexOpeningOK, AmexClosings, AmexClosingOK, AmexOwned, AmexOwnOK, AmexInit, AmexIdle
<1>7. AmexOneHandle
  BY <1>2, AmexDistinct DEF AmexOneHandle
<1>8. AmexGameOpen
  BY DEF AmexInit, AmexGameOpen
<1>9. AmexOwnHandles
  BY <1>1, <1>3 DEF AmexOwnHandles
<1>10. AmexAlwaysOpen
  BY <1>1, AmexDistinct DEF AmexAlwaysOpen
<1>11. QED
  BY <1>5, <1>6, <1>7, <1>8, <1>9, <1>10 DEF AmexIInv

-----------------------------------------------------------------------------
(* A step of the switches moves none of this. *)
LEMMA AmexStutterHolds ==
  ASSUME AmexIInv, UNCHANGED <<amexFile, amexKernel, amexThread, amexGame>>
  PROVE  AmexIInv'
<1>1. /\ amexFile' = amexFile /\ amexKernel' = amexKernel
      /\ amexThread' = amexThread /\ amexGame' = amexGame
  OBVIOUS
<1>2. AmexShape' /\ AmexOneHandle' /\ AmexGameOpen' /\ AmexAlwaysOpen' /\ AmexOwnHandles'
  BY <1>1 DEF AmexIInv, AmexShape, AmexOneHandle, AmexGameOpen, AmexAlwaysOpen, AmexOwnHandles
<1>3. \A t : (AmexOpens(t)' <=> AmexOpens(t)) /\ (AmexCloses(t)' <=> AmexCloses(t))
  BY <1>1 DEF AmexOpens, AmexCloses
<1>4. AmexOpenings'
  BY <1>1, <1>3 DEF AmexIInv, AmexOpenings, AmexOpeningOK
<1>5. AmexClosings' /\ AmexOwned'
  BY <1>1, <1>3 DEF AmexIInv, AmexClosings, AmexClosingOK, AmexOwned, AmexOwnOK
<1>6. QED
  BY <1>2, <1>4, <1>5 DEF AmexIInv

(* A memory's handle is the game's like any of its own. *)
LEMMA AmexOpenMemoryHolds ==
  ASSUME NEW t \in AmexThreads, NEW d \in AmexDevices, AmexIInv, AmexOpenMemory(t, d)
  PROVE  AmexIInv'
<1>1. /\ amexFile' = amexFile /\ amexKernel' = amexKernel /\ amexThread' = amexThread
      /\ amexGame' = amexGame \cup {amexFile[d]}
      /\ d \in AmexMemories
  BY DEF AmexOpenMemory
<1>2. /\ amexFile[d] \in AmexHandles /\ amexKernel[amexFile[d]] = d
      /\ d \notin AmexStores /\ d # "free"
  BY <1>1, AmexDistinct DEF AmexIInv, AmexShape, AmexAlwaysOpen, AmexOwnHandles
<1>3. \A u : (AmexOpens(u)' <=> AmexOpens(u)) /\ (AmexCloses(u)' <=> AmexCloses(u))
  BY <1>1 DEF AmexOpens, AmexCloses
<1>4. \A u \in AmexThreads : AmexOpens(u) \/ AmexCloses(u) => amexThread[u].fd # amexFile[d]
  BY <1>2 DEF AmexIInv, AmexOpenings, AmexOpeningOK, AmexClosings, AmexClosingOK
<1>5. AmexShape' /\ AmexOneHandle' /\ AmexGameOpen' /\ AmexAlwaysOpen' /\ AmexOwnHandles'
  BY <1>1, <1>2 DEF AmexIInv, AmexShape, AmexOneHandle, AmexGameOpen, AmexAlwaysOpen, AmexOwnHandles
<1>6. AmexOpenings'
  BY <1>1, <1>3 DEF AmexIInv, AmexOpenings, AmexOpeningOK
<1>7. AmexClosings' /\ AmexOwned'
  BY <1>1, <1>3, <1>4 DEF AmexIInv, AmexClosings, AmexClosingOK, AmexOwned, AmexOwnOK
<1>8. QED
  BY <1>5, <1>6, <1>7 DEF AmexIInv

(* What a step of t must leave to the other threads, and reach itself. *)
AmexOthersKept(t) ==
    \A u \in AmexThreads : u # t =>
       /\ amexThread'[u] = amexThread[u]
       /\ AmexOpens(u) \/ AmexCloses(u) =>
             /\ amexKernel'[amexThread[u].fd] = amexKernel[amexThread[u].fd]
             /\ amexThread[u].fd \notin amexGame'
             /\ \A d \in AmexDevices : amexFile'[d] = amexThread[u].fd
                                     => amexFile[d] = amexThread[u].fd
             /\ AmexOpens(t)' \/ AmexCloses(t)' => amexThread[u].fd # amexThread'[t].fd

LEMMA AmexThreadsHold ==
  ASSUME NEW t \in AmexThreads, AmexIInv, AmexOthersKept(t),
         AmexOpeningOK(t)', AmexClosingOK(t)', AmexOwnOK(t)'
  PROVE  AmexOpenings' /\ AmexClosings' /\ AmexOwned'
<1>1. ASSUME NEW u \in AmexThreads, u # t
      PROVE  /\ AmexOpeningOK(u)' /\ AmexClosingOK(u)' /\ AmexOwnOK(u)'
             /\ AmexOpens(u)' <=> AmexOpens(u)
             /\ AmexCloses(u)' <=> AmexCloses(u)
  <2>1. amexThread'[u] = amexThread[u]
    BY <1>1 DEF AmexOthersKept
  <2>2. (AmexOpens(u)' <=> AmexOpens(u)) /\ (AmexCloses(u)' <=> AmexCloses(u))
    BY <2>1 DEF AmexOpens, AmexCloses
  <2>3. AmexOpens(u) \/ AmexCloses(u) =>
             /\ amexKernel'[amexThread[u].fd] = amexKernel[amexThread[u].fd]
             /\ amexThread[u].fd \notin amexGame'
             /\ \A d \in AmexDevices : amexFile'[d] = amexThread[u].fd
                                     => amexFile[d] = amexThread[u].fd
    BY <1>1 DEF AmexOthersKept
  <2>4. AmexOpeningOK(u)'
    BY <2>1, <2>3 DEF AmexIInv, AmexOpenings, AmexOpeningOK, AmexOpens, AmexCloses
  <2>5. AmexClosingOK(u)'
    BY <2>1, <2>3 DEF AmexIInv, AmexClosings, AmexClosingOK, AmexOpens, AmexCloses
  <2>6. AmexOwnOK(u)'
    BY <2>1, <2>3 DEF AmexIInv, AmexOwned, AmexOwnOK, AmexOpens, AmexCloses
  <2>7. QED
    BY <2>2, <2>4, <2>5, <2>6
<1>2. AmexOpenings' /\ AmexClosings'
  BY <1>1 DEF AmexOpenings, AmexClosings
<1>3. \A u \in AmexThreads : AmexOwnOK(u)'
  BY <1>1
<1>4. ASSUME NEW u \in AmexThreads, NEW v \in AmexThreads,
             AmexOpens(u)' \/ AmexCloses(u)', AmexOpens(v)' \/ AmexCloses(v)',
             amexThread'[v].fd = amexThread'[u].fd
      PROVE  v = u
  <2>1. CASE u # t /\ v # t
    <3>1. /\ amexThread'[u] = amexThread[u] /\ amexThread'[v] = amexThread[v]
          /\ AmexOpens(u) \/ AmexCloses(u)
          /\ AmexOpens(v) \/ AmexCloses(v)
      BY <1>1, <1>4, <2>1 DEF AmexOthersKept
    <3>2. QED
      BY <1>4, <3>1 DEF AmexIInv, AmexOwned
  <2>2. CASE u # t /\ v = t
    BY <1>1, <1>4, <2>2 DEF AmexOthersKept
  <2>3. CASE u = t /\ v # t
    BY <1>1, <1>4, <2>3 DEF AmexOthersKept
  <2>4. QED
    BY <2>1, <2>2, <2>3
<1>5. AmexOwned'
  BY <1>3, <1>4 DEF AmexOwned
<1>6. QED
  BY <1>2, <1>5

(* A thread that has no handle of its own is in nobody's way. *)
LEMMA AmexNoHandle ==
  ASSUME NEW t \in AmexThreads, ~AmexOpens(t)', ~AmexCloses(t)'
  PROVE  AmexClosingOK(t)' /\ AmexOwnOK(t)'
BY DEF AmexClosingOK, AmexOwnOK

LEMMA AmexRests ==
  ASSUME NEW t \in AmexThreads, amexThread'[t] = AmexIdle
  PROVE  ~AmexOpens(t)' /\ ~AmexCloses(t)' /\ AmexOpeningOK(t)'
<1>1. amexThread'[t].at = "idle"
  BY DEF AmexIdle
<1>2. ~AmexOpens(t)' /\ ~AmexCloses(t)'
  BY <1>1 DEF AmexOpens, AmexCloses
<1>3. QED
  BY <1>1, <1>2 DEF AmexOpeningOK

-----------------------------------------------------------------------------
(* A store that is closed is about to be opened. *)
LEMMA AmexOpenStoreHolds ==
  ASSUME NEW t \in AmexThreads, NEW d \in AmexDevices, AmexIInv, AmexOpenStore(t, d)
  PROVE  AmexIInv'
<1>1. /\ amexFile' = amexFile /\ amexKernel' = amexKernel /\ amexGame' = amexGame
      /\ d \in AmexStores
      /\ amexThread' = [amexThread EXCEPT ![t] =
                           [at |-> "checked", device |-> d, fd |-> AmexNone]]
  BY DEF AmexOpenStore
<1>2. /\ amexThread'[t] = [at |-> "checked", device |-> d, fd |-> AmexNone]
      /\ \A u \in AmexThreads : u # t => amexThread'[u] = amexThread[u]
  BY <1>1 DEF AmexIInv, AmexShape
<1>3. ~AmexOpens(t)' /\ ~AmexCloses(t)'
  BY <1>2 DEF AmexOpens, AmexCloses
<1>4. AmexShape' /\ AmexOneHandle' /\ AmexGameOpen' /\ AmexAlwaysOpen' /\ AmexOwnHandles'
  BY <1>1, AmexDistinct DEF AmexIInv, AmexShape, AmexOneHandle, AmexGameOpen, AmexAlwaysOpen, AmexOwnHandles
<1>5. AmexOpeningOK(t)'
  BY <1>1, <1>2, <1>3 DEF AmexOpeningOK
<1>6. AmexOthersKept(t)
  BY <1>1, <1>2, <1>3 DEF AmexOthersKept, AmexIInv, AmexOwned, AmexOwnOK
<1>7. QED
  BY <1>3, <1>4, <1>5, <1>6, AmexNoHandle, AmexThreadsHold DEF AmexIInv

(* *out = NULL: whatever was there, no other device's handle comes of it. *)
LEMMA AmexClearHolds ==
  ASSUME NEW t \in AmexThreads, AmexIInv, AmexClear(t)
  PROVE  AmexIInv'
<1> DEFINE d == amexThread[t].device
<1>1. /\ amexFile' = [amexFile EXCEPT ![d] = AmexNone]
      /\ amexKernel' = amexKernel /\ amexGame' = amexGame
      /\ amexThread[t].at = "checked" /\ d \in AmexStores
      /\ amexThread' = [amexThread EXCEPT ![t].at = "cleared", ![t].fd = AmexNone]
  BY DEF AmexClear, AmexGoes, AmexIInv, AmexOpenings, AmexOpeningOK
<1>2. /\ amexThread'[t] = [at |-> "cleared", device |-> d, fd |-> AmexNone]
      /\ \A u \in AmexThreads : u # t => amexThread'[u] = amexThread[u]
  BY <1>1 DEF AmexIInv, AmexShape
<1>3. ~AmexOpens(t)' /\ ~AmexCloses(t)'
  BY <1>2 DEF AmexOpens, AmexCloses
<1>4. \A e \in AmexDevices : amexFile'[e] = AmexNone \/ amexFile'[e] = amexFile[e]
  BY <1>1 DEF AmexIInv, AmexShape
<1>5. \A e \in AmexMemories : amexFile'[e] = amexFile[e]
  BY <1>1, AmexDistinct DEF AmexIInv, AmexShape
<1>6. AmexShape'
  BY <1>1 DEF AmexIInv, AmexShape
<1>7. AmexOneHandle' /\ AmexGameOpen' /\ AmexAlwaysOpen' /\ AmexOwnHandles'
  BY <1>1, <1>4, <1>5 DEF AmexIInv, AmexOneHandle, AmexGameOpen, AmexAlwaysOpen, AmexOwnHandles
<1>8. AmexOpeningOK(t)'
  BY <1>1, <1>2, <1>3 DEF AmexOpeningOK
<1>9. AmexOthersKept(t)
  <2>1. \A u \in AmexThreads : (AmexOpens(u) \/ AmexCloses(u)) => amexThread[u].fd # AmexNone
    BY AmexDistinct DEF AmexIInv, AmexOwned, AmexOwnOK
  <2>2. QED
    BY <1>1, <1>2, <1>3, <1>4, <2>1 DEF AmexOthersKept, AmexIInv, AmexOwned, AmexOwnOK
<1>10. QED
  BY <1>3, <1>6, <1>7, <1>8, <1>9, AmexNoHandle, AmexThreadsHold DEF AmexIInv

(* Windows gives out a handle that nobody has, to a store that is not open. *)
LEMMA AmexCreateHolds ==
  ASSUME NEW t \in AmexThreads, AmexIInv, AmexCreate(t)
  PROVE  AmexIInv'
<1> DEFINE d == amexThread[t].device
<1>1. /\ amexFile' = amexFile /\ amexGame' = amexGame
      /\ amexThread[t].at = "cleared" /\ d \in AmexStores
  BY DEF AmexCreate, AmexIInv, AmexOpenings, AmexOpeningOK
<1>2. CASE \E h \in AmexHandles : amexKernel[h] = d
  <2>1. amexKernel' = amexKernel /\ amexThread' = [amexThread EXCEPT ![t] = AmexIdle]
    BY <1>2 DEF AmexCreate
  <2>2. /\ amexThread'[t] = AmexIdle
        /\ \A u \in AmexThreads : u # t => amexThread'[u] = amexThread[u]
    BY <2>1 DEF AmexIInv, AmexShape
  <2>3. ~AmexOpens(t)' /\ ~AmexCloses(t)' /\ AmexOpeningOK(t)'
    BY <2>2, AmexRests
  <2>4. AmexShape' /\ AmexOneHandle' /\ AmexGameOpen' /\ AmexAlwaysOpen' /\ AmexOwnHandles'
    BY <1>1, <2>1 DEF AmexIInv, AmexShape, AmexOneHandle, AmexGameOpen, AmexAlwaysOpen, AmexOwnHandles, AmexIdle
  <2>5. AmexOthersKept(t)
    BY <1>1, <2>1, <2>2, <2>3 DEF AmexOthersKept, AmexIInv, AmexOwned, AmexOwnOK
  <2>6. QED
    BY <2>3, <2>4, <2>5, AmexNoHandle, AmexThreadsHold DEF AmexIInv
<1>3. CASE ~ \E h \in AmexHandles : amexKernel[h] = d
  <2>1. PICK h \in AmexHandles :
           /\ amexKernel[h] = "free"
           /\ amexKernel' = [amexKernel EXCEPT ![h] = d]
           /\ amexThread' = [amexThread EXCEPT ![t].at = "created", ![t].fd = h]
    BY <1>3 DEF AmexCreate, AmexGoes
  <2>2. /\ amexThread'[t] = [at |-> "created", device |-> d, fd |-> h]
        /\ \A u \in AmexThreads : u # t => amexThread'[u] = amexThread[u]
    BY <2>1 DEF AmexIInv, AmexShape
  <2>3. amexKernel'[h] = d /\ \A k \in AmexHandles : k # h => amexKernel'[k] = amexKernel[k]
    BY <2>1 DEF AmexIInv, AmexShape
  <2>4. d # "free" /\ d \in AmexDevices
    BY <1>1, AmexDistinct
  <2>5. h \notin amexGame /\ \A e \in AmexDevices : amexFile[e] # h
    BY <2>1, AmexDistinct DEF AmexIInv, AmexGameOpen, AmexOwnHandles
  <2>6. \A u \in AmexThreads : AmexOpens(u) \/ AmexCloses(u) => amexThread[u].fd # h
    <3> SUFFICES ASSUME NEW u \in AmexThreads, AmexOpens(u) \/ AmexCloses(u), amexThread[u].fd = h
                 PROVE  FALSE
      OBVIOUS
    <3>1. CASE AmexOpens(u)
      BY <2>1, <3>1, AmexDistinct DEF AmexIInv, AmexOpenings, AmexOpeningOK
    <3>2. CASE AmexCloses(u)
      BY <2>1, <3>2 DEF AmexIInv, AmexClosings, AmexClosingOK
    <3>3. QED
      BY <3>1, <3>2
  <2>7. AmexShape'
    BY <1>1, <2>1, <2>4 DEF AmexIInv, AmexShape
  <2>8. AmexOneHandle'
    BY <1>3, <2>3 DEF AmexIInv, AmexOneHandle
  <2>9. AmexGameOpen' /\ AmexAlwaysOpen'
    BY <1>1, <2>3, <2>5 DEF AmexIInv, AmexShape, AmexGameOpen, AmexAlwaysOpen
  <2>10. AmexOwnHandles'
    BY <1>1, <2>3, <2>5 DEF AmexIInv, AmexShape, AmexOwnHandles
  <2>11. AmexOpeningOK(t)' /\ AmexClosingOK(t)' /\ AmexOwnOK(t)'
    BY <1>1, <2>2, <2>3, <2>5 DEF AmexOpeningOK, AmexClosingOK, AmexOwnOK, AmexOpens, AmexCloses
  <2>12. AmexOthersKept(t)
    BY <1>1, <2>2, <2>3, <2>6 DEF AmexOthersKept, AmexIInv, AmexOwned, AmexOwnOK
  <2>13. QED
    BY <2>7, <2>8, <2>9, <2>10, <2>11, <2>12, AmexThreadsHold DEF AmexIInv
<1>4. QED
  BY <1>2, <1>3

(* SetFilePointer and SetEndOfFile: the handle stays the thread's. *)
LEMMA AmexResizeHolds ==
  ASSUME NEW t \in AmexThreads, AmexIInv, AmexResize(t)
  PROVE  AmexIInv'
<1>1. /\ amexFile' = amexFile /\ amexGame' = amexGame /\ amexKernel' = amexKernel
      /\ amexThread[t].at = "created"
      /\ amexThread' = [amexThread EXCEPT ![t].at = "sized", ![t].fd = amexThread[t].fd]
  BY DEF AmexResize, AmexGoes
<1>2. /\ amexThread'[t] = [amexThread[t] EXCEPT !.at = "sized"]
      /\ \A u \in AmexThreads : u # t => amexThread'[u] = amexThread[u]
  BY <1>1 DEF AmexIInv, AmexShape
<1>3. /\ amexThread'[t].at = "sized" /\ amexThread'[t].fd = amexThread[t].fd
      /\ amexThread'[t].device = amexThread[t].device
  BY <1>1, <1>2 DEF AmexIInv, AmexShape
<1>4. AmexOpens(t)
  BY <1>1 DEF AmexOpens
<1>5. AmexShape'
  <2>1. amexThread[t].fd \in AmexHandles \cup {AmexNone}
    BY DEF AmexIInv, AmexShape
  <2>2. QED
    BY <1>1, <2>1 DEF AmexIInv, AmexShape
<1>6. AmexOneHandle' /\ AmexGameOpen' /\ AmexAlwaysOpen' /\ AmexOwnHandles'
  BY <1>1 DEF AmexIInv, AmexOneHandle, AmexGameOpen, AmexAlwaysOpen, AmexOwnHandles
<1>7. AmexOpeningOK(t)' /\ AmexClosingOK(t)' /\ AmexOwnOK(t)'
  <2>1. AmexOpeningOK(t) /\ AmexOwnOK(t)
    BY DEF AmexIInv, AmexOpenings, AmexOwned
  <2>2. AmexOpeningOK(t)'
    BY <1>1, <1>3, <1>4, <2>1 DEF AmexOpeningOK, AmexOpens
  <2>3. AmexClosingOK(t)' /\ AmexOwnOK(t)'
    BY <1>1, <1>3, <1>4, <2>1 DEF AmexClosingOK, AmexOwnOK, AmexOpens, AmexCloses
  <2>4. QED
    BY <2>2, <2>3
<1>8. AmexOthersKept(t)
  BY <1>1, <1>2, <1>3, <1>4 DEF AmexOthersKept, AmexIInv, AmexOwned, AmexOwnOK
<1>9. QED
  BY <1>5, <1>6, <1>7, <1>8, AmexThreadsHold DEF AmexIInv

(* A handle that only the thread has is closed. *)
LEMMA AmexResizeFailsHolds ==
  ASSUME NEW t \in AmexThreads, AmexIInv, AmexResizeFails(t)
  PROVE  AmexIInv'
<1> DEFINE fd == amexThread[t].fd
<1>1. /\ amexFile' = amexFile /\ amexGame' = amexGame
      /\ amexKernel' = [amexKernel EXCEPT ![fd] = "free"]
      /\ amexThread[t].at = "created"
      /\ amexThread' = [amexThread EXCEPT ![t] = AmexIdle]
  BY DEF AmexResizeFails
<1>2. AmexOpens(t) /\ fd \in AmexHandles /\ fd \notin amexGame
      /\ \A d \in AmexDevices : amexFile[d] # fd
  BY <1>1 DEF AmexOpens, AmexIInv, AmexOpenings, AmexOpeningOK, AmexOwned, AmexOwnOK
<1>3. /\ amexThread'[t] = AmexIdle
      /\ \A u \in AmexThreads : u # t => amexThread'[u] = amexThread[u]
  BY <1>1 DEF AmexIInv, AmexShape
<1>4. amexKernel'[fd] = "free" /\ \A k \in AmexHandles : k # fd => amexKernel'[k] = amexKernel[k]
  BY <1>1, <1>2 DEF AmexIInv, AmexShape
<1>5. ~AmexOpens(t)' /\ ~AmexCloses(t)' /\ AmexOpeningOK(t)'
  BY <1>3, AmexRests
<1>6. AmexShape'
  BY <1>1 DEF AmexIInv, AmexShape, AmexIdle
<1>7. AmexOneHandle'
  BY <1>4, AmexDistinct DEF AmexIInv, AmexOneHandle
<1>8. AmexGameOpen' /\ AmexAlwaysOpen' /\ AmexOwnHandles'
  BY <1>1, <1>2, <1>4 DEF AmexIInv, AmexShape, AmexGameOpen, AmexAlwaysOpen, AmexOwnHandles
<1>9. AmexOthersKept(t)
  BY <1>1, <1>2, <1>3, <1>4, <1>5 DEF AmexOthersKept, AmexIInv, AmexOwned, AmexOwnOK
<1>10. QED
  BY <1>5, <1>6, <1>7, <1>8, <1>9, AmexNoHandle, AmexThreadsHold DEF AmexIInv

(* *out = file *)
LEMMA AmexPublishHolds ==
  ASSUME NEW t \in AmexThreads, AmexIInv, AmexPublish(t)
  PROVE  AmexIInv'
<1> DEFINE fd == amexThread[t].fd
           d  == amexThread[t].device
<1>1. /\ amexFile' = [amexFile EXCEPT ![d] = fd]
      /\ amexGame' = amexGame /\ amexKernel' = amexKernel
      /\ amexThread[t].at = "sized"
      /\ amexThread' = [amexThread EXCEPT ![t].at = "published", ![t].fd = fd]
  BY DEF AmexPublish, AmexGoes
<1>2. AmexOpens(t) /\ d \in AmexStores /\ amexKernel[fd] = d
      /\ fd \in AmexHandles /\ fd \notin amexGame
  BY <1>1 DEF AmexOpens, AmexIInv, AmexOpenings, AmexOpeningOK, AmexOwned, AmexOwnOK
<1>3. \A u \in AmexThreads : u # t => amexThread'[u] = amexThread[u]
  BY <1>1 DEF AmexIInv, AmexShape
<1>4. /\ amexThread'[t].at = "published" /\ amexThread'[t].fd = fd
      /\ amexThread'[t].device = d
  BY <1>1 DEF AmexIInv, AmexShape
<1>5. /\ amexFile'[d] = fd
      /\ \A e \in AmexDevices : e # d => amexFile'[e] = amexFile[e]
      /\ d \in AmexDevices /\ d \notin AmexMemories
  BY <1>1, <1>2, AmexDistinct DEF AmexIInv, AmexShape
<1>6. AmexShape'
  BY <1>1, <1>2 DEF AmexIInv, AmexShape
<1>7. AmexOneHandle' /\ AmexGameOpen'
  BY <1>1 DEF AmexIInv, AmexOneHandle, AmexGameOpen
<1>8. AmexAlwaysOpen' /\ AmexOwnHandles'
  BY <1>1, <1>2, <1>5, AmexDistinct DEF AmexIInv, AmexAlwaysOpen, AmexOwnHandles
<1>9. AmexOpeningOK(t)' /\ AmexClosingOK(t)' /\ AmexOwnOK(t)'
  BY <1>1, <1>2, <1>4 DEF AmexOpeningOK, AmexClosingOK, AmexOwnOK, AmexOpens, AmexCloses
<1>10. \A u \in AmexThreads : u # t /\ (AmexOpens(u) \/ AmexCloses(u)) => amexThread[u].fd # fd
  BY <1>2 DEF AmexIInv, AmexOwned
<1>11. AmexOthersKept(t)
  BY <1>1, <1>3, <1>4, <1>5, <1>10 DEF AmexOthersKept, AmexIInv, AmexOwned, AmexOwnOK
<1>12. QED
  BY <1>6, <1>7, <1>8, <1>9, <1>11, AmexThreadsHold DEF AmexIInv

(* The answer is the thread's own handle or none: Windows has no other one of
   the device.                                                             *)
LEMMA AmexAnswerHolds ==
  ASSUME NEW t \in AmexThreads, AmexIInv, AmexAnswer(t)
  PROVE  AmexIInv'
<1> DEFINE fd == amexThread[t].fd
           d  == amexThread[t].device
<1>1. /\ amexFile' = amexFile /\ amexKernel' = amexKernel
      /\ amexGame' = amexGame \cup ({amexFile[d]} \ {AmexNone})
      /\ amexThread[t].at = "published"
      /\ amexThread' = [amexThread EXCEPT ![t] = AmexIdle]
  BY DEF AmexAnswer
<1>2. AmexOpens(t) /\ d \in AmexStores /\ amexKernel[fd] = d /\ fd \in AmexHandles
  BY <1>1 DEF AmexOpens, AmexIInv, AmexOpenings, AmexOpeningOK, AmexOwned, AmexOwnOK
<1>3. amexFile[d] = AmexNone \/ amexFile[d] = fd
  <2>1. amexFile[d] # AmexNone => amexFile[d] \in AmexHandles /\ amexKernel[amexFile[d]] = d
    BY <1>2, AmexDistinct DEF AmexIInv, AmexShape, AmexOwnHandles
  <2>2. QED
    BY <1>2, <2>1 DEF AmexIInv, AmexOneHandle
<1>4. \A h \in amexGame' : h \in amexGame \/ h = fd
  BY <1>1, <1>3
<1>5. /\ amexThread'[t] = AmexIdle
      /\ \A u \in AmexThreads : u # t => amexThread'[u] = amexThread[u]
  BY <1>1 DEF AmexIInv, AmexShape
<1>6. ~AmexOpens(t)' /\ ~AmexCloses(t)' /\ AmexOpeningOK(t)'
  BY <1>5, AmexRests
<1>7. AmexShape'
  BY <1>1, <1>2, <1>4 DEF AmexIInv, AmexShape, AmexIdle
<1>8. AmexGameOpen'
  BY <1>1, <1>2, <1>4, AmexDistinct DEF AmexIInv, AmexGameOpen
<1>9. AmexOneHandle' /\ AmexAlwaysOpen' /\ AmexOwnHandles'
  BY <1>1 DEF AmexIInv, AmexOneHandle, AmexAlwaysOpen, AmexOwnHandles
<1>10. \A u \in AmexThreads : u # t /\ (AmexOpens(u) \/ AmexCloses(u)) => amexThread[u].fd # fd
  BY <1>2 DEF AmexIInv, AmexOwned
<1>11. AmexOthersKept(t)
  BY <1>1, <1>4, <1>5, <1>6, <1>10 DEF AmexOthersKept, AmexIInv, AmexOwned, AmexOwnOK
<1>12. QED
  BY <1>6, <1>7, <1>8, <1>9, <1>11, AmexNoHandle, AmexThreadsHold DEF AmexIInv

(* Another file gets a handle that nobody has. *)
LEMMA AmexOpenOtherHolds ==
  ASSUME NEW t \in AmexThreads, AmexIInv, AmexOpenOther(t)
  PROVE  AmexIInv'
<1>1. /\ amexFile' = amexFile /\ amexThread' = amexThread
      /\ amexThread[t].at = "idle"
  BY DEF AmexOpenOther
<1>2. PICK h \in AmexHandles :
         /\ amexKernel[h] = "free"
         /\ amexKernel' = [amexKernel EXCEPT ![h] = "other"]
         /\ amexGame' = amexGame \cup {h}
  BY DEF AmexOpenOther
<1>3. amexKernel'[h] = "other" /\ \A k \in AmexHandles : k # h => amexKernel'[k] = amexKernel[k]
  BY <1>2 DEF AmexIInv, AmexShape
<1>4. \A e \in AmexDevices : amexFile[e] # h
  BY <1>2, AmexDistinct DEF AmexIInv, AmexOwnHandles
<1>5. \A u \in AmexThreads : AmexOpens(u) \/ AmexCloses(u) => amexThread[u].fd # h
  <2> SUFFICES ASSUME NEW u \in AmexThreads, AmexOpens(u) \/ AmexCloses(u), amexThread[u].fd = h
               PROVE  FALSE
    OBVIOUS
  <2>1. CASE AmexOpens(u)
    BY <1>2, <2>1, AmexDistinct DEF AmexIInv, AmexOpenings, AmexOpeningOK
  <2>2. CASE AmexCloses(u)
    BY <1>2, <2>2 DEF AmexIInv, AmexClosings, AmexClosingOK
  <2>3. QED
    BY <2>1, <2>2
<1>6. AmexShape'
  BY <1>1, <1>2 DEF AmexIInv, AmexShape
<1>7. AmexOneHandle'
  BY <1>3, AmexDistinct DEF AmexIInv, AmexOneHandle
<1>8. AmexGameOpen'
  BY <1>2, <1>3 DEF AmexIInv, AmexShape, AmexGameOpen
<1>9. AmexAlwaysOpen' /\ AmexOwnHandles'
  BY <1>1, <1>3, <1>4 DEF AmexIInv, AmexShape, AmexAlwaysOpen, AmexOwnHandles
<1>10. ~AmexOpens(t)' /\ ~AmexCloses(t)' /\ AmexOpeningOK(t)'
  BY <1>1 DEF AmexOpens, AmexCloses, AmexOpeningOK
<1>11. AmexOthersKept(t)
  BY <1>1, <1>2, <1>3, <1>5, <1>10 DEF AmexOthersKept, AmexIInv, AmexOwned, AmexOwnOK
<1>12. QED
  BY <1>6, <1>7, <1>8, <1>9, <1>10, <1>11, AmexNoHandle, AmexThreadsHold DEF AmexIInv

(* The device forgets the handle while Windows still has it open. *)
LEMMA AmexCloseHolds ==
  ASSUME NEW t \in AmexThreads, NEW fd \in amexGame, AmexIInv, AmexClose(t, fd)
  PROVE  AmexIInv'
<1>1. /\ amexKernel' = amexKernel /\ amexGame' = amexGame \ {fd}
      /\ amexThread[t].at = "idle"
      /\ fd \in AmexHandles /\ amexKernel[fd] # "free"
  BY DEF AmexClose, AmexIInv, AmexShape, AmexGameOpen
<1>2. \A u \in AmexThreads : AmexOpens(u) \/ AmexCloses(u) => amexThread[u].fd # fd
  BY DEF AmexIInv, AmexOwned, AmexOwnOK
<1>3. AmexOneHandle' /\ AmexGameOpen'
  BY <1>1 DEF AmexIInv, AmexOneHandle, AmexGameOpen
<1>4. CASE AmexOwners(fd) \cap AmexMemories # {}
  <2>1. amexFile' = amexFile /\ amexThread' = amexThread
    BY <1>4 DEF AmexClose
  <2>2. AmexShape' /\ AmexAlwaysOpen' /\ AmexOwnHandles'
    BY <1>1, <2>1 DEF AmexIInv, AmexShape, AmexAlwaysOpen, AmexOwnHandles
  <2>3. ~AmexOpens(t)' /\ ~AmexCloses(t)' /\ AmexOpeningOK(t)'
    BY <1>1, <2>1 DEF AmexOpens, AmexCloses, AmexOpeningOK
  <2>4. AmexOthersKept(t)
    BY <1>1, <2>1, <2>3 DEF AmexOthersKept, AmexIInv, AmexOwned, AmexOwnOK
  <2>5. QED
    BY <1>3, <2>2, <2>3, <2>4, AmexNoHandle, AmexThreadsHold DEF AmexIInv
<1>5. CASE AmexOwners(fd) \cap AmexMemories = {}
  <2>1. amexThread' = [amexThread EXCEPT ![t] =
                         [at |-> "closing", device |-> AmexNone, fd |-> fd]]
    BY <1>5 DEF AmexClose
  <2>2. /\ amexThread'[t] = [at |-> "closing", device |-> AmexNone, fd |-> fd]
        /\ \A u \in AmexThreads : u # t => amexThread'[u] = amexThread[u]
    BY <2>1 DEF AmexIInv, AmexShape
  <2>3. /\ amexFile' \in [AmexDevices -> AmexHandles \cup {AmexNone}]
        /\ \A e \in AmexDevices : /\ amexFile'[e] # fd
                                  /\ amexFile'[e] = AmexNone \/ amexFile'[e] = amexFile[e]
        /\ \A e \in AmexMemories : amexFile'[e] = amexFile[e]
    <3>1. CASE AmexOwners(fd) = {}
      <4>1. amexFile' = amexFile
        BY <1>5, <3>1 DEF AmexClose
      <4>2. \A e \in AmexDevices : amexFile[e] # fd
        BY <3>1 DEF AmexOwners
      <4>3. QED
        BY <4>1, <4>2 DEF AmexIInv, AmexShape
    <3>2. CASE AmexOwners(fd) # {}
      <4> DEFINE d == CHOOSE e \in AmexOwners(fd) : TRUE
      <4>1. d \in AmexOwners(fd)
        BY <3>2
      <4>2. amexFile' = [amexFile EXCEPT ![d] = AmexNone]
        BY <1>5, <3>2 DEF AmexClose, AmexForgotten
      <4> HIDE DEF d
      <4>3. \A e \in AmexDevices : amexFile[e] = fd => e = d
        BY <1>1, <4>1, AmexOneOwner DEF AmexIInv, AmexOwners
      <4>4. d \in AmexDevices /\ d \notin AmexMemories
        BY <1>5, <4>1 DEF AmexOwners
      <4>5. QED
        BY <1>1, <4>2, <4>3, <4>4, AmexDistinct DEF AmexIInv, AmexShape
    <3>3. QED
      BY <3>1, <3>2
  <2>4. AmexShape'
    BY <1>1, <2>1, <2>3 DEF AmexIInv, AmexShape
  <2>5. AmexAlwaysOpen' /\ AmexOwnHandles'
    BY <1>1, <2>3 DEF AmexIInv, AmexAlwaysOpen, AmexOwnHandles
  <2>6. AmexOpeningOK(t)' /\ AmexClosingOK(t)' /\ AmexOwnOK(t)'
    <3>1. amexThread'[t].at = "closing" /\ amexThread'[t].fd = fd
      BY <2>2
    <3>2. AmexOpeningOK(t)'
      BY <3>1 DEF AmexOpeningOK, AmexOpens
    <3>3. AmexClosingOK(t)'
      BY <1>1, <2>3, <3>1 DEF AmexClosingOK
    <3>4. AmexOwnOK(t)'
      BY <1>1, <3>1 DEF AmexOwnOK
    <3>5. QED
      BY <3>2, <3>3, <3>4
  <2>7. \A u \in AmexThreads : AmexOpens(u) \/ AmexCloses(u) => amexThread[u].fd # AmexNone
    BY AmexDistinct DEF AmexIInv, AmexOwned, AmexOwnOK
  <2>8. AmexOthersKept(t)
    <3>1. amexThread'[t].fd = fd
      BY <2>2
    <3>2. \A u \in AmexThreads : AmexOpens(u) \/ AmexCloses(u) => amexThread[u].fd \notin amexGame'
      BY <1>1 DEF AmexIInv, AmexOwned, AmexOwnOK
    <3>3. QED
      BY <1>1, <1>2, <2>2, <2>3, <2>7, <3>1, <3>2 DEF AmexOthersKept
  <2>9. QED
    BY <1>3, <2>4, <2>5, <2>6, <2>8, AmexThreadsHold DEF AmexIInv
<1>6. QED
  BY <1>4, <1>5

(* Windows closes a handle that no device has. *)
LEMMA AmexCloseHandleHolds ==
  ASSUME NEW t \in AmexThreads, AmexIInv, AmexCloseHandle(t)
  PROVE  AmexIInv'
<1> DEFINE fd == amexThread[t].fd
<1>1. /\ amexFile' = amexFile /\ amexGame' = amexGame
      /\ amexKernel' = [amexKernel EXCEPT ![fd] = "free"]
      /\ amexThread[t].at = "closing"
      /\ amexThread' = [amexThread EXCEPT ![t] = AmexIdle]
  BY DEF AmexCloseHandle
<1>2. AmexCloses(t) /\ fd \in AmexHandles /\ fd \notin amexGame
      /\ \A d \in AmexDevices : amexFile[d] # fd
  BY <1>1 DEF AmexCloses, AmexIInv, AmexClosings, AmexClosingOK, AmexOwned, AmexOwnOK
<1>3. /\ amexThread'[t] = AmexIdle
      /\ \A u \in AmexThreads : u # t => amexThread'[u] = amexThread[u]
  BY <1>1 DEF AmexIInv, AmexShape
<1>4. amexKernel'[fd] = "free" /\ \A k \in AmexHandles : k # fd => amexKernel'[k] = amexKernel[k]
  BY <1>1, <1>2 DEF AmexIInv, AmexShape
<1>5. ~AmexOpens(t)' /\ ~AmexCloses(t)' /\ AmexOpeningOK(t)'
  BY <1>3, AmexRests
<1>6. AmexShape'
  BY <1>1 DEF AmexIInv, AmexShape, AmexIdle
<1>7. AmexOneHandle'
  BY <1>4, AmexDistinct DEF AmexIInv, AmexOneHandle
<1>8. AmexGameOpen' /\ AmexAlwaysOpen' /\ AmexOwnHandles'
  BY <1>1, <1>2, <1>4 DEF AmexIInv, AmexShape, AmexGameOpen, AmexAlwaysOpen, AmexOwnHandles
<1>9. AmexOthersKept(t)
  BY <1>1, <1>2, <1>3, <1>4, <1>5 DEF AmexOthersKept, AmexIInv, AmexOwned, AmexOwnOK
<1>10. QED
  BY <1>5, <1>6, <1>7, <1>8, <1>9, AmexNoHandle, AmexThreadsHold DEF AmexIInv

(* The positions of a thread that looks at the switches, or may begin to *)
AmexPanelAt == {"idle", "test1", "test2", "service", "service1", "service2"}

(* A step of such a look changes nothing of the devices and their files. *)
LEMMA AmexLooks ==
  ASSUME NEW t \in AmexThreads, AmexGetSwitches(t)
  PROVE  /\ UNCHANGED <<amexFile, amexKernel, amexSize, amexGame, amexPressed>>
         /\ amexThread[t].at \in AmexPanelAt
         /\ \E at \in AmexPanelAt : amexThread' = [amexThread EXCEPT
                                        ![t].at = at, ![t].fd = amexThread[t].fd]
<1>1. ASSUME NEW s, NEW from \in AmexPanelAt, NEW down \in AmexPanelAt,
             NEW up \in AmexPanelAt, AmexLook(t, s, from, down, up)
      PROVE  /\ UNCHANGED <<amexFile, amexKernel, amexSize, amexGame, amexPressed>>
             /\ amexThread[t].at \in AmexPanelAt
             /\ \E at \in AmexPanelAt : amexThread' = [amexThread EXCEPT
                                            ![t].at = at, ![t].fd = amexThread[t].fd]
  BY <1>1 DEF AmexLook, AmexGoes
<1>2. ASSUME NEW s, NEW from \in AmexPanelAt, NEW to \in AmexPanelAt,
             AmexUnpress(t, s, from, to)
      PROVE  /\ UNCHANGED <<amexFile, amexKernel, amexSize, amexGame, amexPressed>>
             /\ amexThread[t].at \in AmexPanelAt
             /\ \E at \in AmexPanelAt : amexThread' = [amexThread EXCEPT
                                            ![t].at = at, ![t].fd = amexThread[t].fd]
  BY <1>2 DEF AmexUnpress, AmexGoes
<1>3. {"idle", "test1", "test2", "service", "service1", "service2"} \subseteq AmexPanelAt
  BY DEF AmexPanelAt
<1>4. QED
  BY <1>1, <1>2, <1>3 DEF AmexGetSwitches

(* It owns no handle while it looks. *)
LEMMA AmexGetSwitchesHolds ==
  ASSUME NEW t \in AmexThreads, AmexIInv, AmexGetSwitches(t)
  PROVE  AmexIInv'
<1>1. PICK at \in AmexPanelAt :
         amexThread' = [amexThread EXCEPT ![t].at = at, ![t].fd = amexThread[t].fd]
  BY AmexLooks
<1>2. /\ amexFile' = amexFile /\ amexKernel' = amexKernel /\ amexGame' = amexGame
      /\ amexThread[t].at \in AmexPanelAt
  BY AmexLooks
<1>3. /\ amexThread'[t].at = at
      /\ \A u \in AmexThreads : u # t => amexThread'[u] = amexThread[u]
  BY <1>1 DEF AmexIInv, AmexShape
<1>4. ~AmexOpens(t)' /\ ~AmexCloses(t)'
  BY <1>3 DEF AmexOpens, AmexCloses, AmexPanelAt
<1>5. AmexShape'
  <2>1. amexThread[t].fd \in AmexHandles \cup {AmexNone}
    BY DEF AmexIInv, AmexShape
  <2>2. QED
    BY <1>1, <1>2, <2>1 DEF AmexIInv, AmexShape, AmexPanelAt
<1>6. AmexOneHandle' /\ AmexGameOpen' /\ AmexAlwaysOpen' /\ AmexOwnHandles'
  BY <1>2 DEF AmexIInv, AmexOneHandle, AmexGameOpen, AmexAlwaysOpen, AmexOwnHandles
<1>7. AmexOpeningOK(t)'
  BY <1>3, <1>4 DEF AmexOpeningOK, AmexPanelAt
<1>8. AmexOthersKept(t)
  BY <1>2, <1>3, <1>4 DEF AmexOthersKept, AmexIInv, AmexOwned, AmexOwnOK
<1>9. QED
  BY <1>4, <1>5, <1>6, <1>7, <1>8, AmexNoHandle, AmexThreadsHold DEF AmexIInv

-----------------------------------------------------------------------------
LEMMA AmexStepHolds == AmexIInv /\ [AmexNext]_amexVars => AmexIInv'
<1> SUFFICES ASSUME AmexIInv, [AmexNext]_amexVars PROVE AmexIInv'
  OBVIOUS
<1>1. ASSUME NEW t \in AmexThreads, NEW d \in AmexDevices,
             AmexOpenMemory(t, d) \/ AmexOpenStore(t, d)
      PROVE  AmexIInv'
  BY <1>1, AmexOpenMemoryHolds, AmexOpenStoreHolds
<1>2. ASSUME NEW t \in AmexThreads,
             \/ AmexClear(t) \/ AmexCreate(t) \/ AmexResize(t) \/ AmexResizeFails(t)
             \/ AmexPublish(t) \/ AmexAnswer(t) \/ AmexOpenOther(t) \/ AmexCloseHandle(t)
      PROVE  AmexIInv'
  BY <1>2, AmexClearHolds, AmexCreateHolds, AmexResizeHolds, AmexResizeFailsHolds, AmexPublishHolds,
     AmexAnswerHolds, AmexOpenOtherHolds, AmexCloseHandleHolds
<1>3. ASSUME NEW t \in AmexThreads, NEW fd \in amexGame, AmexClose(t, fd)
      PROVE  AmexIInv'
  BY <1>3, AmexCloseHolds
<1>4. ASSUME UNCHANGED <<amexFile, amexKernel, amexThread, amexGame>> PROVE AmexIInv'
  BY <1>4, AmexStutterHolds
<1>5. ASSUME NEW t \in AmexThreads, AmexGetSwitches(t) PROVE AmexIInv'
  BY <1>5, AmexGetSwitchesHolds
<1>6. ASSUME NEW s \in AmexSwitches, AmexPress(s) PROVE AmexIInv'
  BY <1>4, <1>6 DEF AmexPress
<1>7. CASE UNCHANGED amexVars
  BY <1>4, <1>7 DEF amexVars
<1>8. QED
  BY <1>1, <1>2, <1>3, <1>5, <1>6, <1>7 DEF AmexNext

THEOREM AmexInvariance == AmexSpec => []AmexIInv
  BY AmexInitHolds, AmexStepHolds, PTL DEF AmexSpec

(* The handlers of ds.c, gpio.c, eeprom.c and sram.c, between them: what a
   device takes for its handle is open to it, with no lock, for any number of
   threads and any handles that Windows gives out again.                   *)
THEOREM AmexKeepsOwnHandles == AmexSpec => []AmexOwnHandles
  BY AmexInvariance, PTL DEF AmexIInv

-----------------------------------------------------------------------------
(* Registry: a size that was told is the size that is needed. *)

(* A size that a thread was told of a value is the one that it needs. *)
RegToldOK(told) ==
    told = RegUntold \/ /\ told.value \in {"dword", "string"} /\ told.form \in RegForms
                        /\ told.size = RegNeeded(told.value, told.form)

(* The inductive invariant of the sizes *)
RegSizeInv ==
    /\ regTold = [t \in RegThreads |-> regTold[t]]
    /\ regAnswer = [t \in RegThreads |-> regAnswer[t]]
    /\ \A t \in RegThreads : RegToldOK(regTold[t])
    /\ RegSizeSuffices

(* It holds when nobody has asked. *)
LEMMA RegSizeInit == RegInit => RegSizeInv
  BY DEF RegInit, RegSilence, RegSizeInv, RegToldOK, RegSizeSuffices

(* A thread is answered anew, and told a size that is needed or none. *)
LEMMA RegSizeKept ==
  ASSUME RegSizeInv, NEW t \in RegThreads, NEW told, NEW answer,
         RegToldOK(told), answer.err # "MORE_DATA",
         regTold' = [regTold EXCEPT ![t] = told],
         regAnswer' = [regAnswer EXCEPT ![t] = answer]
  PROVE  RegSizeInv'
  BY DEF RegSizeInv, RegSizeSuffices, RegToldOK

(* A thread forgets a size, or is told a right one. *)
LEMMA RegToldKept ==
  ASSUME RegSizeInv, NEW t \in RegThreads, NEW told, RegToldOK(told),
         regTold' = [regTold EXCEPT ![t] = told], UNCHANGED regAnswer
  PROVE  RegSizeInv'
  BY DEF RegSizeInv, RegSizeSuffices, RegToldOK

(* A thread gets an answer that says nothing of a size. *)
LEMMA RegAnswerKept ==
  ASSUME RegSizeInv, NEW t \in RegThreads, NEW by, NEW virtual, NEW err,
         err # "MORE_DATA", RegAnswered(t, by, virtual, err), UNCHANGED regTold
  PROVE  RegSizeInv'
<1> DEFINE answer == [by |-> by, virtual |-> virtual, err |-> err]
<1>1. regTold' = [regTold EXCEPT ![t] = regTold[t]] /\ RegToldOK(regTold[t])
  BY DEF RegSizeInv
<1>2. answer.err # "MORE_DATA" /\ regAnswer' = [regAnswer EXCEPT ![t] = answer]
  BY DEF RegAnswered
<1>3. QED
  BY <1>1, <1>2, RegSizeKept

(* A query for the size, or with a buffer of the size that was told *)
LEMMA RegQuerySizeHolds ==
  ASSUME RegSizeInv, NEW t \in RegThreads, NEW v \in RegValues, NEW form \in RegForms,
         NEW room, room = RegNone \/ room = RegNeeded(v, form), RegQuery(t, v, form, room)
  PROVE  RegSizeInv'
<1> DEFINE err == RegResult(v, form, room)
<1>1. RegNeeded(v, form) \in Nat
  BY RegLengthAssumption DEF RegNeeded
<1>2. err # "MORE_DATA"
  BY <1>1 DEF RegResult, RegValues
<1>3. RegToldOK(RegUntold)
  BY DEF RegToldOK
<1>4. err = "SUCCESS" => RegToldOK([value |-> v, form |-> form, size |-> RegSize(v, form)])
  <2>1. err = "SUCCESS" => v \in {"dword", "string"}
    BY DEF RegResult, RegValues
  <2>2. v \in {"dword", "string"} => RegSize(v, form) = RegNeeded(v, form)
    BY DEF RegSize, RegNeeded, RegForms
  <2>3. QED
    BY <2>1, <2>2 DEF RegToldOK
<1>5. CASE RegMatch(regMine[t].handle) # {}
  <2> DEFINE told == IF err = "SUCCESS"
                     THEN [value |-> v, form |-> form, size |-> RegSize(v, form)]
                     ELSE RegUntold
  <2>1. PICK k \in RegMatch(regMine[t].handle) : RegAnswered(t, k, TRUE, err)
    BY <1>5 DEF RegQuery
  <2>2. regTold' = [regTold EXCEPT ![t] = told]
    BY <1>5 DEF RegQuery
  <2>3. RegToldOK(told)
    BY <1>3, <1>4
  <2> DEFINE answer == [by |-> k, virtual |-> TRUE, err |-> err]
  <2>4. regAnswer' = [regAnswer EXCEPT ![t] = answer] /\ answer.err = err
    BY <2>1 DEF RegAnswered
  <2> HIDE DEF told, answer, err
  <2>5. QED
    BY <1>2, <2>2, <2>3, <2>4, RegSizeKept
<1>6. CASE RegMatch(regMine[t].handle) = {}
  <2>1. regTold' = [regTold EXCEPT ![t] = RegUntold] /\ UNCHANGED regAnswer
    BY <1>6 DEF RegQuery
  <2>2. QED
    BY <1>3, <2>1, RegToldKept
<1>7. QED
  BY <1>5, <1>6

(* Every step of the registry keeps it. *)
LEMMA RegSizeStep == RegSizeInv /\ [RegNext]_regVars => RegSizeInv'
<1> SUFFICES ASSUME RegSizeInv, [RegNext]_regVars PROVE RegSizeInv'
  OBVIOUS
<1>1. ASSUME UNCHANGED <<regTold, regAnswer>> PROVE RegSizeInv'
  BY <1>1 DEF RegSizeInv, RegSizeSuffices, RegToldOK
<1>2. CASE \E k \in RegKeys : RegPushKey(k)
  BY <1>1, <1>2 DEF RegPushKey
<1>3. ASSUME NEW t \in RegThreads, NEW n \in RegNames, RegOpenKey(t, n) PROVE RegSizeInv'
  BY <1>1, <1>3, RegAnswerKept DEF RegOpenKey, RegOpenVirtual
<1>4. ASSUME NEW t \in RegThreads, RegOpenNext(t) PROVE RegSizeInv'
  BY <1>4, RegAnswerKept DEF RegOpenNext
<1>5. ASSUME NEW t \in RegThreads, RegCloseKey(t) PROVE RegSizeInv'
  BY <1>1, <1>5 DEF RegCloseKey
<1>6. ASSUME NEW t \in RegThreads, RegCloseNext(t) PROVE RegSizeInv'
  <2>1. RegSilence.err # "MORE_DATA" /\ RegToldOK(RegUntold)
    BY DEF RegSilence, RegToldOK
  <2>2. QED
    BY <1>6, <2>1, RegSizeKept DEF RegCloseNext
<1>7. ASSUME NEW t \in RegThreads, NEW v \in RegValues, NEW f \in RegForms,
             RegQuerySize(t, v, f)
      PROVE  RegSizeInv'
  BY <1>7, RegQuerySizeHolds DEF RegQuerySize
<1>8. ASSUME NEW t \in RegThreads, RegQueryValue(t) PROVE RegSizeInv'
  <2>1. /\ RegQuery(t, regTold[t].value, regTold[t].form, regTold[t].size)
        /\ regTold[t].value \in {"dword", "string"} /\ regTold[t].form \in RegForms
        /\ regTold[t].size = RegNeeded(regTold[t].value, regTold[t].form)
    BY <1>8 DEF RegQueryValue, RegSizeInv, RegToldOK
  <2>2. regTold[t].value \in RegValues
    BY <2>1 DEF RegValues
  <2>3. QED
    BY <2>1, <2>2, RegQuerySizeHolds
<1>9. ASSUME NEW t \in RegThreads, RegQueryNext(t) \/ RegSetNext(t) PROVE RegSizeInv'
  BY <1>9, RegAnswerKept DEF RegQueryNext, RegSetNext
<1>10. ASSUME NEW t \in RegThreads, NEW v \in {"dword", "absent"}, RegSetValue(t, v)
       PROVE  RegSizeInv'
  <2>1. regTold' = [regTold EXCEPT ![t] = RegUntold] /\ RegToldOK(RegUntold)
    BY <1>10 DEF RegSetValue, RegToldOK
  <2>2. CASE UNCHANGED regAnswer
    BY <2>1, <2>2, RegToldKept
  <2>3. CASE RegMatch(regMine[t].handle) # {}
    <3> DEFINE err == IF v = "absent" THEN "FILE_NOT_FOUND" ELSE "SUCCESS"
    <3>1. PICK k \in RegMatch(regMine[t].handle) : RegAnswered(t, k, TRUE, err)
      BY <1>10, <2>3 DEF RegSetValue
    <3> DEFINE answer == [by |-> k, virtual |-> TRUE, err |-> err]
    <3>2. regAnswer' = [regAnswer EXCEPT ![t] = answer] /\ answer.err # "MORE_DATA"
      BY <3>1 DEF RegAnswered
    <3> HIDE DEF answer
    <3>3. QED
      BY <2>1, <3>2, RegSizeKept
  <2>4. QED
    BY <1>10, <2>2, <2>3 DEF RegSetValue
<1>11. CASE UNCHANGED regVars
  BY <1>1, <1>11 DEF regVars
<1>12. QED
  BY <1>2, <1>3, <1>4, <1>5, <1>6, <1>7, <1>8, <1>9, <1>10, <1>11 DEF RegNext, RegNames

(* reg_hook_query_val_locked and its A form: a program that asks for the size
   first and comes back with a buffer of it is never told that it is short, for
   a string of any length.                                                 *)
THEOREM RegSizesSuffice == RegSpec => []RegSizeSuffices
<1>1. RegSpec => []RegSizeInv
  BY RegSizeInit, RegSizeStep, PTL DEF RegSpec
<1>2. RegSizeInv => RegSizeSuffices
  BY DEF RegSizeInv
<1>3. QED
  BY <1>1, <1>2, PTL

-----------------------------------------------------------------------------
(* Amex: a store that the game reaches has its length. *)

(* So has the one that a thread is about to publish; what has the right length
   keeps it.                                                               *)
AmexSized ==
    /\ amexSize \in [AmexStores -> {"absent", "wrong", "right"}]
    /\ \A t \in AmexThreads :
          amexThread[t].at \in {"sized", "published"} =>
             amexSize[amexThread[t].device] = "right"
    /\ AmexStoresSized

(* It holds when no store is there. *)
LEMMA AmexSizedInit == AmexInit => AmexSized
  BY AmexDistinct DEF AmexInit, AmexSized, AmexStoresSized, AmexIdle, AmexDevices

(* Every step of the Amex devices keeps it. *)
LEMMA AmexSizedStep ==
  AmexIInv /\ AmexSized /\ [AmexNext]_amexVars => AmexSized'
<1> SUFFICES ASSUME AmexIInv, AmexSized, [AmexNext]_amexVars PROVE AmexSized'
  OBVIOUS
<1> USE DEF AmexIInv, AmexShape, AmexSized, AmexStoresSized
<1>1. ASSUME NEW t \in AmexThreads, NEW d \in AmexDevices,
             AmexOpenMemory(t, d) \/ AmexOpenStore(t, d)
      PROVE  AmexSized'
  BY <1>1 DEF AmexOpenMemory, AmexOpenStore
<1>2. ASSUME NEW t \in AmexThreads, AmexClear(t) PROVE AmexSized'
  BY <1>2 DEF AmexClear, AmexGoes
<1>3. ASSUME NEW t \in AmexThreads, AmexCreate(t) PROVE AmexSized'
  BY <1>3 DEF AmexCreate, AmexGoes, AmexIdle
<1>4. ASSUME NEW t \in AmexThreads, AmexResize(t) PROVE AmexSized'
  <2> DEFINE d == amexThread[t].device
  <2>1. /\ UNCHANGED amexFile /\ amexSize' = [amexSize EXCEPT ![d] = "right"]
        /\ amexThread' = [amexThread EXCEPT ![t].at = "sized", ![t].fd = amexThread[t].fd]
        /\ amexThread[t].at = "created"
    BY <1>4 DEF AmexResize, AmexGoes, AmexResized
  <2>2. d \in AmexStores
    BY <2>1 DEF AmexOpenings, AmexOpeningOK, AmexOpens
  <2>3. amexSize' \in [AmexStores -> {"absent", "wrong", "right"}] /\ amexSize'[d] = "right"
    BY <2>1, <2>2
  <2>4. \A e \in AmexStores : amexSize[e] = "right" => amexSize'[e] = "right"
    BY <2>1
  <2>5. amexThread'[t].device = d
        /\ \A u \in AmexThreads : u # t => amexThread'[u] = amexThread[u]
    BY <2>1
  <2>6. \A u \in AmexThreads : amexThread[u].at \in {"sized", "published"} =>
                                 amexThread[u].device \in AmexStores
    BY DEF AmexOpenings, AmexOpeningOK, AmexOpens
  <2>7. AmexStoresSized'
    BY <2>1, <2>4
  <2>8. \A u \in AmexThreads : amexThread'[u].at \in {"sized", "published"} =>
                                 amexSize'[amexThread'[u].device] = "right"
    BY <2>3, <2>4, <2>5, <2>6
  <2>9. QED
    BY <2>3, <2>7, <2>8
<1>5. ASSUME NEW t \in AmexThreads, AmexResizeFails(t) PROVE AmexSized'
  <2> DEFINE d == amexThread[t].device
  <2>1. /\ UNCHANGED amexFile /\ amexSize[d] # "right"
        /\ amexSize' = [amexSize EXCEPT ![d] = "wrong"]
        /\ amexThread' = [amexThread EXCEPT ![t] = AmexIdle]
    BY <1>5 DEF AmexResizeFails
  <2>2. \A e \in AmexStores : amexSize[e] = "right" => amexSize'[e] = "right"
    BY <2>1
  <2>3. amexSize' \in [AmexStores -> {"absent", "wrong", "right"}]
    BY <2>1
  <2>4. amexThread'[t] = AmexIdle
        /\ \A u \in AmexThreads : u # t => amexThread'[u] = amexThread[u]
    BY <2>1
  <2>5. \A u \in AmexThreads : amexThread[u].at \in {"sized", "published"} =>
                                 amexThread[u].device \in AmexStores
    BY DEF AmexOpenings, AmexOpeningOK, AmexOpens
  <2>6. \A u \in AmexThreads : amexThread'[u].at \in {"sized", "published"} =>
                                 amexSize'[amexThread'[u].device] = "right"
    BY <2>2, <2>4, <2>5 DEF AmexIdle
  <2>7. QED
    BY <2>1, <2>2, <2>3, <2>6
<1>6. ASSUME NEW t \in AmexThreads, AmexPublish(t) PROVE AmexSized'
  BY <1>6 DEF AmexPublish, AmexGoes
<1>7. ASSUME NEW t \in AmexThreads, AmexAnswer(t) PROVE AmexSized'
  BY <1>7 DEF AmexAnswer, AmexIdle
<1>8. ASSUME NEW t \in AmexThreads, AmexOpenOther(t) PROVE AmexSized'
  BY <1>8 DEF AmexOpenOther
<1>9. ASSUME NEW t \in AmexThreads, NEW fd \in amexGame, AmexClose(t, fd) PROVE AmexSized'
  <2>1. UNCHANGED amexSize /\ amexThread[t].at = "idle"
    BY <1>9 DEF AmexClose
  <2>2. \A e \in AmexDevices : amexFile'[e] = AmexNone \/ amexFile'[e] = amexFile[e]
    BY <1>9 DEF AmexClose, AmexForgotten
  <2>3. amexThread' = amexThread
        \/ amexThread' = [amexThread EXCEPT ![t] =
                            [at |-> "closing", device |-> AmexNone, fd |-> fd]]
    BY <1>9 DEF AmexClose
  <2>4. \A u \in AmexThreads : amexThread'[u].at \in {"sized", "published"} =>
                                 amexSize'[amexThread'[u].device] = "right"
    BY <2>1, <2>3
  <2>5. AmexStoresSized'
    BY <2>1, <2>2 DEF AmexDevices
  <2>6. QED
    BY <2>1, <2>4, <2>5
<1>10. ASSUME NEW t \in AmexThreads, AmexCloseHandle(t) PROVE AmexSized'
  BY <1>10 DEF AmexCloseHandle, AmexIdle
<1>11. ASSUME UNCHANGED <<amexFile, amexSize, amexThread>> PROVE AmexSized'
  BY <1>11
<1>12. ASSUME NEW t \in AmexThreads, AmexGetSwitches(t) PROVE AmexSized'
  <2>1. PICK at \in AmexPanelAt :
           amexThread' = [amexThread EXCEPT ![t].at = at, ![t].fd = amexThread[t].fd]
    BY <1>12, AmexLooks
  <2>2. UNCHANGED <<amexFile, amexSize>>
    BY <1>12, AmexLooks
  <2>3. QED
    BY <2>1, <2>2 DEF AmexPanelAt
<1>13. QED
  BY <1>1, <1>2, <1>3, <1>4, <1>5, <1>6, <1>7, <1>8, <1>9, <1>10, <1>11, <1>12
     DEF AmexNext, AmexPress, amexVars

(* nvram_open_file: a store is not published before its file has the length of
   the device, whichever opens overlap and whichever of them fail.         *)
THEOREM AmexKeepsSizes == AmexSpec => []AmexStoresSized
<1>1. AmexSized => AmexStoresSized
  BY DEF AmexSized
<1>2. QED
  BY <1>1, AmexSizedInit, AmexSizedStep, AmexInvariance, PTL DEF AmexSpec

-----------------------------------------------------------------------------
(* Network: the calls tell one story, and an event comes with its reply. *)

(* A fact is what the hooks are configured to tell, or a mask. *)
NetTruth(f) ==
    \/ f.field = "address" /\ f.value = netIface
    \/ f.field = "router" /\ f.value = netRouter
    \/ f.field = "mac" /\ f.value = "config mac"
    \/ f.field = "index" /\ f.value = "1"
    \/ f.field = "ping" /\ f.value = "1 ms"
    \/ f.field = "hops" /\ f.value = (IF netConfig.tracert THEN "1" ELSE "real")
    \/ f.field = "mask"

(* Nothing is told before the hooks are there; with the full table, nothing is
   told but that.                                                          *)
NetTrue ==
    /\ netHooks = {} => netFacts = {}
    /\ netHooks = {} \/ "full" \in netHooks => \A f \in netFacts : NetTruth(f)
    /\ "full" \in netHooks => "ws2" \in netHooks

(* A reply stays in the buffer from when it is written to when it is seen. *)
NetReplies ==
    \A t \in NetThreads :
       /\ netEvent[t] => netPing[t] = "pending"
       /\ netPing[t] \in {"filled", "pending"} => netReply[t]

(* The records of a thread, which NetTypeOK leaves open *)
NetShape ==
    /\ netPing \in [NetThreads -> {"idle", "filled", "pending"}]
    /\ netEvent \in [NetThreads -> BOOLEAN]
    /\ netReply \in [NetThreads -> BOOLEAN]

(* The inductive invariant of the network *)
NetIInv == NetTrue /\ NetReplies /\ NetShape

(* It holds when nothing is hooked yet. *)
LEMMA NetInitIInv == NetInit => NetIInv
  BY DEF NetInit, NetIInv, NetTrue, NetReplies, NetShape

(* The tables are applied: nothing has been told yet. *)
LEMMA NetHookInitHolds ==
  ASSUME NetTrue, NetHookInit
  PROVE  NetTrue'
  BY DEF NetTrue, NetHookInit, NetTruth

(* What each field may say *)
LEMMA NetFactsTrue ==
  ASSUME NEW by
  PROVE  /\ NetTruth(NetFact("address", netIface, by))
         /\ NetTruth(NetFact("router", netRouter, by))
         /\ NetTruth(NetFact("mac", "config mac", by))
         /\ NetTruth(NetFact("index", "1", by))
         /\ \A mask : NetTruth(NetFact("mask", mask, by))
  BY DEF NetFact, NetTruth

(* Facts are added that are what the hooks are configured to tell. *)
LEMMA NetTellsTruth ==
  ASSUME NetTrue, netHooks # {}, NEW Told,
         "full" \in netHooks => \A f \in Told : NetTruth(f),
         netFacts' = netFacts \cup Told,
         UNCHANGED <<netConfig, netHooks, netIface, netRouter>>
  PROVE  NetTrue'
<1>1. ASSUME NEW f, NetTruth(f) PROVE NetTruth(f)'
  BY <1>1 DEF NetTruth
<1>2. QED
  BY <1>1 DEF NetTrue

(* A call answers as configured, as the system does, or with the size that it
   needs.                                                                  *)
LEMMA NetCallHolds ==
  ASSUME NetTrue, NEW c \in NetCalls, NetCall(c)
  PROVE  NetTrue'
<1>1. UNCHANGED <<netConfig, netHooks, netIface, netRouter>> /\ netHooks # {}
  BY DEF NetCall, NetUnchanged
<1>2. CASE UNCHANGED netFacts
  BY <1>1, <1>2, NetTellsTruth, netFacts = netFacts \cup {}
<1>3. CASE netFacts' = netFacts \cup (IF NetHooked(c) THEN NetAnswer(c) ELSE NetReal(c))
  <2>1. ASSUME "full" \in netHooks
        PROVE  NetHooked(c) /\ \A f \in NetAnswer(c) : NetTruth(f)
    <3>1. NetHooked(c)
      BY <2>1 DEF NetHooked, NetTrue
    <3>2. \A f \in NetAdaptersAddresses(c) : NetTruth(f)
      BY NetFactsTrue DEF NetAdaptersAddresses
    <3>3. \A f \in NetAdaptersInfo(c) : NetTruth(f)
      BY NetFactsTrue DEF NetAdaptersInfo
    <3>4. \A f \in NetIfTable(c) : NetTruth(f)
      BY NetFactsTrue DEF NetIfTable
    <3>5. \A f \in NetRoute(c) : NetTruth(f)
      BY NetFactsTrue DEF NetRoute
    <3>6. \A f \in NetWSAIoctl(c) : NetTruth(f)
      BY NetFactsTrue DEF NetWSAIoctl
    <3>7. NetAnswer(c) \in {NetAdaptersAddresses(c), NetAdaptersInfo(c), NetIfTable(c),
                            NetRoute(c), NetWSAIoctl(c)}
      BY DEF NetCalls, NetAnswer
    <3>8. QED
      BY <3>1, <3>2, <3>3, <3>4, <3>5, <3>6, <3>7
  <2>2. QED
    BY <1>1, <1>3, <2>1, NetTellsTruth
<1>4. QED
  BY <1>2, <1>3 DEF NetCall

(* An echo without an event is answered on the spot. *)
LEMMA NetEchoHolds ==
  ASSUME NetTrue, NEW t \in NetThreads, NetEcho(t)
  PROVE  NetTrue'
<1> DEFINE f == NetFact("ping", "1 ms", "IcmpSendEcho")
<1>1. NetTruth(f)
  BY DEF NetFact, NetTruth
<1>2. QED
  BY <1>1, NetTellsTruth DEF NetEcho, NetUnchanged

(* A route has one hop, or as many as the system finds. *)
LEMMA NetTraceHolds ==
  ASSUME NetTrue, NetTrace
  PROVE  NetTrue'
<1> DEFINE f == NetFact("hops", IF netConfig.tracert THEN "1" ELSE "real",
                        "GetRTTAndHopCount")
<1>1. NetTruth(f)
  BY DEF NetFact, NetTruth
<1>2. QED
  BY <1>1, NetTellsTruth DEF NetTrace, NetUnchanged

(* The reply is written before the event is set, and the game resets both. *)
LEMMA NetPingHolds ==
  ASSUME NetReplies, NetShape, NEW t \in NetThreads,
         NetFill(t) \/ NetSetEvent(t) \/ NetPingSeen(t)
  PROVE  NetReplies' /\ NetShape'
  BY DEF NetReplies, NetShape, NetFill, NetSetEvent, NetPingSeen

(* Every step of the network keeps its invariant. *)
LEMMA NetStepHolds == NetIInv /\ [NetNext]_netVars => NetIInv'
<1> SUFFICES ASSUME NetIInv, [NetNext]_netVars PROVE NetIInv'
  OBVIOUS
<1>1. ASSUME UNCHANGED <<netConfig, netHooks, netIface, netRouter, netFacts>>
      PROVE  NetTrue'
  BY <1>1 DEF NetIInv, NetTrue, NetTruth
<1>2. ASSUME UNCHANGED <<netPing, netEvent, netReply>>
      PROVE  NetReplies' /\ NetShape'
  BY <1>2 DEF NetIInv, NetReplies, NetShape
<1>3. CASE NetHookInit
  BY <1>2, <1>3, NetHookInitHolds DEF NetIInv, NetHookInit
<1>4. ASSUME NEW c \in NetCalls, NetCall(c) PROVE NetIInv'
  BY <1>2, <1>4, NetCallHolds DEF NetIInv, NetCall, NetUnchanged
<1>5. CASE NetTrace
  BY <1>2, <1>5, NetTraceHolds DEF NetIInv, NetTrace, NetUnchanged
<1>6. ASSUME NEW t \in NetThreads, NetEcho(t) PROVE NetIInv'
  BY <1>2, <1>6, NetEchoHolds DEF NetIInv, NetEcho, NetUnchanged
<1>7. ASSUME NEW t \in NetThreads, NetFill(t) \/ NetSetEvent(t) \/ NetPingSeen(t)
      PROVE  NetIInv'
  BY <1>1, <1>7, NetPingHolds DEF NetIInv, NetFill, NetSetEvent, NetPingSeen
<1>8. CASE UNCHANGED netVars
  BY <1>1, <1>2, <1>8 DEF NetIInv, netVars
<1>9. QED
  BY <1>3, <1>4, <1>5, <1>6, <1>7, <1>8 DEF NetNext

(* platform/netenv.c: what the calls tell is what was configured, and a ping
   has its reply from the time it is sent.                                 *)
THEOREM NetInvariance == NetSpec => []NetIInv
  BY NetInitIInv, NetStepHolds, PTL DEF NetSpec

(* platform/netenv.c: whichever of its calls a game makes, and in whichever
   order, with the full table it hears of one network.                     *)
THEOREM NetTellsOneStory == NetSpec => []NetOneStory
<1>1. NetIInv => NetOneStory
  BY DEF NetIInv, NetTrue, NetTruth, NetOneStory
<1>2. QED
  BY <1>1, NetInvariance, PTL

(* hook_IcmpSendEcho2: an event comes after its reply. *)
THEOREM NetRepliesFirst == NetSpec => []NetReplyWhole
<1>1. NetIInv => NetReplyWhole
  BY DEF NetIInv, NetReplies, NetReplyWhole
<1>2. QED
  BY <1>1, NetInvariance, PTL

-----------------------------------------------------------------------------
(* Names: a name that a hook leads elsewhere does not get to the resolver. *)

(* A name that may leave the machine: one that no hook knows, or one of its
   hosts                                                                   *)
DnsSafe(n) == n = "other" \/ \E h \in DOMAIN DnsHosts : n = DnsHosts[h]

(* The table is empty or whole, and what a thread has put into its request for
   the time of a call is a name that may be asked for.                     *)
DnsIInv ==
    /\ dnsTable = <<>> \/ dnsTable = DnsPlatform
    /\ dnsCall \in [DnsThreads -> DnsNames \cup {"none"}]
    /\ DOMAIN dnsRequest = DnsThreads
    /\ \A t \in DnsThreads : dnsCall[t] # "none" => DnsSafe(dnsRequest[t])
    /\ DnsNeverLeaves

(* It holds when no name has been asked for. *)
LEMMA DnsInitIInv == DnsInit => DnsIInv
  BY DEF DnsInit, DnsIInv, DnsNeverLeaves

(* With the table in place, every name is a host's, none, or left alone. *)
LEMMA DnsResolvesSafe ==
  ASSUME DnsIInv, DOMAIN dnsTable # {}, NEW n \in DnsNames
  PROVE  DnsResolve(n) = "none" \/ DnsSafe(DnsResolve(n))
<1>1. dnsTable = DnsPlatform
  BY DEF DnsIInv
<1>2. CASE n = "other"
  BY <1>1, <1>2 DEF DnsResolve, DnsPlatform, DnsSafe
<1>3. CASE n # "other"
  <2>1. n \in DOMAIN dnsTable /\ dnsTable[n] = DnsPlatform[n]
    BY <1>1, <1>3 DEF DnsPlatform
  <2>2. DnsPlatform[n] = "none" \/ \E h \in DOMAIN DnsHosts : DnsPlatform[n] = DnsHosts[h]
    BY <1>3, DnsHostsAssumption DEF DnsPlatform, DnsNames, DnsRouters, DnsDead
  <2>3. QED
    BY <2>1, <2>2 DEF DnsResolve, DnsSafe
<1>4. QED
  BY <1>2, <1>3

(* The calls that ask at once keep it. *)
LEMMA DnsAskHolds ==
  ASSUME DnsIInv, DOMAIN dnsTable # {}, NEW n \in DnsNames, DnsAsk(n),
         UNCHANGED <<dnsTable, dnsRequest, dnsCall>>
  PROVE  DnsIInv'
<1>1. DnsNeverLeaves'
  BY DnsResolvesSafe DEF DnsIInv, DnsNeverLeaves, DnsAsk, DnsSafe
<1>2. QED
  BY <1>1 DEF DnsIInv, DnsSafe

(* So does DnsQueryEx, which puts the other name into the request, *)
LEMMA DnsQueryExHolds ==
  ASSUME DnsIInv, NEW t \in DnsThreads, NEW n \in DnsNames, DnsQueryEx(t, n)
  PROVE  DnsIInv'
<1>1. /\ UNCHANGED <<dnsTable, dnsAsked>>
      /\ dnsCall' = [dnsCall EXCEPT ![t] = n]
      /\ dnsRequest' = [dnsRequest EXCEPT ![t] = DnsResolve(n)]
      /\ DnsSafe(DnsResolve(n))
  BY DnsResolvesSafe DEF DnsQueryEx
<1>2. \A u \in DnsThreads : dnsCall'[u] # "none" => DnsSafe(dnsRequest'[u])
  BY <1>1 DEF DnsIInv
<1>3. QED
  BY <1>1, <1>2 DEF DnsIInv, DnsNeverLeaves, DnsSafe

(* and the end of it, which puts the first one back. *)
LEMMA DnsQueryExDoneHolds ==
  ASSUME DnsIInv, NEW t \in DnsThreads, DnsQueryExDone(t)
  PROVE  DnsIInv'
<1>1. UNCHANGED dnsTable /\ DnsSafe(dnsRequest[t])
  BY DEF DnsQueryExDone, DnsIInv
<1>2. DnsNeverLeaves'
  BY <1>1 DEF DnsQueryExDone, DnsIInv, DnsNeverLeaves, DnsSafe
<1>3. \A u \in DnsThreads : dnsCall'[u] # "none" => DnsSafe(dnsRequest'[u])
  BY DEF DnsQueryExDone, DnsIInv
<1>4. QED
  BY <1>1, <1>2, <1>3 DEF DnsQueryExDone, DnsIInv, DnsSafe

(* Every step of the names keeps it. *)
LEMMA DnsStepHolds == DnsIInv /\ [DnsNext]_dnsVars => DnsIInv'
<1> SUFFICES ASSUME DnsIInv, [DnsNext]_dnsVars PROVE DnsIInv'
  OBVIOUS
<1>1. CASE DnsHookPush
  BY <1>1 DEF DnsHookPush, DnsIInv, DnsNeverLeaves, DnsSafe
<1>2. ASSUME NEW t \in DnsThreads, NEW n \in DnsNames,
             DnsQuery(t, n) \/ DnsGetAddrInfo(t, n)
      PROVE  DnsIInv'
  BY <1>2, DnsAskHolds DEF DnsQuery, DnsGetAddrInfo
<1>3. ASSUME NEW t \in DnsThreads, NEW n \in DnsNames, DnsQueryEx(t, n) PROVE DnsIInv'
  BY <1>3, DnsQueryExHolds
<1>4. ASSUME NEW t \in DnsThreads, DnsQueryExDone(t) PROVE DnsIInv'
  BY <1>4, DnsQueryExDoneHolds
<1>5. CASE UNCHANGED dnsVars
  BY <1>5 DEF dnsVars, DnsIInv, DnsNeverLeaves, DnsSafe
<1>6. QED
  BY <1>1, <1>2, <1>3, <1>4, <1>5 DEF DnsNext

(* hooklib/dns.c with the table of platform/dns.c: however many threads ask, and
   through whichever call, none of the vendors' names leaves the machine.  *)
THEOREM DnsKeepsNames == DnsSpec => []DnsNeverLeaves
<1>1. DnsSpec => []DnsIInv
  BY DnsInitIInv, DnsStepHolds, PTL DEF DnsSpec
<1>2. DnsIInv => DnsNeverLeaves
  BY DEF DnsIInv
<1>3. QED
  BY <1>1, <1>2, PTL

-----------------------------------------------------------------------------
(* Paths: the directories are made, and a file is found by each of its names. *)

(* The directory that is made as the i-th, and its first n names *)
VfsPath(i) == VfsDirs[VfsOrder[i]]
VfsPrefix(i, n) == SubSeq(VfsPath(i), 1, n)

(* A process that will still look for the first n names of a directory: one
   that is on its way to them, or stands before an earlier name of it that is
   not there yet.                                                          *)
VfsWillMake(p, i, n) ==
    \/ vfsAt[p].dir < i
    \/ /\ vfsAt[p].dir = i /\ vfsAt[p].name <= n
       /\ vfsAt[p].step = "check" \/ VfsPrefix(i, vfsAt[p].name) \notin vfsDisk

(* A process is at a name of one of the three directories, or behind them. *)
VfsAtTyped ==
    /\ vfsAt \in [PathProcs ->
                    [dir : 1 .. 4, name : Nat, step : {"check", "create", "push", "done"}]]
    /\ \A p \in PathProcs :
          IF vfsAt[p].step \in {"check", "create"}
          THEN vfsAt[p].dir \in 1 .. 3 /\ vfsAt[p].name \in 1 .. Len(VfsPath(vfsAt[p].dir))
          ELSE vfsAt[p].dir = 4

(* A process that has been at the first name of a directory *)
VfsPassed(p, i) == vfsAt[p].dir > i \/ (vfsAt[p].dir = i /\ vfsAt[p].name > 1)

(* The inductive invariant of the directories: what nobody will make is
   there.                                                                  *)
VfsIInv ==
    /\ VfsAtTyped
    /\ \A p \in PathProcs, i \in 1 .. 3 : VfsPassed(p, i) => VfsPrefix(i, 1) \in vfsDisk
    /\ \A i \in 1 .. 3 : \A n \in 1 .. Len(VfsPath(i)) :
          VfsPrefix(i, n) \in vfsDisk \/ \E p \in PathProcs : VfsWillMake(p, i, n)

(* Two directories share at most their first name. *)
LEMMA VfsPathsApart ==
  /\ \A i \in 1 .. 3 : VfsPath(i) \in Seq(STRING) /\ Len(VfsPath(i)) \in Nat \ {0}
  /\ \A i, j \in 1 .. 3 : \A n \in 1 .. Len(VfsPath(i)), m \in 1 .. Len(VfsPath(j)) :
        VfsPrefix(i, n) = VfsPrefix(j, m) => n = m /\ (i # j => n = 1)
  /\ \A i \in 1 .. 3 : VfsPrefix(i, Len(VfsPath(i))) = VfsPath(i)
<1>1. /\ \A i \in 1 .. 3 : VfsOrder[i] \in DOMAIN VfsDirs
      /\ \A i, j \in 1 .. 3 : i # j => VfsOrder[i] # VfsOrder[j]
  BY VfsDirsAssumption DEF VfsOrder
<1>2. \A i \in 1 .. 3 : VfsPath(i) \in Seq(STRING) /\ Len(VfsPath(i)) \in Nat \ {0}
  BY <1>1, VfsDirsAssumption DEF VfsPath
<1>3. ASSUME NEW i \in 1 .. 3, NEW n \in 1 .. Len(VfsPath(i)) PROVE Len(VfsPrefix(i, n)) = n
  BY <1>2 DEF VfsPrefix
<1>4. ASSUME NEW i \in 1 .. 3, NEW j \in 1 .. 3, i # j,
             NEW n \in 1 .. Len(VfsPath(i)), n \in 1 .. Len(VfsPath(j)),
             VfsPrefix(i, n) = VfsPrefix(j, n)
      PROVE  n = 1
  <2>1. n <= Len(VfsPath(j))
    BY <1>2, <1>4
  <2>2. QED
    BY <1>1, <1>4, <2>1, VfsDirsAssumption DEF VfsPath, VfsPrefix
<1>5. ASSUME NEW i \in 1 .. 3 PROVE VfsPrefix(i, Len(VfsPath(i))) = VfsPath(i)
  <2>1. VfsPath(i) \in Seq(STRING)
    BY <1>2
  <2>2. \A s \in Seq(STRING) : SubSeq(s, 1, Len(s)) = s
    OBVIOUS
  <2>3. QED
    BY <2>1, <2>2 DEF VfsPrefix
<1>6. ASSUME NEW i \in 1 .. 3, NEW j \in 1 .. 3, NEW n \in 1 .. Len(VfsPath(i)),
             NEW m \in 1 .. Len(VfsPath(j)), VfsPrefix(i, n) = VfsPrefix(j, m)
      PROVE  n = m /\ (i # j => n = 1)
  <2>1. n = m
    BY <1>3, <1>6
  <2>2. QED
    BY <1>4, <1>6, <2>1
<1>7. QED
  BY <1>2, <1>5, <1>6

(* It holds when no process has started. *)
LEMMA VfsInitIInv == PathInit => VfsIInv
<1> SUFFICES ASSUME PathInit PROVE VfsIInv
  OBVIOUS
<1>1. \A p \in PathProcs : vfsAt[p] = VfsBegin
  BY DEF PathInit
<1>2. VfsAtTyped
  BY VfsPathsApart DEF PathInit, VfsAtTyped, VfsBegin
<1>3. \A p \in PathProcs, i \in 1 .. 3 : ~VfsPassed(p, i)
  BY <1>1 DEF VfsPassed, VfsBegin
<1>4. ASSUME NEW p \in PathProcs, NEW i \in 1 .. 3, NEW n \in 1 .. Len(VfsPath(i))
      PROVE  VfsWillMake(p, i, n)
  BY <1>1, <1>4 DEF VfsWillMake, VfsBegin
<1>5. PICK p : p \in PathProcs
  BY PathProcsAssumption
<1>6. QED
  BY <1>2, <1>3, <1>4, <1>5 DEF VfsIInv

(* What a process has after a name *)
LEMMA VfsAfterIs ==
  ASSUME VfsAtTyped, NEW p \in PathProcs, vfsAt[p].step \in {"check", "create"},
         NEW ok \in BOOLEAN
  PROVE  LET at == vfsAt[p]
             to == VfsAfter(at, ok)
         IN  /\ to \in [dir : 1 .. 4, name : Nat, step : {"check", "create", "push", "done"}]
             /\ to.step = "check" \/ (at.dir = 3 /\ to.step = "push")
             /\ IF ok /\ at.name < Len(VfsPath(at.dir))
                THEN to.dir = at.dir /\ to.name = at.name + 1 /\ to.step = "check"
                ELSE /\ to.dir = at.dir + 1 /\ to.name = 1
                     /\ at.dir # 3 => to.step = "check"
                     /\ at.dir = 3 => to.step = "push"
<1> DEFINE at == vfsAt[p]
<1>1. /\ at \in [dir : 1 .. 4, name : Nat, step : {"check", "create", "push", "done"}]
      /\ at.dir \in 1 .. 3 /\ at.name \in 1 .. Len(VfsPath(at.dir))
  BY DEF VfsAtTyped
<1>2. CASE ok /\ at.name < Len(VfsPath(at.dir))
  <2>1. VfsAfter(at, ok) = [at EXCEPT !.name = at.name + 1, !.step = "check"]
    BY <1>2 DEF VfsAfter, VfsPath
  <2>2. at.name \in Nat /\ at.name + 1 \in Nat
    BY <1>1, VfsPathsApart
  <2>3. VfsAfter(at, ok) = [dir |-> at.dir, name |-> at.name + 1, step |-> "check"]
    BY <1>1, <2>1
  <2>4. /\ VfsAfter(at, ok).dir = at.dir /\ VfsAfter(at, ok).name = at.name + 1
        /\ VfsAfter(at, ok).step = "check"
    BY <2>3
  <2>5. VfsAfter(at, ok) \in [dir : 1 .. 4, name : Nat,
                               step : {"check", "create", "push", "done"}]
    BY <1>1, <2>2, <2>3
  <2>6. QED
    BY <1>2, <2>4, <2>5
<1>3. CASE ~(ok /\ at.name < Len(VfsPath(at.dir)))
  <2>1. VfsAfter(at, ok) = [dir |-> at.dir + 1, name |-> 1,
                            step |-> IF at.dir = 3 THEN "push" ELSE "check"]
    BY <1>3 DEF VfsAfter, VfsPath
  <2>2. CASE at.dir = 3
    BY <1>1, <1>3, <2>1, <2>2
  <2>3. CASE at.dir # 3
    BY <1>1, <1>3, <2>1, <2>3
  <2>4. QED
    BY <2>2, <2>3
<1>4. QED
  BY <1>2, <1>3

(* A process goes on after a name: the name is there now, or was there before
   it could make it.                                                       *)
LEMMA VfsGoesOn ==
  ASSUME VfsIInv, NEW p \in PathProcs, vfsAt[p].step \in {"check", "create"},
         NEW ok \in BOOLEAN,
         vfsDisk' = vfsDisk \cup {VfsPrefix(vfsAt[p].dir, vfsAt[p].name)},
         vfsAt' = [vfsAt EXCEPT ![p] = VfsAfter(vfsAt[p], ok)],
         ok \/ (vfsAt[p].step = "create" /\ VfsPrefix(vfsAt[p].dir, vfsAt[p].name) \in vfsDisk)
  PROVE  VfsIInv'
<1> DEFINE j == vfsAt[p].dir
           m == vfsAt[p].name
           to == VfsAfter(vfsAt[p], ok)
<1>1. VfsAtTyped /\ j \in 1 .. 3 /\ m \in 1 .. Len(VfsPath(j)) /\ m \in Nat
      /\ Len(VfsPath(j)) \in Nat
  BY VfsPathsApart DEF VfsIInv, VfsAtTyped
<1>2. /\ to \in [dir : 1 .. 4, name : Nat, step : {"check", "create", "push", "done"}]
      /\ to.step = "check" \/ (j = 3 /\ to.step = "push")
      /\ IF ok /\ m < Len(VfsPath(j))
         THEN to.dir = j /\ to.name = m + 1 /\ to.step = "check"
         ELSE /\ to.dir = j + 1 /\ to.name = 1
              /\ j # 3 => to.step = "check"
              /\ j = 3 => to.step = "push"
  BY <1>1, VfsAfterIs
<1> HIDE DEF to
<1>3. /\ vfsAt' = [vfsAt EXCEPT ![p] = to]
      /\ vfsAt'[p] = to /\ \A q \in PathProcs : q # p => vfsAt'[q] = vfsAt[q]
  BY <1>1 DEF to, VfsAtTyped
<1>4. VfsAtTyped'
  <2>1. vfsAt' \in [PathProcs -> [dir : 1 .. 4, name : Nat,
                                  step : {"check", "create", "push", "done"}]]
    BY <1>1, <1>2, <1>3 DEF VfsAtTyped
  <2>2. IF to.step \in {"check", "create"}
        THEN to.dir \in 1 .. 3 /\ to.name \in 1 .. Len(VfsPath(to.dir))
        ELSE to.dir = 4
    BY <1>1, <1>2, VfsPathsApart
  <2>3. QED
    BY <1>1, <1>3, <2>1, <2>2 DEF VfsAtTyped
<1>5. ASSUME NEW q \in PathProcs, NEW i \in 1 .. 3, VfsPassed(q, i)'
      PROVE  VfsPrefix(i, 1) \in vfsDisk'
  <2>1. CASE q # p
    BY <1>3, <1>5, <2>1 DEF VfsPassed, VfsIInv
  <2>2. CASE q = p
    <3>1. VfsPassed(p, i) \/ (i = j /\ m = 1)
      BY <1>1, <1>2, <1>3, <1>5, <2>2 DEF VfsPassed
    <3>2. QED
      BY <3>1 DEF VfsIInv
  <2>3. QED
    BY <2>1, <2>2
<1>6. ASSUME NEW i \in 1 .. 3, NEW n \in 1 .. Len(VfsPath(i)), VfsPrefix(i, n) \notin vfsDisk'
      PROVE  \E q \in PathProcs : VfsWillMake(q, i, n)'
  <2>1. n \in Nat /\ n >= 1 /\ Len(VfsPath(i)) \in Nat
    BY VfsPathsApart
  <2>2. j < i => VfsWillMake(p, i, n)'
    <3> HAVE j < i
    <3>1. j # 3 /\ to.step = "check" /\ (to.dir < i \/ (to.dir = i /\ to.name = 1))
      BY <1>1, <1>2
    <3>2. QED
      BY <1>3, <2>1, <3>1 DEF VfsWillMake
  <2>3. j = i /\ m < n /\ ok => VfsWillMake(p, i, n)'
    <3> HAVE j = i /\ m < n /\ ok
    <3>1. to.dir = i /\ to.name = m + 1 /\ to.step = "check"
      BY <1>1, <1>2, <2>1
    <3>2. to.name <= n
      BY <1>1, <2>1, <3>1
    <3>3. vfsAt'[p] = to
      BY <1>3
    <3>4. vfsAt'[p].dir = i /\ vfsAt'[p].name <= n /\ vfsAt'[p].step = "check"
      BY <3>1, <3>2, <3>3
    <3>5. QED
      BY <3>4 DEF VfsWillMake
  <2>4. PICK q \in PathProcs : VfsWillMake(q, i, n)
    BY <1>6 DEF VfsIInv
  <2>5. ~(j = i /\ m = n)
    BY <1>6
  <2>6. CASE q = p
    <3>1. j < i \/ (j = i /\ m <= n /\ (vfsAt[p].step = "check" \/ VfsPrefix(j, m) \notin vfsDisk))
      BY <2>4, <2>6 DEF VfsWillMake
    <3>2. j < i \/ (j = i /\ m < n /\ ok)
      BY <1>1, <2>1, <2>5, <3>1
    <3>3. QED
      BY <2>2, <2>3, <3>2
  <2>7. CASE q # p
    <3> DEFINE k == vfsAt[q].name
    <3>1. CASE vfsAt[q].dir < i \/ vfsAt[q].step = "check" \/ VfsPrefix(i, k) \notin vfsDisk'
      BY <1>3, <2>4, <2>7, <3>1 DEF VfsWillMake
    <3>2. CASE /\ vfsAt[q].dir = i /\ k <= n /\ VfsPrefix(i, k) \notin vfsDisk
               /\ VfsPrefix(i, k) \in vfsDisk' /\ vfsAt[q].step # "check"
      <4>1. VfsPrefix(i, k) = VfsPrefix(j, m) /\ VfsPrefix(j, m) \notin vfsDisk /\ ok
        BY <3>2
      <4>2. k \in 1 .. Len(VfsPath(i))
        BY <1>1, <3>2 DEF VfsAtTyped
      <4>3. k = m /\ (i # j => k = 1)
        BY <1>1, <4>1, <4>2, VfsPathsApart
      <4>4. CASE j < i
        BY <2>2, <4>4
      <4>5. CASE j = i
        BY <1>1, <2>1, <2>3, <2>5, <3>2, <4>1, <4>3, <4>5
      <4>6. CASE j > i
        <5>1. VfsPrefix(i, 1) \in vfsDisk
          BY <4>6 DEF VfsPassed, VfsIInv
        <5>2. QED
          BY <3>2, <4>3, <4>6, <5>1
      <4>7. QED
        BY <1>1, <4>4, <4>5, <4>6
    <3>3. QED
      BY <2>4, <3>1, <3>2 DEF VfsWillMake
  <2>8. QED
    BY <2>6, <2>7
<1>7. QED
  BY <1>4, <1>5, <1>6 DEF VfsIInv

(* Every step of a process towards its directories keeps it. *)
LEMMA VfsStepHolds ==
  ASSUME VfsIInv, NEW p \in PathProcs, VfsCheck(p) \/ VfsCreate(p) \/ VfsPush(p) \/ VfsKill(p)
  PROVE  VfsIInv'
<1> DEFINE j == vfsAt[p].dir
           m == vfsAt[p].name
           dir == VfsPrefix(j, m)
<1>1. /\ vfsAt \in [PathProcs -> [dir : 1 .. 4, name : Nat,
                                  step : {"check", "create", "push", "done"}]]
      /\ VfsAtTyped
  BY DEF VfsIInv, VfsAtTyped
<1>2. CASE VfsCheck(p) /\ dir \in vfsDisk
  <2>1. /\ vfsAt[p].step = "check" /\ vfsDisk' = vfsDisk
        /\ vfsAt' = [vfsAt EXCEPT ![p] = VfsAfter(vfsAt[p], TRUE)]
    BY <1>2 DEF VfsCheck, VfsPrefix, VfsPath
  <2>2. vfsDisk' = vfsDisk \cup {dir}
    BY <1>2, <2>1
  <2>3. QED
    BY <2>1, <2>2, VfsGoesOn
<1>3. CASE VfsCheck(p) /\ dir \notin vfsDisk
  <2> DEFINE to == [vfsAt[p] EXCEPT !.step = "create"]
  <2>1. /\ vfsAt[p].step = "check" /\ vfsDisk' = vfsDisk
        /\ vfsAt' = [vfsAt EXCEPT ![p] = to]
    BY <1>3 DEF VfsCheck, VfsPrefix, VfsPath
  <2>2. /\ to \in [dir : 1 .. 4, name : Nat, step : {"check", "create", "push", "done"}]
        /\ to.dir = j /\ to.name = m /\ to.step = "create"
    BY <1>1
  <2> HIDE DEF to
  <2>3. vfsAt'[p] = to /\ \A q \in PathProcs : q # p => vfsAt'[q] = vfsAt[q]
    BY <1>1, <2>1
  <2>4. VfsAtTyped'
    BY <1>1, <2>1, <2>2, <2>3 DEF VfsAtTyped
  <2>5. ASSUME NEW q \in PathProcs, NEW i \in 1 .. 3
        PROVE  VfsPassed(q, i)' <=> VfsPassed(q, i)
    BY <2>2, <2>3 DEF VfsPassed
  <2>6. ASSUME NEW q \in PathProcs, NEW i \in 1 .. 3, NEW n \in 1 .. Len(VfsPath(i)),
               VfsWillMake(q, i, n)
        PROVE  VfsWillMake(q, i, n)'
    BY <1>3, <2>1, <2>2, <2>3, <2>6 DEF VfsWillMake
  <2>7. QED
    BY <2>1, <2>4, <2>5, <2>6 DEF VfsIInv
<1>4. CASE VfsCreate(p)
  <2> DEFINE ok == dir \notin vfsDisk
  <2>1. /\ vfsAt[p].step = "create" /\ vfsDisk' = vfsDisk \cup {dir}
        /\ vfsAt' = [vfsAt EXCEPT ![p] = VfsAfter(vfsAt[p], ok)]
    BY <1>4 DEF VfsCreate, VfsPrefix, VfsPath
  <2>2. ok \in BOOLEAN /\ (ok \/ dir \in vfsDisk)
    OBVIOUS
  <2> HIDE DEF ok
  <2>3. QED
    BY <2>1, <2>2, VfsGoesOn
<1>5. CASE VfsPush(p)
  <2>1. vfsAt[p].step = "push" /\ vfsDisk' = vfsDisk /\ vfsAt' = [vfsAt EXCEPT ![p] = VfsDone]
    BY <1>5 DEF VfsPush
  <2>2. /\ VfsDone \in [dir : 1 .. 4, name : Nat, step : {"check", "create", "push", "done"}]
        /\ VfsDone.dir = 4 /\ VfsDone.step = "done" /\ VfsDone.name = 1
    BY DEF VfsDone
  <2>3. vfsAt'[p] = VfsDone /\ \A q \in PathProcs : q # p => vfsAt'[q] = vfsAt[q]
    BY <1>1, <2>1
  <2>4. vfsAt[p].dir = 4
    BY <1>1, <2>1 DEF VfsAtTyped
  <2>5. VfsAtTyped'
    BY <1>1, <2>1, <2>2, <2>3 DEF VfsAtTyped
  <2>6. ASSUME NEW q \in PathProcs, NEW i \in 1 .. 3
        PROVE  VfsPassed(q, i)' => VfsPassed(q, i)
    BY <2>2, <2>3, <2>4 DEF VfsPassed
  <2>7. ASSUME NEW q \in PathProcs, NEW i \in 1 .. 3, NEW n \in 1 .. Len(VfsPath(i)),
               VfsWillMake(q, i, n)
        PROVE  VfsWillMake(q, i, n)'
    BY <2>1, <2>3, <2>4, <2>7 DEF VfsWillMake
  <2>8. QED
    BY <2>1, <2>5, <2>6, <2>7 DEF VfsIInv
<1>6. CASE VfsKill(p)
  <2>1. vfsDisk' = vfsDisk /\ vfsAt' = [vfsAt EXCEPT ![p] = VfsBegin]
    BY <1>6 DEF VfsKill
  <2>2. /\ VfsBegin \in [dir : 1 .. 4, name : Nat, step : {"check", "create", "push", "done"}]
        /\ VfsBegin.dir = 1 /\ VfsBegin.step = "check" /\ VfsBegin.name = 1
    BY DEF VfsBegin
  <2>3. vfsAt'[p] = VfsBegin /\ \A q \in PathProcs : q # p => vfsAt'[q] = vfsAt[q]
    BY <1>1, <2>1
  <2>4. 1 \in 1 .. Len(VfsPath(1))
    BY VfsPathsApart
  <2>5. VfsAtTyped'
    BY <1>1, <2>1, <2>2, <2>3, <2>4 DEF VfsAtTyped
  <2>6. ASSUME NEW q \in PathProcs, NEW i \in 1 .. 3
        PROVE  VfsPassed(q, i)' => VfsPassed(q, i)
    BY <2>2, <2>3 DEF VfsPassed
  <2>7. ASSUME NEW i \in 1 .. 3, NEW n \in 1 .. Len(VfsPath(i))
        PROVE  VfsWillMake(p, i, n)'
    BY <2>2, <2>3 DEF VfsWillMake
  <2>8. QED
    BY <2>1, <2>5, <2>6, <2>7 DEF VfsIInv
<1>7. QED
  BY <1>2, <1>3, <1>4, <1>5, <1>6

(* Once every process is done, none is left to make a name. *)
LEMMA VfsIInvWhole == VfsIInv => VfsDirsWhole
<1> SUFFICES ASSUME VfsIInv, \A p \in PathProcs : vfsAt[p] = VfsDone, NEW d \in DOMAIN VfsDirs
             PROVE  VfsDirs[d] \in vfsDisk
  BY DEF VfsDirsWhole
<1>1. PICK i \in 1 .. 3 : d = VfsOrder[i]
  BY VfsDirsAssumption DEF VfsOrder
<1> DEFINE n == Len(VfsPath(i))
<1>2. n \in 1 .. Len(VfsPath(i)) /\ VfsPrefix(i, n) = VfsDirs[d]
  BY <1>1, VfsPathsApart DEF VfsPath
<1>3. \A p \in PathProcs : ~VfsWillMake(p, i, n)
  BY DEF VfsWillMake, VfsDone
<1>4. QED
  BY <1>2, <1>3 DEF VfsIInv

-----------------------------------------------------------------------------
(* The hooks that a process that has started has *)
PathHookList ==
    <<"drives", "nthome", "modern">> \o (IF vfsOption THEN <<"option">> ELSE <<>>)

PathHookNames == {"drives", "nthome", "modern", "option"}

(* A path that one of them knows, and its place *)
PathKnown(src) ==
    \/ VfsPathHook(src) \/ VfsPathHookNthome(src) \/ VfsPathHookModern(src)
    \/ vfsOption /\ VfsPathHookOption(src)

(* Where the file of a path is *)
PathPlace(src) ==
    IF PathKnown(src)
    THEN [root |-> VfsTarget(VfsFold(src.head)),
          tail |-> IF src.end = "end" THEN <<>> ELSE <<src.tail>>]
    ELSE [root |-> PathOnDisk(src.head),
          tail |-> <<src.end, IF src.end = "end" THEN {} ELSE {src.tail}>>]

(* The hooks by their place in the list *)
LEMMA PathHookListIs ==
  /\ PathHookList \in Seq(PathHookNames)
  /\ PathHookList[1] = "drives" /\ PathHookList[2] = "nthome" /\ PathHookList[3] = "modern"
  /\ IF vfsOption THEN DOMAIN PathHookList = 1 .. 4 /\ PathHookList[4] = "option"
     ELSE DOMAIN PathHookList = 1 .. 3
<1> DEFINE s == <<"drives", "nthome", "modern">>
           o == <<"option">>
           n == <<>>
<1>1. /\ s \in Seq(PathHookNames) /\ Len(s) = 3
      /\ s[1] = "drives" /\ s[2] = "nthome" /\ s[3] = "modern"
  BY DEF PathHookNames
<1>2. o \in Seq(PathHookNames) /\ Len(o) = 1 /\ o[1] = "option"
  BY DEF PathHookNames
<1>3. n \in Seq(PathHookNames) /\ Len(n) = 0
  OBVIOUS
<1>4. PathHookList = IF vfsOption THEN s \o o ELSE s \o n
  BY DEF PathHookList
<1> HIDE DEF s, o, n
<1>5. /\ s \o o \in Seq(PathHookNames) /\ Len(s \o o) = 4
      /\ (s \o o)[1] = "drives" /\ (s \o o)[2] = "nthome" /\ (s \o o)[3] = "modern"
      /\ (s \o o)[4] = "option"
  <2>1. ASSUME NEW a \in Seq(PathHookNames), NEW b \in Seq(PathHookNames), Len(a) = 3, Len(b) = 1
        PROVE  /\ a \o b \in Seq(PathHookNames) /\ Len(a \o b) = 4
               /\ (a \o b)[1] = a[1] /\ (a \o b)[2] = a[2] /\ (a \o b)[3] = a[3]
               /\ (a \o b)[4] = b[1]
    <3>1. Len(a) + Len(b) = 4
      BY <2>1
    <3>2. a \o b \in Seq(PathHookNames) /\ Len(a \o b) = 4
      BY <3>1, ConcatProperties
    <3> DEFINE c == a \o b
    <3>3. \A k \in 1 .. Len(a) + Len(b) : c[k] = IF k <= Len(a) THEN a[k] ELSE b[k - Len(a)]
      BY ConcatProperties
    <3> HIDE DEF c
    <3>4. \A k \in 1 .. 4 : c[k] = IF k <= 3 THEN a[k] ELSE b[k - 3]
      BY <2>1, <3>3, <3>1
    <3>5. 1 \in 1 .. 4 /\ 2 \in 1 .. 4 /\ 3 \in 1 .. 4 /\ 4 \in 1 .. 4 /\ 4 - 3 = 1
      OBVIOUS
    <3>6. c[1] = a[1] /\ c[2] = a[2] /\ c[3] = a[3] /\ c[4] = b[1]
      BY <3>4, <3>5
    <3>7. QED
      BY <3>2, <3>6 DEF c
  <2>2. QED
    BY <1>1, <1>2, <2>1
<1>6. /\ s \o n \in Seq(PathHookNames) /\ Len(s \o n) = 3
      /\ (s \o n)[1] = "drives" /\ (s \o n)[2] = "nthome" /\ (s \o n)[3] = "modern"
  BY <1>1, <1>3
<1>7. QED
  BY <1>4, <1>5, <1>6

(* A process with all its hooks finds a path in its place. *)
LEMMA PathTransformIs ==
  ASSUME NEW p \in PathProcs, pathHooks[p] = PathHookList, NEW src \in Paths
  PROVE  PathTransform(p, src) = PathPlace(src)
<1> DEFINE l == PathHookList
<1>1. CASE vfsOption
  <2>1. /\ DOMAIN l = 1 .. 4
        /\ l[1] = "drives" /\ l[2] = "nthome" /\ l[3] = "modern" /\ l[4] = "option"
    BY <1>1, PathHookListIs
  <2>2. (\E i \in DOMAIN l : PathMatches(l[i], src)) <=> PathKnown(src)
    <3> HIDE DEF l
    <3>1. (\E i \in DOMAIN l : PathMatches(l[i], src)) <=>
             \/ PathMatches("drives", src) \/ PathMatches("nthome", src)
             \/ PathMatches("modern", src) \/ PathMatches("option", src)
      BY <2>1
    <3>2. QED
      BY <1>1, <3>1 DEF PathMatches, PathKnown
  <2>3. QED
    BY <2>2 DEF PathTransform, PathPlace
<1>2. CASE ~vfsOption
  <2>1. DOMAIN l = 1 .. 3 /\ l[1] = "drives" /\ l[2] = "nthome" /\ l[3] = "modern"
    BY <1>2, PathHookListIs
  <2>2. (\E i \in DOMAIN l : PathMatches(l[i], src)) <=> PathKnown(src)
    <3> HIDE DEF l
    <3>1. (\E i \in DOMAIN l : PathMatches(l[i], src)) <=>
             \/ PathMatches("drives", src) \/ PathMatches("nthome", src)
             \/ PathMatches("modern", src)
      BY <2>1
    <3>2. QED
      BY <1>2, <3>1 DEF PathMatches, PathKnown
  <2>3. QED
    BY <2>2 DEF PathTransform, PathPlace
<1>3. QED
  BY <1>1, <1>2

(* A path's place and its meaning say the same of it. *)
LEMMA PathPlaceMeans ==
  ASSUME NEW a \in Paths, NEW b \in Paths
  PROVE  PathPlace(a) = PathPlace(b) <=> PathMeaning(a) = PathMeaning(b)
<1> DEFINE PlaceOf(w) ==
             IF \/ w.head \in {"E:", "Y:"} /\ w.end = "separator"
                \/ w.head = "nthome" /\ w.end # "more"
                \/ vfsOption /\ w.head = "option" /\ w.end # "more"
             THEN [root |-> VfsTarget(w.head), tail |-> w.tail]
             ELSE [root |-> PathOnDisk(w.head),
                   tail |-> <<w.end, IF w.end = "end" THEN {} ELSE {w.tail[1]}>>]
<1>1. ASSUME NEW src \in Paths PROVE PathPlace(src) = PlaceOf(PathMeaning(src))
  BY
     DEF PathPlace, PathMeaning, PathKnown, VfsPathHook, VfsPathHookNthome,
         VfsPathHookModern,
         VfsPathHookOption, VfsFold, VfsTarget, PathOnDisk, Paths, PathHeads, PathEnds
<1>2. PathMeaning(a) = PathMeaning(b) => PathPlace(a) = PathPlace(b)
  BY <1>1
<1>3. ASSUME PathPlace(a) = PathPlace(b) PROVE PathMeaning(a) = PathMeaning(b)
  BY <1>3
  DEF PathPlace, PathMeaning, PathKnown, VfsPathHook, VfsPathHookNthome, VfsPathHookModern,
         VfsPathHookOption, VfsFold, VfsTarget, PathOnDisk, Paths, PathHeads, PathEnds
<1>4. QED
  BY <1>2, <1>3

(* A process that has started has the hooks; the places of the files are what
   the game has made, and nothing else is there.                           *)
PathIInv ==
    /\ VfsIInv
    /\ pathHooks \in [PathProcs -> Seq(PathHookNames)]
    /\ \A p \in PathProcs : PathCalls(p) => pathHooks[p] = PathHookList
    /\ \A src \in Paths : PathPlace(src) \in pathFiles <=> PathMeaning(src) \in pathMade

(* It says that the directories are made and each file found. *)
LEMMA PathIInvHolds == PathIInv => FilesFound
<1> SUFFICES ASSUME PathIInv PROVE FilesFound
  OBVIOUS
<1>1. VfsDirsWhole
  BY VfsIInvWhole DEF PathIInv
<1>2. PathOneFile
  BY PathTransformIs DEF PathIInv, PathOneFile, PathExists
<1>3. QED
  BY <1>1, <1>2 DEF FilesFound

(* It holds before the first process. *)
LEMMA PathInitIInv == PathInit => PathIInv
  BY VfsInitIInv DEF PathInit, PathIInv, PathCalls, VfsBegin, VfsDone

(* Every step of the processes keeps it. *)
LEMMA PathStepHolds == PathIInv /\ [PathNext]_pathVars => PathIInv'
<1> SUFFICES ASSUME PathIInv, [PathNext]_pathVars PROVE PathIInv'
  OBVIOUS
<1>1. CASE UNCHANGED pathVars
  <2>1. UNCHANGED <<vfsOption, vfsAt, vfsDisk, pathHooks, pathFiles, pathMade>>
    BY <1>1 DEF pathVars
  <2>2. /\ PathHookList' = PathHookList /\ (\A p \in PathProcs : PathCalls(p)' = PathCalls(p))
        /\ VfsIInv'
    BY <2>1
       DEF PathIInv, VfsIInv, VfsAtTyped, VfsPassed, VfsWillMake, PathCalls, PathHookList
  <2>3. \A src \in Paths : PathPlace(src)' = PathPlace(src)
    BY <2>1 DEF PathPlace, PathKnown
  <2>4. QED
    BY <2>1, <2>2, <2>3 DEF PathIInv
<1>2. ASSUME NEW p \in PathProcs, VfsCheck(p) \/ VfsCreate(p) \/ VfsPush(p) \/ VfsKill(p)
      PROVE  PathIInv'
  <2>1. VfsIInv'
    BY <1>2, VfsStepHolds DEF PathIInv
  <2>2. UNCHANGED <<vfsOption, pathFiles, pathMade>>
    BY <1>2 DEF VfsCheck, VfsCreate, VfsPush, VfsKill
  <2>3. \A src \in Paths : PathPlace(src)' \in pathFiles' <=> PathMeaning(src) \in pathMade'
    BY <2>2 DEF PathIInv, PathPlace, PathKnown
  <2>4. /\ pathHooks' \in [PathProcs -> Seq(PathHookNames)]
        /\ \A q \in PathProcs : PathCalls(q)' => pathHooks'[q] = PathHookList'
    <3>1. PathHookList' = PathHookList /\ PathHookList \in Seq(PathHookNames)
      BY <2>2, PathHookListIs DEF PathHookList
    <3>2. VfsAtTyped
      BY DEF PathIInv, VfsIInv
    <3>3. CASE VfsCheck(p) \/ VfsCreate(p)
      <4>1. pathHooks' = pathHooks
        BY <3>3 DEF VfsCheck, VfsCreate
      <4>2. vfsAt'[p].step # "done" /\ \A q \in PathProcs : q # p => vfsAt'[q] = vfsAt[q]
        <5>1. CASE VfsCheck(p)
          <6>1. vfsAt[p].step = "check"
            BY <5>1 DEF VfsCheck
          <6>2. VfsAfter(vfsAt[p], TRUE).step # "done"
            BY <3>2, <6>1, VfsAfterIs
          <6>3. [vfsAt[p] EXCEPT !.step = "create"].step = "create"
            BY <3>2 DEF VfsAtTyped
          <6>4. QED
            BY <3>2, <5>1, <6>2, <6>3 DEF VfsCheck, VfsAtTyped
        <5>2. CASE VfsCreate(p)
          <6>1. vfsAt[p].step = "create"
            BY <5>2 DEF VfsCreate
          <6>2. \A ok \in BOOLEAN : VfsAfter(vfsAt[p], ok).step # "done"
            BY <3>2, <6>1, VfsAfterIs
          <6> DEFINE ok == SubSeq(VfsDirs[VfsOrder[vfsAt[p].dir]], 1, vfsAt[p].name) \notin vfsDisk
          <6>3. ok \in BOOLEAN /\ vfsAt' = [vfsAt EXCEPT ![p] = VfsAfter(vfsAt[p], ok)]
            BY <5>2 DEF VfsCreate
          <6> HIDE DEF ok
          <6>4. QED
            BY <3>2, <6>2, <6>3 DEF VfsAtTyped
        <5>3. QED
          BY <3>3, <5>1, <5>2
      <4>3. \A q \in PathProcs : PathCalls(q)' => PathCalls(q)
        BY <4>2 DEF PathCalls, VfsDone
      <4>4. QED
        BY <3>1, <4>1, <4>3 DEF PathIInv
    <3>4. CASE VfsPush(p)
      <4>1. pathHooks' = [pathHooks EXCEPT ![p] = PathHookList]
            /\ vfsAt' = [vfsAt EXCEPT ![p] = VfsDone]
        BY <3>4 DEF VfsPush, PathHookList
      <4>2. QED
        BY <3>1, <3>2, <4>1 DEF PathIInv, PathCalls, VfsAtTyped
    <3>5. CASE VfsKill(p)
      <4>1. pathHooks' = [pathHooks EXCEPT ![p] = <<>>]
            /\ vfsAt' = [vfsAt EXCEPT ![p] = VfsBegin]
        BY <3>5 DEF VfsKill
      <4>2. VfsBegin # VfsDone
        BY DEF VfsBegin, VfsDone
      <4>3. QED
        BY <3>1, <3>2, <4>1, <4>2 DEF PathIInv, PathCalls, VfsAtTyped
    <3>6. QED
      BY <1>2, <3>3, <3>4, <3>5
  <2>5. QED
    BY <2>1, <2>3, <2>4 DEF PathIInv
<1>3. ASSUME NEW p \in PathProcs, NEW src \in Paths,
             \/ PathCreateDirectory(p, src) \/ PathCreateFile(p, src)
             \/ PathRemoveDirectory(p, src)
      PROVE  PathIInv'
  <2>1. UNCHANGED <<vfsOption, vfsAt, vfsDisk, pathHooks>> /\ PathCalls(p)
    BY <1>3 DEF PathCreateDirectory, PathCreateFile, PathRemoveDirectory, PathUnchanged
  <2>2. /\ PathHookList' = PathHookList /\ (\A q \in PathProcs : PathCalls(q)' = PathCalls(q))
        /\ VfsIInv'
    BY <2>1
       DEF PathIInv, VfsIInv, VfsAtTyped, VfsPassed, VfsWillMake, PathHookList, PathCalls
  <2>3. PathTransform(p, src) = PathPlace(src)
    BY <2>1, PathTransformIs DEF PathIInv
  <2>4. \/ /\ pathFiles' = pathFiles \cup {PathPlace(src)}
           /\ pathMade' = pathMade \cup {PathMeaning(src)}
        \/ /\ pathFiles' = pathFiles \ {PathPlace(src)}
           /\ pathMade' = pathMade \ {PathMeaning(src)}
    BY <1>3, <2>3 DEF PathCreateDirectory, PathCreateFile, PathRemoveDirectory
  <2>5. ASSUME NEW w \in Paths
        PROVE  PathPlace(w) \in pathFiles' <=> PathMeaning(w) \in pathMade'
    <3>1. PathPlace(w) = PathPlace(src) <=> PathMeaning(w) = PathMeaning(src)
      BY PathPlaceMeans
    <3>2. QED
      BY <2>4, <3>1 DEF PathIInv
  <2>6. \A w \in Paths : PathPlace(w)' = PathPlace(w)
    BY <2>1 DEF PathPlace, PathKnown
  <2>7. QED
    BY <2>1, <2>2, <2>5, <2>6 DEF PathIInv
<1>4. QED
  BY <1>1, <1>2, <1>3 DEF PathNext

(* platform/vfs.c and hooklib/path.c: a directory is there as soon as nobody
   is on the way to make it, and what has been made lies where its path
   leads.                                                                  *)
THEOREM PathInvariance == PathSpec => []PathIInv
  BY PathInitIInv, PathStepHolds, PTL DEF PathSpec

(* platform/vfs.c: whichever processes start together and whichever of them
   are killed, one that has started finds its directories, and a file under
   each of its names.                                                      *)
THEOREM FilesAreFound == PathSpec => []FilesFound
  BY PathInvariance, PathIInvHolds, PTL

-----------------------------------------------------------------------------
(* Libraries: the module that stands in for others stays loaded. *)

(* A module that stands in for others is held only once there is a table, and
   no free of it goes on to Windows.                                       *)
LibIInv ==
    /\ libCount \in [LibModules -> Int]
    /\ libHeld \in [HookThreads -> Seq(LibModules)]
    /\ libFreeing \in [HookThreads -> Seq(LibModules)]
    /\ \A t \in HookThreads : \A i \in 1 .. Len(libHeld[t]) :
          libHeld[t][i] = "hook" => libTable # {}
    /\ \A t \in HookThreads : \A i \in 1 .. Len(libFreeing[t]) : libFreeing[t][i] # "hook"
    /\ LibStaysLoaded

(* The hook is a module, and none of those that are asked for. *)
LEMMA LibModulesApart ==
  /\ "hook" \in LibModules /\ LibNames \subseteq LibModules /\ LibOthers \subseteq LibModules
  /\ \A n \in LibNames \cup LibOthers : n # "hook"
  BY LibNamesAssumption DEF LibModules

(* It holds when no library has been loaded. *)
LEMMA LibInitIInv == LibInit => LibIInv
<1> SUFFICES ASSUME LibInit PROVE LibIInv
  OBVIOUS
<1>1. libCount \in [LibModules -> Int] /\ libCount["hook"] = 1
  BY LibModulesApart DEF LibInit
<1>2. QED
  BY <1>1 DEF LibInit, LibIInv, LibStaysLoaded

(* A load counts the module that it finds. *)
LEMMA LibLoadHolds ==
  ASSUME LibIInv, NEW t \in HookThreads, NEW n \in LibNames \cup LibOthers, LibLoad(t, n)
  PROVE  LibIInv'
<1> DEFINE m == IF n \in libTable THEN "hook" ELSE n
<1>1. /\ libHeld' = [libHeld EXCEPT ![t] = <<m>> \o libHeld[t]]
      /\ UNCHANGED <<libTable, libFreeing>>
  BY DEF LibLoad
<1>2. m \in LibModules /\ n \in LibModules /\ n # "hook" /\ (m = "hook" => libTable # {})
  BY LibModulesApart
<1>3. libCount' \in [LibModules -> Int] /\ libCount'["hook"] = libCount["hook"]
  BY <1>2, LibModulesApart DEF LibLoad, LibIInv
<1> HIDE DEF m
<1>4. libHeld[t] \in Seq(LibModules)
  BY DEF LibIInv
<1> DEFINE s == <<m>> \o libHeld[t]
<1>5. /\ s \in Seq(LibModules) /\ Len(s) = Len(libHeld[t]) + 1 /\ s[1] = m
      /\ \A i \in 1 .. Len(libHeld[t]) : s[i + 1] = libHeld[t][i]
  BY <1>2, <1>4
<1>6. \A i \in 1 .. Len(s) : i = 1 \/ \E k \in 1 .. Len(libHeld[t]) : i = k + 1
  <2> SUFFICES ASSUME NEW i \in 1 .. Len(s), i # 1
               PROVE  \E k \in 1 .. Len(libHeld[t]) : i = k + 1
    OBVIOUS
  <2>1. i - 1 \in 1 .. Len(libHeld[t]) /\ i = (i - 1) + 1
    BY <1>4, <1>5
  <2>2. QED
    BY <2>1
<1>7. \A i \in 1 .. Len(s) : s[i] = "hook" => libTable # {}
  BY <1>2, <1>5, <1>6 DEF LibIInv
<1> HIDE DEF s
<1>8. libHeld' = [libHeld EXCEPT ![t] = s]
  BY <1>1 DEF s
<1>9. QED
  BY <1>1, <1>3, <1>5, <1>7, <1>8 DEF LibIInv, LibStaysLoaded

(* A free takes back what a load has counted. *)
LEMMA LibFreeHolds ==
  ASSUME LibIInv, NEW t \in HookThreads, LibFree(t)
  PROVE  LibIInv'
<1> DEFINE s == libHeld[t]
           m == Head(libHeld[t])
<1>1. s \in Seq(LibModules) /\ s # <<>>
  BY DEF LibIInv, LibFree
<1>2. /\ m \in LibModules /\ m = s[1] /\ 1 \in 1 .. Len(s)
      /\ Tail(s) \in Seq(LibModules) /\ Len(Tail(s)) = Len(s) - 1
      /\ \A i \in 1 .. Len(Tail(s)) : Tail(s)[i] = s[i + 1] /\ i + 1 \in 1 .. Len(s)
  BY <1>1
<1>3. /\ libHeld' = [libHeld EXCEPT ![t] = Tail(s)]
      /\ UNCHANGED <<libTable, libCount>>
  BY DEF LibFree
<1>4. \A i \in 1 .. Len(Tail(s)) : Tail(s)[i] = "hook" => libTable # {}
  BY <1>2 DEF LibIInv
<1>5. m = "hook" => libTable # {}
  BY <1>2 DEF LibIInv
<1>6. libFreeing' = libFreeing \/ (m # "hook" /\ libFreeing' = [libFreeing EXCEPT ![t] = <<m>>])
  BY <1>5 DEF LibFree
<1> HIDE DEF m
<1>7. <<m>> \in Seq(LibModules) /\ Len(<<m>>) = 1 /\ <<m>>[1] = m
  BY <1>2
<1>8. /\ libFreeing' \in [HookThreads -> Seq(LibModules)]
      /\ \A u \in HookThreads : \A i \in 1 .. Len(libFreeing'[u]) : libFreeing'[u][i] # "hook"
  <2>1. CASE libFreeing' = libFreeing
    BY <2>1 DEF LibIInv
  <2>2. CASE m # "hook" /\ libFreeing' = [libFreeing EXCEPT ![t] = <<m>>]
    <3> DEFINE one == <<m>>
    <3>1. one \in Seq(LibModules) /\ Len(one) = 1 /\ one[1] # "hook"
      BY <1>7, <2>2
    <3>2. libFreeing' = [libFreeing EXCEPT ![t] = one]
      BY <2>2
    <3> HIDE DEF one
    <3>3. libFreeing' \in [HookThreads -> Seq(LibModules)]
      BY <3>1, <3>2 DEF LibIInv
    <3>4. ASSUME NEW u \in HookThreads, NEW i \in 1 .. Len(libFreeing'[u])
          PROVE  libFreeing'[u][i] # "hook"
      <4>1. CASE u = t
        <5>1. libFreeing'[u] = one
          BY <3>2, <4>1 DEF LibIInv
        <5>2. Len(libFreeing'[u]) = 1
          BY <3>1, <5>1
        <5>3. i = 1
          BY <5>2
        <5>4. QED
          BY <3>1, <5>1, <5>3
      <4>2. CASE u # t
        BY <3>2, <3>4, <4>2 DEF LibIInv
      <4>3. QED
        BY <4>1, <4>2
    <3>5. QED
      BY <3>3, <3>4
  <2>3. QED
    BY <1>6, <2>1, <2>2
<1> DEFINE w == Tail(s)
<1>9. libHeld' = [libHeld EXCEPT ![t] = w] /\ w \in Seq(LibModules)
      /\ \A i \in 1 .. Len(w) : w[i] = "hook" => libTable # {}
  BY <1>2, <1>3, <1>4
<1> HIDE DEF w
<1>10. QED
  BY <1>3, <1>8, <1>9 DEF LibIInv, LibStaysLoaded

(* It goes on to the modules below, none of which is the hook. *)
LEMMA LibFreeNextHolds ==
  ASSUME LibIInv, NEW t \in HookThreads, LibFreeNext(t)
  PROVE  LibIInv'
<1> DEFINE m == Head(libFreeing[t])
<1>1. libFreeing[t] \in Seq(LibModules) /\ libFreeing[t] # <<>>
  BY DEF LibIInv, LibFreeNext
<1>2. m \in LibModules /\ m = libFreeing[t][1] /\ 1 \in 1 .. Len(libFreeing[t])
  BY <1>1
<1>3. m # "hook"
  BY <1>2 DEF LibIInv
<1>4. /\ libCount' = [libCount EXCEPT ![m] = libCount[m] - 1]
      /\ libFreeing' = [libFreeing EXCEPT ![t] = <<>>]
      /\ UNCHANGED <<libTable, libHeld>>
  BY DEF LibFreeNext
<1> HIDE DEF m
<1>5. libCount' \in [LibModules -> Int] /\ libCount'["hook"] = libCount["hook"]
  BY <1>2, <1>3, <1>4, LibModulesApart DEF LibIInv
<1>6. /\ libFreeing' \in [HookThreads -> Seq(LibModules)]
      /\ \A u \in HookThreads : \A i \in 1 .. Len(libFreeing'[u]) : libFreeing'[u][i] # "hook"
  BY <1>4 DEF LibIInv
<1>7. QED
  BY <1>4, <1>5, <1>6 DEF LibIInv, LibStaysLoaded

(* Every step of the libraries keeps it, *)
LEMMA LibStepHolds == LibIInv /\ [LibNext]_libVars => LibIInv'
<1> SUFFICES ASSUME LibIInv, [LibNext]_libVars PROVE LibIInv'
  OBVIOUS
<1>1. ASSUME NEW n \in LibNames, LibPush(n) PROVE LibIInv'
  BY <1>1 DEF LibPush, LibIInv, LibStaysLoaded
<1>2. ASSUME NEW t \in HookThreads, NEW n \in LibNames \cup LibOthers, LibLoad(t, n)
      PROVE  LibIInv'
  BY <1>2, LibLoadHolds
<1>3. ASSUME NEW t \in HookThreads, LibFree(t) \/ LibFreeNext(t) PROVE LibIInv'
  BY <1>3, LibFreeHolds, LibFreeNextHolds
<1>4. CASE UNCHANGED libVars
  BY <1>4 DEF libVars, LibIInv, LibStaysLoaded
<1>5. QED
  BY <1>1, <1>2, <1>3, <1>4 DEF LibNext

(* Devices leave the libraries alone. *)
LEMMA LibOfHookStep == [HookNext]_hookVars => [LibNext]_libVars
<1>1. DevNext => UNCHANGED libVars
  BY DEF DevNext, DevAdd, DevGetClass, DevRecord, DevEnum, DevForget, DevDestroy
<1>2. QED
  BY <1>1 DEF HookNext, hookVars

(* hooklib/dll.c: a module of the table is held only after it was pushed, and
   a free of it is never handed on.                                        *)
THEOREM LibInvariance == HookSpec => []LibIInv
  BY LibInitIInv, LibStepHolds, LibOfHookStep, PTL DEF HookSpec, HookInit

(* hooklib/dll.c: the hook's own module stays loaded, for any number of threads
   and libraries and however often each is loaded and freed.               *)
THEOREM LibKeepsHook == HookSpec => []LibStaysLoaded
<1>1. LibIInv => LibStaysLoaded
  BY DEF LibIInv
<1>2. QED
  BY <1>1, LibInvariance, PTL

-----------------------------------------------------------------------------
(* Devices: a list names each device once. *)

(* What a thread has been told of so far: a made-up device or the first real
   one, and then the real ones in order.                                   *)
DevToldSoFar(t) ==
    LET l == devList[t]
    IN  /\ Len(l) <= DevReal + 1
        /\ Len(l) >= 1 => l[1] = IF devMine[t].phantom THEN DevPhantom ELSE <<0>>
        /\ Len(l) >= 1 => devMine[t].phantom \/ DevReal >= 1
        /\ \A k \in 2 .. Len(l) : l[k] = <<k - 2>>

(* A list that is the thread's alone is of a class that has its set if a hook
   has a device of it, and of a set that no class has otherwise.           *)
DevAlone(t) ==
    IF devMine[t].phantom
    THEN devMine[t].class \in devAdded /\ devCur[devMine[t].class] = devMine[t].set
    ELSE ~DevMatch(devMine[t].set)

(* The classes that a set can be of, and the calls that a thread can be in *)
DevKinds == DevClasses \cup DevOthers

(* The calls that a thread can be in *)
DevCalls == {"idle", "record", "listed", "destroy"}

(* The tables and the records of a thread *)
DevTyped ==
    /\ devCur \in [DevClasses -> DevSets \cup {DevNone}]
    /\ devAdded \subseteq DevClasses
    /\ devKernel \in [DevSets -> DevKinds \cup {DevNone}]
    /\ devAt \in [HookThreads -> DevCalls]
    /\ devMine \in [HookThreads -> [set : DevSets \cup {DevNone},
                                    class : DevKinds \cup {DevNone}, phantom : BOOLEAN]]
    /\ devList \in [HookThreads -> Seq(Seq(Nat))]
    /\ devSole \in [HookThreads -> BOOLEAN]

(* A thread's set is one of Windows that no other thread has. *)
DevSetsApart ==
    /\ \A t \in HookThreads : devAt[t] # "idle" =>
          /\ devMine[t].set \in DevSets /\ devMine[t].class \in DevKinds
          /\ devKernel[devMine[t].set] = devMine[t].class
    /\ \A t, u \in HookThreads :
          devAt[t] # "idle" /\ devAt[u] # "idle" /\ devMine[t].set = devMine[u].set => t = u

(* The inductive invariant of the device lists *)
DevIInv ==
    /\ DevTyped /\ DevSetsApart
    /\ \A t \in HookThreads : devAt[t] \in {"idle", "record"} => ~devSole[t] /\ devList[t] = <<>>
    /\ \A t \in HookThreads : devAt[t] = "listed" /\ devSole[t] => DevAlone(t) /\ DevToldSoFar(t)

(* It holds when there is no set. *)
LEMMA DevInitIInv == DevInit => DevIInv
  BY DEF DevInit, DevIInv, DevTyped, DevSetsApart, DevNoSet, DevCalls

(* A class gets its device, and whatever handle the new memory holds. *)
LEMMA DevAddHolds ==
  ASSUME DevIInv, NEW c \in DevClasses, DevAdd(c)
  PROVE  DevIInv'
<1>1. PICK s \in DevSets \cup {DevNone} :
        /\ devCur' = [devCur EXCEPT ![c] = s]
        /\ devSole' = [t \in HookThreads |-> devSole[t] /\ devMine[t].set # s]
  BY DEF DevAdd
<1>2. /\ c \notin devAdded /\ devAdded' = devAdded \cup {c}
      /\ UNCHANGED <<devKernel, devAt, devMine, devList>>
  BY DEF DevAdd
<1>3. DevTyped' /\ DevSetsApart'
  <2>1. devCur' \in [DevClasses -> DevSets \cup {DevNone}]
    BY <1>1 DEF DevIInv, DevTyped
  <2>2. devSole' \in [HookThreads -> BOOLEAN]
    BY <1>1, ZenonT(30)
  <2>3. QED
    BY <1>2, <2>1, <2>2 DEF DevIInv, DevTyped, DevSetsApart
<1>4. ASSUME NEW t \in HookThreads
      PROVE  devSole'[t] => devSole[t] /\ devMine[t].set # s
  BY <1>1
<1>5. ASSUME NEW t \in HookThreads, devAt[t] = "listed", devSole'[t]
      PROVE  DevAlone(t)' /\ DevToldSoFar(t)'
  <2>1. devSole[t] /\ devMine[t].set # s
    BY <1>4, <1>5
  <2>2. DevAlone(t) /\ DevToldSoFar(t)
    BY <1>5, <2>1 DEF DevIInv
  <2>3. DevToldSoFar(t)'
    BY <1>2, <2>2 DEF DevToldSoFar
  <2>4. DevAlone(t)'
    BY <1>1, <1>2, <2>1, <2>2 DEF DevAlone, DevMatch, DevIInv, DevTyped
  <2>5. QED
    BY <2>3, <2>4
<1>6. QED
  BY <1>2, <1>3, <1>4, <1>5 DEF DevIInv

(* Windows gives out a set that nobody has. *)
LEMMA DevGetClassHolds ==
  ASSUME DevIInv, NEW t \in HookThreads, NEW c \in DevKinds, DevGetClass(t, c)
  PROVE  DevIInv'
<1>1. PICK s \in DevSets :
        /\ devKernel[s] = DevNone
        /\ devKernel' = [devKernel EXCEPT ![s] = c]
        /\ devMine' = [devMine EXCEPT ![t] = [set |-> s, class |-> c, phantom |-> FALSE]]
  BY DEF DevGetClass
<1>2. /\ devAt[t] = "idle" /\ devAt' = [devAt EXCEPT ![t] = "record"]
      /\ UNCHANGED <<devCur, devAdded, devList, devSole>>
  BY DEF DevGetClass
<1>3. DevTyped'
  BY <1>1, <1>2 DEF DevIInv, DevTyped, DevCalls
<1>4. \A u \in HookThreads : u # t =>
         devMine'[u] = devMine[u] /\ devAt'[u] = devAt[u]
  BY <1>1, <1>2 DEF DevIInv, DevTyped
<1>5. devMine'[t].set = s /\ devMine'[t].class = c /\ devAt'[t] = "record" /\ devKernel'[s] = c
  BY <1>1, <1>2 DEF DevIInv, DevTyped
<1>6. \A u \in HookThreads : u # t /\ devAt[u] # "idle" =>
         devMine[u].set # s /\ devKernel'[devMine[u].set] = devKernel[devMine[u].set]
  BY <1>1, DevNoneAssumption DEF DevIInv, DevTyped, DevSetsApart, DevKinds
<1>7. DevSetsApart'
  BY <1>4, <1>5, <1>6 DEF DevIInv, DevSetsApart
<1>8. ASSUME NEW u \in HookThreads, devAt'[u] = "listed", devSole[u]
      PROVE  DevAlone(u)' /\ DevToldSoFar(u)'
  <2>1. u # t /\ devAt[u] = "listed"
    BY <1>4, <1>5, <1>8
  <2>2. DevAlone(u) /\ DevToldSoFar(u) /\ devMine'[u] = devMine[u]
    BY <1>4, <1>8, <2>1 DEF DevIInv
  <2>3. QED
    BY <1>2, <2>2 DEF DevAlone, DevToldSoFar, DevMatch
<1>9. \A u \in HookThreads : devAt'[u] \in {"idle", "record"} => ~devSole[u] /\ devList[u] = <<>>
  BY <1>2, <1>4 DEF DevIInv
<1>10. QED
  BY <1>2, <1>3, <1>7, <1>8, <1>9 DEF DevIInv

(* The hook records it for its class. *)
LEMMA DevRecordHolds ==
  ASSUME DevIInv, NEW t \in HookThreads, DevRecord(t)
  PROVE  DevIInv'
<1> DEFINE s == devMine[t].set
           c == devMine[t].class
<1>1. /\ devAt[t] = "record" /\ devAt' = [devAt EXCEPT ![t] = "listed"]
      /\ devCur' = IF c \in devAdded THEN [devCur EXCEPT ![c] = s] ELSE devCur
      /\ devMine' = [devMine EXCEPT ![t] = [devMine[t] EXCEPT !.phantom = c \in devAdded]]
      /\ devSole' = [u \in HookThreads |->
            IF u = t THEN \A d \in devAdded \ {c} : devCur[d] # s
            ELSE devSole[u] /\ devMine[u].class # c]
      /\ UNCHANGED <<devAdded, devKernel, devList>>
  BY DEF DevRecord
<1>2. s \in DevSets /\ c \in DevKinds /\ devKernel[s] = c
  BY <1>1 DEF DevIInv, DevSetsApart
<1>3. devMine[t] = [set |-> s, class |-> c, phantom |-> devMine[t].phantom]
  BY DEF DevIInv, DevTyped
<1>4. /\ devMine'[t].set = s /\ devMine'[t].class = c
      /\ devMine'[t].phantom = (c \in devAdded)
      /\ devMine'[t] = [set |-> s, class |-> c, phantom |-> c \in devAdded]
      /\ devAt'[t] = "listed"
  BY <1>1, <1>3 DEF DevIInv, DevTyped
<1>5. \A u \in HookThreads : u # t =>
         devMine'[u] = devMine[u] /\ devAt'[u] = devAt[u]
  BY <1>1 DEF DevIInv, DevTyped
<1>6. \A u \in HookThreads : u # t /\ devAt[u] # "idle" => devMine[u].set # s
  BY <1>1 DEF DevIInv, DevSetsApart
<1>7. devMine' \in [HookThreads -> [set : DevSets \cup {DevNone},
                                    class : DevKinds \cup {DevNone}, phantom : BOOLEAN]]
  <2> DEFINE R == [set : DevSets \cup {DevNone}, class : DevKinds \cup {DevNone}, phantom : BOOLEAN]
             r == [set |-> s, class |-> c, phantom |-> c \in devAdded]
  <2>1. r \in R
    BY <1>2
  <2>2. devMine' = [devMine EXCEPT ![t] = r]
    <3>1. devMine' = [devMine EXCEPT ![t] = devMine'[t]]
      BY <1>1 DEF DevIInv, DevTyped
    <3>2. QED
      BY <1>4, <3>1
  <2> HIDE DEF r
  <2>3. devMine \in [HookThreads -> R]
    BY DEF DevIInv, DevTyped
  <2> HIDE DEF R
  <2>4. devMine' \in [HookThreads -> R]
    BY <2>1, <2>2, <2>3
  <2>5. QED
    BY <2>4 DEF R
<1>8. devSole' \in [HookThreads -> BOOLEAN]
  <2>1. devSole' = [u \in HookThreads |-> devSole'[u]]
    BY <1>1
  <2>2. ASSUME NEW u \in HookThreads PROVE devSole'[u] \in BOOLEAN
    <3>1. CASE u = t
      <4>1. devSole'[u] = (\A d \in devAdded \ {c} : devCur[d] # s)
        BY <1>1, <3>1
      <4>2. QED
        BY <4>1, Zenon
    <3>2. CASE u # t
      <4>1. devSole'[u] = (devSole[u] /\ devMine[u].class # c)
        BY <1>1, <3>2
      <4>2. QED
        BY <4>1, Zenon
    <3>3. QED
      BY <3>1, <3>2
  <2>3. QED
    BY <2>1, <2>2
<1>9. devCur' \in [DevClasses -> DevSets \cup {DevNone}]
  BY <1>1, <1>2 DEF DevIInv, DevTyped
<1>10. DevTyped'
  BY <1>1, <1>7, <1>8, <1>9 DEF DevIInv, DevTyped, DevCalls
<1>11. DevSetsApart'
  BY <1>1, <1>2, <1>4, <1>5, <1>6 DEF DevIInv, DevSetsApart
<1>12. ASSUME NEW u \in HookThreads, u # t, devAt[u] = "listed", devSole'[u]
       PROVE  DevAlone(u)' /\ DevToldSoFar(u)'
  <2>1. devSole[u] /\ devMine[u].class # c
    BY <1>1, <1>12
  <2>2. DevAlone(u) /\ DevToldSoFar(u) /\ devMine'[u] = devMine[u] /\ devMine[u].set # s
    BY <1>5, <1>6, <1>12, <2>1 DEF DevIInv
  <2>3. DevToldSoFar(u)'
    BY <1>1, <2>2 DEF DevToldSoFar
  <2>4. DevAlone(u)'
    BY <1>1, <2>1, <2>2 DEF DevAlone, DevMatch, DevIInv, DevTyped
  <2>5. QED
    BY <2>3, <2>4
<1>13. ASSUME devSole'[t] PROVE DevAlone(t)' /\ DevToldSoFar(t)'
  <2>1. \A d \in devAdded \ {c} : devCur[d] # s
    BY <1>1, <1>13
  <2>2. devList'[t] = <<>>
    BY <1>1 DEF DevIInv
  <2>3. Len(devList'[t]) = 0
    BY <2>2
  <2>4. DevToldSoFar(t)'
    BY <2>3, HookNumbersAssumption DEF DevToldSoFar
  <2>5. CASE c \in devAdded
    <3>1. devCur'[c] = s /\ devMine'[t].phantom
      BY <1>1, <1>4, <2>5 DEF DevIInv, DevTyped
    <3>2. QED
      BY <1>1, <1>4, <2>4, <2>5, <3>1 DEF DevAlone
  <2>6. CASE c \notin devAdded
    <3>1. devCur' = devCur /\ ~devMine'[t].phantom /\ \A d \in devAdded : devCur[d] # s
      BY <1>1, <1>4, <2>1, <2>6
    <3>2. QED
      BY <1>1, <1>4, <2>4, <2>6, <3>1 DEF DevAlone, DevMatch
  <2>7. QED
    BY <2>5, <2>6
<1>14. ASSUME NEW u \in HookThreads, devAt'[u] \in {"idle", "record"}
       PROVE  ~devSole'[u] /\ devList'[u] = <<>>
  <2>1. u # t /\ devAt[u] \in {"idle", "record"}
    BY <1>4, <1>5, <1>14
  <2>2. devSole'[u] => devSole[u]
    BY <1>1, <2>1
  <2>3. QED
    BY <1>1, <2>1, <2>2 DEF DevIInv
<1>15. \A u \in HookThreads :
          devAt'[u] = "listed" /\ devSole'[u] => DevAlone(u)' /\ DevToldSoFar(u)'
  BY <1>5, <1>12, <1>13
<1>16. QED
  BY <1>10, <1>11, <1>14, <1>15 DEF DevIInv

(* A list is one device longer. *)
LEMMA DevEnumHolds ==
  ASSUME DevIInv, NEW t \in HookThreads, DevEnum(t)
  PROVE  DevIInv'
<1> DEFINE l == devList[t]
           i == Len(devList[t])
           told == i = 0 /\ DevMatch(devMine[t].set)
           d == IF told THEN DevPhantom ELSE <<DevIndex(i)>>
           m == Append(devList[t], d)
<1>1. /\ devAt[t] = "listed"
      /\ UNCHANGED <<devCur, devAdded, devKernel, devAt, devMine, devSole>>
  BY DEF DevEnum
<1>2. l \in Seq(Seq(Nat)) /\ i \in Nat /\ DevReal \in Nat
  BY HookNumbersAssumption DEF DevIInv, DevTyped
<1>3. DevIndex(i) \in Nat /\ <<DevIndex(i)>> \in Seq(Nat) /\ DevPhantom \in Seq(Nat)
  BY <1>2 DEF DevIndex, DevPhantom
<1>4. d \in Seq(Nat)
  BY <1>3
<1>5. /\ told \/ DevIndex(i) < DevReal
      /\ devList' = [devList EXCEPT ![t] = m]
  <2>1. CASE told /\ devList' = [devList EXCEPT ![t] = <<DevPhantom>>]
    <3>1. l = <<>>
      BY <1>2, <2>1
    <3>2. m = <<DevPhantom>>
      BY <2>1, <3>1
    <3>3. QED
      BY <2>1, <3>2
  <2>2. CASE /\ ~told /\ DevIndex(i) < DevReal
             /\ devList' = [devList EXCEPT ![t] = Append(l, <<DevIndex(i)>>)]
    BY <2>2
  <2>3. QED
    BY <2>1, <2>2 DEF DevEnum
<1> HIDE DEF d
<1>6. /\ m \in Seq(Seq(Nat)) /\ Len(m) = i + 1 /\ m[i + 1] = d
      /\ \A k \in 1 .. i : m[k] = l[k]
  BY <1>2, <1>4
<1> HIDE DEF m
<1>7. devList' \in [HookThreads -> Seq(Seq(Nat))]
  BY <1>5, <1>6 DEF DevIInv, DevTyped
<1>8. DevTyped' /\ DevSetsApart'
  BY <1>1, <1>7 DEF DevIInv, DevTyped, DevSetsApart
<1>9. devList'[t] = m /\ \A u \in HookThreads : u # t => devList'[u] = devList[u]
  BY <1>5 DEF DevIInv, DevTyped
<1>10. ASSUME NEW u \in HookThreads, devAt[u] = "listed", devSole[u]
       PROVE  DevAlone(u)' /\ DevToldSoFar(u)'
  <2>1. DevAlone(u) /\ DevToldSoFar(u)
    BY <1>10 DEF DevIInv
  <2>2. DevAlone(u)'
    BY <1>1, <2>1 DEF DevAlone, DevMatch
  <2>3. CASE u # t
    BY <1>1, <1>9, <2>1, <2>2, <2>3 DEF DevToldSoFar
  <2>4. CASE u = t
    <3>1. i = 0 => (told <=> devMine[t].phantom)
      <4>1. devMine[t].phantom => DevMatch(devMine[t].set)
        BY <2>1, <2>4 DEF DevAlone, DevMatch
      <4>2. ~devMine[t].phantom => ~DevMatch(devMine[t].set)
        BY <2>1, <2>4 DEF DevAlone
      <4>3. QED
        BY <4>1, <4>2
    <3>2. i = 0 => d = IF devMine[t].phantom THEN DevPhantom ELSE <<0>>
      BY <3>1 DEF d, DevIndex
    <3>3. i # 0 => d = <<i - 1>> /\ i - 1 < DevReal
      BY <1>2, <1>5 DEF d, DevIndex
    <3>4. i = 0 => devMine[t].phantom \/ DevReal >= 1
      BY <1>2, <1>5, <3>1 DEF DevIndex
    <3>5. Len(m) <= DevReal + 1
      BY <1>2, <1>6, <3>3
    <3>6. m[1] = IF devMine[t].phantom THEN DevPhantom ELSE <<0>>
      <4>1. CASE i = 0
        BY <1>6, <3>2, <4>1
      <4>2. CASE i # 0
        BY <1>2, <1>6, <2>1, <2>4, <4>2 DEF DevToldSoFar
      <4>3. QED
        BY <4>1, <4>2
    <3>7. devMine[t].phantom \/ DevReal >= 1
      BY <1>2, <2>1, <2>4, <3>4 DEF DevToldSoFar
    <3>8. ASSUME NEW k \in 2 .. Len(m) PROVE m[k] = <<k - 2>>
      <4>1. CASE k = i + 1
        <5>1. i # 0 /\ i - 1 = k - 2
          BY <1>2, <4>1
        <5>2. QED
          BY <1>6, <3>3, <4>1, <5>1
      <4>2. CASE k # i + 1
        <5>1. k \in 2 .. i /\ k \in 1 .. i
          BY <1>2, <1>6, <4>2
        <5>2. l[k] = <<k - 2>>
          BY <2>1, <2>4, <5>1 DEF DevToldSoFar
        <5>3. QED
          BY <1>6, <5>1, <5>2
      <4>3. QED
        BY <4>1, <4>2
    <3>9. devList'[u] = m /\ devMine'[u] = devMine[t]
      BY <1>1, <1>9, <2>4
    <3>10. DevToldSoFar(u)'
      BY <3>5, <3>6, <3>7, <3>8, <3>9 DEF DevToldSoFar
    <3>11. QED
      BY <2>2, <3>10
  <2>5. QED
    BY <2>3, <2>4
<1>11. \A u \in HookThreads : devAt[u] \in {"idle", "record"} => ~devSole[u] /\ devList'[u] = <<>>
  BY <1>1, <1>9 DEF DevIInv
<1>12. QED
  BY <1>1, <1>8, <1>10, <1>11 DEF DevIInv

(* The hook forgets a set before Windows destroys it. *)
LEMMA DevForgetHolds ==
  ASSUME DevIInv, NEW t \in HookThreads, DevForget(t)
  PROVE  DevIInv'
<1> DEFINE s == devMine[t].set
<1>1. /\ devAt[t] = "listed" /\ devAt' = [devAt EXCEPT ![t] = "destroy"]
      /\ devCur' = [c \in DevClasses |-> IF c \in devAdded /\ devCur[c] = s
                                         THEN DevNone ELSE devCur[c]]
      /\ UNCHANGED <<devAdded, devKernel, devMine, devList, devSole>>
  BY DEF DevForget
<1>2. devCur' \in [DevClasses -> DevSets \cup {DevNone}]
  BY <1>1 DEF DevIInv, DevTyped
<1>3. devAt' \in [HookThreads -> DevCalls] /\ devAt'[t] = "destroy"
      /\ \A u \in HookThreads : u # t => devAt'[u] = devAt[u]
  BY <1>1 DEF DevIInv, DevTyped, DevCalls
<1>4. DevTyped' /\ DevSetsApart'
  BY <1>1, <1>2, <1>3 DEF DevIInv, DevTyped, DevSetsApart
<1>5. ASSUME NEW u \in HookThreads, devAt'[u] = "listed", devSole[u]
      PROVE  DevAlone(u)' /\ DevToldSoFar(u)'
  <2>1. u # t /\ devAt[u] = "listed" /\ DevAlone(u) /\ DevToldSoFar(u)
    BY <1>3, <1>5 DEF DevIInv
  <2>2. devMine[u].set # s /\ devMine[u].set \in DevSets
    BY <1>1, <2>1 DEF DevIInv, DevSetsApart
  <2>3. DevAlone(u)'
    BY <1>1, <2>1, <2>2, DevNoneAssumption DEF DevAlone, DevMatch, DevIInv, DevTyped
  <2>4. QED
    BY <1>1, <2>1, <2>3 DEF DevToldSoFar
<1>6. \A u \in HookThreads : devAt'[u] \in {"idle", "record"} => ~devSole[u] /\ devList[u] = <<>>
  BY <1>3 DEF DevIInv
<1>7. QED
  BY <1>1, <1>4, <1>5, <1>6 DEF DevIInv

(* Windows takes the set back. *)
LEMMA DevDestroyHolds ==
  ASSUME DevIInv, NEW t \in HookThreads, DevDestroy(t)
  PROVE  DevIInv'
<1> DEFINE s == devMine[t].set
<1>1. /\ devAt[t] = "destroy" /\ devAt' = [devAt EXCEPT ![t] = "idle"]
      /\ devKernel' = [devKernel EXCEPT ![s] = DevNone]
      /\ devMine' = [devMine EXCEPT ![t] = DevNoSet]
      /\ devList' = [devList EXCEPT ![t] = <<>>]
      /\ devSole' = [devSole EXCEPT ![t] = FALSE]
      /\ UNCHANGED <<devCur, devAdded>>
  BY DEF DevDestroy
<1>2. /\ devAt'[t] = "idle" /\ devList'[t] = <<>> /\ devSole'[t] = FALSE
      /\ \A u \in HookThreads : u # t =>
            /\ devAt'[u] = devAt[u] /\ devMine'[u] = devMine[u]
            /\ devList'[u] = devList[u] /\ devSole'[u] = devSole[u]
  BY <1>1 DEF DevIInv, DevTyped
<1>3. DevTyped'
  <2>1. devKernel' \in [DevSets -> DevKinds \cup {DevNone}] /\ devAt' \in [HookThreads -> DevCalls]
    BY <1>1 DEF DevIInv, DevTyped, DevCalls
  <2>2. devMine' \in [HookThreads -> [set : DevSets \cup {DevNone},
                                      class : DevKinds \cup {DevNone}, phantom : BOOLEAN]]
    <3>1. DevNoSet \in [set : DevSets \cup {DevNone}, class : DevKinds \cup {DevNone},
                        phantom : BOOLEAN]
      BY DEF DevNoSet
    <3>2. QED
      BY <1>1, <3>1 DEF DevIInv, DevTyped
  <2>3. devList' \in [HookThreads -> Seq(Seq(Nat))]
    BY <1>1 DEF DevIInv, DevTyped
  <2>4. devSole' \in [HookThreads -> BOOLEAN]
    BY <1>1 DEF DevIInv, DevTyped
  <2>5. QED
    BY <1>1, <2>1, <2>2, <2>3, <2>4 DEF DevIInv, DevTyped
<1>4. \A u \in HookThreads : u # t /\ devAt[u] # "idle" =>
         devMine[u].set # s /\ devKernel'[devMine[u].set] = devKernel[devMine[u].set]
  BY <1>1 DEF DevIInv, DevTyped, DevSetsApart
<1>5. DevSetsApart'
  BY <1>2, <1>4 DEF DevIInv, DevSetsApart
<1>6. ASSUME NEW u \in HookThreads, devAt'[u] = "listed", devSole'[u]
      PROVE  DevAlone(u)' /\ DevToldSoFar(u)'
  <2>1. u # t /\ DevAlone(u) /\ DevToldSoFar(u)
    BY <1>2, <1>6 DEF DevIInv
  <2>2. QED
    BY <1>1, <1>2, <2>1 DEF DevAlone, DevMatch, DevToldSoFar
<1>7. \A u \in HookThreads : devAt'[u] \in {"idle", "record"} => ~devSole'[u] /\ devList'[u] = <<>>
  BY <1>2 DEF DevIInv
<1>8. QED
  BY <1>3, <1>5, <1>6, <1>7 DEF DevIInv

(* Every step of the hook tables keeps it. *)
LEMMA DevStepHolds == DevIInv /\ [HookNext]_hookVars => DevIInv'
<1> SUFFICES ASSUME DevIInv, [HookNext]_hookVars PROVE DevIInv'
  OBVIOUS
<1>1. CASE UNCHANGED devVars
  BY <1>1 DEF devVars, DevIInv, DevTyped, DevSetsApart, DevAlone, DevToldSoFar, DevMatch
<1>2. LibNext => UNCHANGED devVars
  BY DEF LibNext, LibPush, LibLoad, LibFree, LibFreeNext
<1>3. CASE DevNext
  <2>1. ASSUME NEW t \in HookThreads, NEW c \in DevClasses \cup DevOthers, DevGetClass(t, c)
        PROVE  DevIInv'
    BY <2>1, DevGetClassHolds DEF DevKinds
  <2>2. QED
    BY <1>3, <2>1, DevAddHolds, DevRecordHolds, DevEnumHolds, DevForgetHolds,
       DevDestroyHolds
       DEF DevNext
<1>4. QED
  BY <1>1, <1>2, <1>3 DEF HookNext, hookVars

(* It says that a list that is done has every device. *)
LEMMA DevIInvLists == DevIInv => DevListsDevices
<1> SUFFICES ASSUME DevIInv, NEW t \in HookThreads, devSole[t], DevListEnds(t)
             PROVE  IF devMine[t].phantom
                    THEN /\ devList[t] = <<DevPhantom>> \o [i \in 1 .. DevReal |-> <<i - 1>>]
                         /\ DevDetail(t)
                    ELSE {devList[t][i] : i \in DOMAIN devList[t]}
                            = {<<i>> : i \in 0 .. DevReal - 1}
  BY DEF DevListsDevices
<1> DEFINE l == devList[t]
<1>1. l \in Seq(Seq(Nat)) /\ DevReal \in Nat
  BY HookNumbersAssumption DEF DevIInv, DevTyped
<1>2. DevAlone(t) /\ DevToldSoFar(t)
  BY DEF DevListEnds, DevIInv
<1>3. DevIndex(Len(l)) >= DevReal /\ ~(Len(l) = 0 /\ DevMatch(devMine[t].set))
  BY DEF DevListEnds
<1>4. Len(l) <= DevReal + 1 /\ \A k \in 2 .. Len(l) : l[k] = <<k - 2>>
  BY <1>2 DEF DevToldSoFar
<1>5. Len(l) # 0 => Len(l) = DevReal + 1
  BY <1>1, <1>3, <1>4 DEF DevIndex
<1>6. CASE devMine[t].phantom
  <2>1. /\ devMine[t].class \in devAdded /\ devCur[devMine[t].class] = devMine[t].set
    BY <1>2, <1>6 DEF DevAlone
  <2>2. DevDetail(t) /\ Len(l) # 0
    BY <1>3, <2>1 DEF DevDetail, DevMatch
  <2>3. Len(l) = DevReal + 1 /\ l[1] = DevPhantom
    BY <1>1, <1>2, <1>5, <1>6, <2>2 DEF DevToldSoFar
  <2> DEFINE r == [i \in 1 .. DevReal |-> <<i - 1>>]
             w == <<DevPhantom>> \o r
  <2>4. r \in Seq(Seq(Nat)) /\ Len(r) = DevReal
    BY <1>1
  <2>5. \A i \in 1 .. DevReal : r[i] = <<i - 1>>
    OBVIOUS
  <2> HIDE DEF r
  <2>6. <<DevPhantom>> \in Seq(Seq(Nat)) /\ Len(<<DevPhantom>>) = 1
    BY DEF DevPhantom
  <2>7. w \in Seq(Seq(Nat)) /\ Len(w) = DevReal + 1 /\ w[1] = DevPhantom
    BY <1>1, <2>4, <2>6
  <2>8. \A k \in 2 .. DevReal + 1 : w[k] = r[k - 1] /\ k - 1 \in 1 .. DevReal
    BY <1>1, <2>4, <2>6
  <2> HIDE DEF w
  <2>9. ASSUME NEW k \in 1 .. DevReal + 1 PROVE w[k] = l[k]
    <3>1. CASE k = 1
      BY <2>3, <2>7, <3>1
    <3>2. CASE k # 1
      <4>1. k \in 2 .. DevReal + 1 /\ k - 1 \in 1 .. DevReal /\ (k - 1) - 1 = k - 2
        BY <1>1, <3>2
      <4>2. w[k] = <<k - 2>>
        BY <2>5, <2>8, <4>1
      <4>3. QED
        BY <1>4, <2>3, <4>1, <4>2
    <3>3. QED
      BY <3>1, <3>2
  <2>10. w = [k \in 1 .. DevReal + 1 |-> w[k]] /\ l = [k \in 1 .. DevReal + 1 |-> l[k]]
    <3>1. \A q \in Seq(Seq(Nat)) : q = [k \in 1 .. Len(q) |-> q[k]]
      OBVIOUS
    <3>2. QED
      BY <1>1, <2>3, <2>7, <3>1
  <2>11. w = l
    BY <2>9, <2>10
  <2>12. QED
    BY <1>6, <2>2, <2>11 DEF w, r
<1>7. CASE ~devMine[t].phantom
  <2>1. CASE Len(l) = 0
    <3>1. DevReal = 0 /\ DOMAIN l = {}
      BY <1>1, <1>3, <2>1 DEF DevIndex
    <3>2. 0 .. DevReal - 1 = {}
      BY <3>1
    <3>3. QED
      BY <1>7, <3>1, <3>2
  <2>2. CASE Len(l) # 0
    <3>1. /\ Len(l) = DevReal + 1 /\ DevReal >= 1 /\ l[1] = <<0>>
          /\ DOMAIN l = 1 .. DevReal + 1
      BY <1>1, <1>2, <1>5, <1>7, <2>2 DEF DevToldSoFar
    <3>2. ASSUME NEW k \in DOMAIN l PROVE \E i \in 0 .. DevReal - 1 : l[k] = <<i>>
      <4>1. CASE k = 1
        <5>1. 0 \in 0 .. DevReal - 1 /\ l[k] = <<0>>
          BY <1>1, <3>1, <4>1
        <5>2. QED
          BY <5>1
      <4>2. CASE k # 1
        <5>1. k \in 2 .. Len(l) /\ k - 2 \in 0 .. DevReal - 1
          BY <1>1, <3>1, <4>2
        <5>2. QED
          BY <1>4, <5>1
      <4>3. QED
        BY <4>1, <4>2
    <3>3. ASSUME NEW i \in 0 .. DevReal - 1 PROVE \E k \in DOMAIN l : l[k] = <<i>>
      <4>1. i + 2 \in 2 .. Len(l) /\ i + 2 \in DOMAIN l /\ (i + 2) - 2 = i
        BY <1>1, <3>1
      <4>2. l[i + 2] = <<i>>
        BY <1>4, <4>1
      <4>3. QED
        BY <4>1, <4>2
    <3>4. {l[k] : k \in DOMAIN l} = {<<i>> : i \in 0 .. DevReal - 1}
      BY <3>2, <3>3
    <3>5. QED
      BY <1>7, <3>4
  <2>3. QED
    BY <2>1, <2>2
<1>8. QED
  BY <1>6, <1>7

(* hooklib/setupapi.c: a set belongs to one thread and to one class until it
   is destroyed.                                                           *)
THEOREM DevInvariance == HookSpec => []DevIInv
  BY DevInitIInv, DevStepHolds, PTL DEF HookSpec, HookInit

(* hooklib/setupapi.c: a thread that is alone with its set finds the made-up
   device of its class first, if there is one, and then each real one, for
   any number of classes, sets and threads.                                *)
THEOREM DevsAreListed == HookSpec => []DevListsDevices
  BY DevInvariance, DevIInvLists, PTL

-----------------------------------------------------------------------------
(* Graphics: what the game reaches is there, and its objects are counted. *)

(* What the game links to, its hook knows; what the hook has found is there. *)
GfxLinksInv ==
    /\ gfxHook \in {"hooklib", "d3d9", "d3d11", "dxgi"}
    /\ gfxTried /\ gfxConfig.enable => GfxLinked \subseteq gfxNext
    /\ gfxPushed => \/ gfxLoaded /\ GfxRequired \subseteq gfxNext
                    \/ ~GfxMustLoad
    /\ ~gfxTried => ~gfxPushed

(* It holds when nothing is hooked. *)
LEMMA GfxLinksInit == GfxInit => GfxLinksInv
  BY GfxHooksAssumption DEF GfxInit, GfxLinksInv

(* Every step of the graphics hooks keeps it. *)
LEMMA GfxLinksStep == GfxLinksInv /\ [GfxNext]_gfxVars => GfxLinksInv'
<1> SUFFICES ASSUME GfxLinksInv, [GfxNext]_gfxVars PROVE GfxLinksInv'
  OBVIOUS
<1>1. UNCHANGED gfxFixed
  BY DEF GfxNext, GfxHookInit, GfxExhook, GfxWrap, GfxCreateBoth, GfxRelease, GfxCreate,
         GfxCreateDevice, gfxVars
<1>2. /\ GfxFunctions' = GfxFunctions /\ GfxRequired' = GfxRequired
      /\ GfxLinked' = GfxLinked /\ GfxMustLoad' = GfxMustLoad
      /\ gfxHook' = gfxHook /\ gfxConfig' = gfxConfig
  BY <1>1 DEF gfxFixed, GfxFunctions, GfxRequired, GfxLinked, GfxMustLoad
<1>3. CASE GfxHookInit
  BY <1>2, <1>3 DEF GfxHookInit, GfxInstalls, GfxGivesUp, GfxLinksInv
<1>4. CASE UNCHANGED gfxLinks
  BY <1>2, <1>4 DEF gfxLinks, GfxLinksInv
<1>5. QED
  BY <1>3, <1>4 DEF GfxNext, GfxExhook, GfxWrap, GfxCreateBoth, GfxRelease, GfxCreate,
         GfxCreateDevice, gfxVars

(* It says that what the game reaches leads to the system. *)
LEMMA GfxLinksLead == GfxLinksInv => GfxHooksLead
<1> SUFFICES ASSUME GfxLinksInv, NEW f \in GfxFunctions, GfxReaches(f)
             PROVE  /\ GfxForward(f) \in gfxNext \/ (gfxHook = "hooklib" /\ f = "Direct3DCreate9Ex")
                    /\ gfxLoaded \/ GfxLinked # {}
  BY DEF GfxHooksLead
<1>1. gfxConfig.enable /\ gfxTried
  BY DEF GfxReaches
<1>2. CASE f \in gfxImports
  <2>1. f \in GfxLinked /\ f \in gfxNext
    BY <1>1, <1>2 DEF GfxLinksInv, GfxLinked
  <2>2. QED
    BY <2>1 DEF GfxForward
<1>3. CASE gfxPushed
  <2>1. CASE gfxLoaded /\ GfxRequired \subseteq gfxNext
    <3>1. f \in GfxRequired \/ (f = "CreateDXGIFactory2" /\ "CreateDXGIFactory1" \in GfxRequired)
      BY DEF GfxRequired, GfxFunctions
    <3>2. QED
      BY <2>1, <3>1 DEF GfxForward
  <2>2. CASE ~GfxMustLoad /\ gfxHook = "hooklib"
    <3>1. "Direct3DCreate9" \in GfxLinked /\ f \in {"Direct3DCreate9", "Direct3DCreate9Ex"}
      BY <2>2 DEF GfxMustLoad, GfxLinked, GfxFunctions
    <3>2. QED
      BY <1>1, <2>2, <3>1 DEF GfxForward, GfxLinksInv
  <2>3. CASE ~GfxMustLoad /\ gfxHook # "hooklib"
    <3>1. GfxRequired \subseteq GfxLinked
      BY <2>3 DEF GfxMustLoad, GfxLinked, GfxRequired
    <3>2. f \in GfxRequired \/ (f = "CreateDXGIFactory2" /\ "CreateDXGIFactory1" \in GfxRequired)
      BY DEF GfxRequired, GfxFunctions
    <3>3. QED
      BY <1>1, <3>1, <3>2 DEF GfxForward, GfxLinksInv
  <2>4. QED
    BY <1>3, <2>1, <2>2, <2>3 DEF GfxLinksInv
<1>4. QED
  BY <1>2, <1>3 DEF GfxReaches

(* gfxhook/: a hook that is in place has found what it was to find. *)
THEOREM GfxLinksInvariance == GfxSpec => []GfxLinksInv
  BY GfxLinksInit, GfxLinksStep, PTL DEF GfxSpec

(* gfxhook/: a graphics function that the game reaches through a hook, whether
   it links to it or asks for it by name, has the system's behind it.      *)
THEOREM GfxFindsFunctions == GfxSpec => []GfxHooksLead
  BY GfxLinksInvariance, GfxLinksLead, PTL

(* The object and its device *)
GfxCallInv ==
    /\ gfxRefs \in Nat
    /\ gfxCall = [at |-> gfxCall.at, riid |-> gfxCall.riid]
    /\ gfxCall.at \in {"idle", "made"}
    /\ gfxCall.riid \in {"none", "d3d9", "d3d9ex", "patched", "factory", "factory1",
                         "factory2", "newer"}
    /\ gfxHeld \in {"none", "real", "proxy"}
    /\ gfxCall.at = "made" => /\ gfxRefs = 1 /\ gfxHeld = "none" /\ gfxDevice = "none"
                            /\ gfxCall.riid # "none"
    /\ gfxHeld = "real" => gfxCall.riid \in {"patched", "newer"}
    /\ gfxHeld = "proxy" => gfxCall.riid # "patched"
    /\ gfxDevice = "none" => gfxBy = "none"
    /\ gfxHook = "d3d11" => gfxCall = GfxNoCall
    /\ GfxObjectsKept

(* It holds when there is no object. *)
LEMMA GfxCallInit == GfxInit => GfxCallInv
  BY DEF GfxInit, GfxNoCall, GfxCallInv, GfxObjectsKept, GfxObeys

(* Every step of the graphics hooks keeps it. *)
LEMMA GfxCallStep == GfxCallInv /\ [GfxNext]_gfxVars => GfxCallInv'
<1> SUFFICES ASSUME GfxCallInv, [GfxNext]_gfxVars PROVE GfxCallInv'
  OBVIOUS
<1>1. gfxConfig' = gfxConfig /\ gfxHook' = gfxHook
  BY DEF GfxNext, GfxHookInit, GfxExhook, GfxWrap, GfxCreateBoth, GfxRelease, GfxCreate,
         GfxCreateDevice, gfxVars, gfxFixed
<1>2. CASE UNCHANGED <<gfxOriginal, gfxCall, gfxHeld, gfxRefs, gfxDevice, gfxBy>>
  BY <1>1, <1>2 DEF GfxCallInv, GfxObjectsKept, GfxObeys
<1>3. CASE GfxExhook
  <2>1. /\ gfxCall = [at |-> "made", riid |-> "patched"]
        /\ gfxCall' = [at |-> "idle", riid |-> "patched"]
        /\ gfxHeld' = "real" /\ UNCHANGED <<gfxRefs, gfxDevice, gfxBy>>
    BY <1>3 DEF GfxExhook
  <2>2. gfxRefs = 1 /\ gfxDevice = "none" /\ gfxHook # "d3d11"
    BY <2>1 DEF GfxNoCall, GfxCallInv
  <2>3. QED
    BY <1>1, <2>1, <2>2 DEF GfxCallInv, GfxObjectsKept, GfxObeys
<1>4. CASE GfxWrap
  <2> DEFINE riid == gfxCall.riid
  <2>1. /\ gfxCall.at = "made" /\ riid # "patched"
        /\ UNCHANGED <<gfxConfig, gfxHook, gfxOriginal, gfxDevice, gfxBy>>
        /\ gfxRefs = 1 /\ gfxDevice = "none" /\ gfxHeld = "none"
    BY <1>1, <1>4 DEF GfxWrap, GfxCallInv
  <2>2. CASE /\ gfxHeld' = IF GfxWrapped(riid) THEN "proxy" ELSE "real"
             /\ gfxCall' = [gfxCall EXCEPT !.at = "idle"] /\ gfxRefs' = gfxRefs
    <3>1. gfxCall' = [at |-> "idle", riid |-> riid]
      BY <2>2 DEF GfxCallInv
    <3>2. gfxHeld' \in {"proxy", "real"} /\ (gfxHeld' = "real" => riid \in {"patched", "newer"})
      BY <2>1, <2>2 DEF GfxWrapped, GfxCallInv
    <3>3. gfxHook # "d3d11"
      BY <2>1 DEF GfxNoCall, GfxCallInv
    <3>4. QED
      BY <1>1, <2>1, <2>2, <3>1, <3>2, <3>3 DEF GfxCallInv, GfxObjectsKept, GfxObeys
  <2>3. CASE /\ GfxWrapped(riid) /\ gfxRefs' = GfxReleased
             /\ gfxCall' = GfxNoCall /\ gfxHeld' = gfxHeld
    BY <2>1, <2>3 DEF GfxReleased, GfxNoCall, GfxCallInv, GfxObjectsKept, GfxObeys
  <2>4. QED
    BY <1>4, <2>2, <2>3 DEF GfxWrap
<1>5. CASE GfxCreateBoth
  <2>1. gfxHook = "d3d11"
    BY <1>5 DEF GfxCreateBoth, GfxReaches, GfxFunctions
  <2>2. gfxDevice' = GfxSwapChain /\ gfxBy' = "D3D11CreateDeviceAndSwapChain"
        /\ UNCHANGED <<gfxOriginal, gfxCall, gfxHeld, gfxRefs>>
    BY <1>5 DEF GfxCreateBoth
  <2>3. gfxCall = GfxNoCall
    BY <2>1 DEF GfxCallInv
  <2>4. QED
    BY <1>1, <2>2, <2>3 DEF GfxSwapChain, GfxNoCall, GfxCallInv, GfxObjectsKept, GfxObeys
<1>6. CASE GfxRelease
  BY <1>1, <1>6 DEF GfxRelease, GfxNoCall, GfxCallInv, GfxObjectsKept, GfxObeys
<1>7. ASSUME NEW f \in GfxFunctions, GfxCreate(f) PROVE GfxCallInv'
  BY <1>1, <1>7 DEF GfxCreate, GfxInterfaces, GfxNoCall, GfxCallInv, GfxObjectsKept
<1>8. ASSUME NEW method \in GfxMethods(gfxCall.riid), NEW asked \in {"window", "screen"},
             GfxCreateDevice(method, asked)
      PROVE  GfxCallInv'
  <2>1. /\ gfxCall.at = "idle" /\ gfxHeld \in {"real", "proxy"}
        /\ gfxDevice' = GfxMode(method, asked) /\ gfxBy' = method
        /\ UNCHANGED <<gfxOriginal, gfxCall, gfxHeld, gfxRefs>>
    BY <1>8 DEF GfxCreateDevice, GfxCallInv
  <2>2. gfxDevice' # "none"
    BY <1>8, <2>1 DEF GfxMode, GfxParameters, GfxSwapChain
  <2>3. ASSUME gfxConfig.windowed, GfxObeys(gfxCall.riid, method)
        PROVE  gfxDevice' = "window" \/ gfxOriginal = "override"
    <3>1. method \in GfxReplaced
      BY <1>8, <2>1, <2>3 DEF GfxObeys, GfxMethods, GfxReplaced, GfxCallInv
    <3>2. QED
      BY <2>1, <2>3, <3>1 DEF GfxMode, GfxParameters, GfxSwapChain
  <2>4. QED
    BY <1>1, <2>1, <2>2, <2>3 DEF GfxCallInv, GfxObjectsKept
<1>9. QED
  BY <1>2, <1>3, <1>4, <1>5, <1>6, <1>7, <1>8 DEF GfxNext, GfxHookInit, gfxVars

(* gfxhook/d3d9.c and gfxhook/dxgi.c: an object is counted for each pointer
   that the game has of it, and the device is made as configured, through
   whichever of the functions it was made.                                 *)
THEOREM GfxKeepsObjects == GfxSpec => []GfxObjectsKept
<1>1. GfxSpec => []GfxCallInv
  BY GfxCallInit, GfxCallStep, PTL DEF GfxSpec
<1>2. GfxCallInv => GfxObjectsKept
  BY DEF GfxCallInv
<1>3. QED
  BY <1>1, <1>2, PTL

-----------------------------------------------------------------------------
(* Start-up: what a game calls has been bound, and stays loaded. *)

(* The library whose functions each device calls *)
StartLibOf ==
    [sg_reader |-> "aime_dll", carol_jvs |-> "carol_dll", carol_touch |-> "carol_dll",
     controlbd |-> "carol_dll", chuni_jvs |-> "chuni_dll", chuni_slider |-> "chuni_dll",
     chusan_io4 |-> "chusan_dll", chusan_slider |-> "chusan_dll",
     diva_jvs |-> "diva_dll", diva_slider |-> "diva_dll", fgo_io4 |-> "fgo_dll",
     idz_jvs |-> "idz_dll", mu3_io4 |-> "mu3_dll"]

(* The devices that call a library at all *)
StartUsers == DOMAIN StartLibOf

(* The libraries that a game can have *)
LEMMA StartLibrariesAre ==
  StartLibraries = {"aime_dll", "carol_dll", "chuni_dll", "chusan_dll", "diva_dll", "fgo_dll",
                    "idz_dll", "mu3_dll"}
  BY DEF StartLibraries, StartFunctions

(* Every other part calls no library. *)
LEMMA StartQuietParts ==
  \A p \in DOMAIN StartParts : p \notin StartUsers => StartParts[p].uses = {}
<1>1. \A ops : StartPart(ops).uses = {}
  BY DEF StartPart
<1>2. /\ StartAmVideo.uses = {} /\ StartClock.uses = {} /\ StartDns.uses = {}
      /\ StartHwMon.uses = {} /\ StartHwReset.uses = {} /\ StartMisc.uses = {}
      /\ StartNetEnv.uses = {} /\ StartNuSec.uses = {} /\ StartPcbId.uses = {}
      /\ StartVfs.uses = {} /\ StartDs.uses = {} /\ StartEeprom.uses = {}
      /\ StartGpio.uses = {} /\ StartJvs.uses = {} /\ StartSram.uses = {}
      /\ StartIo4.uses = {} /\ StartVfd.uses = {} /\ StartLed.uses = {}
      /\ StartRfid.uses = {} /\ StartSerial.uses = {} /\ StartApi.uses = {}
      /\ StartCommIo.uses = {} /\ StartKeychip.uses = {} /\ StartNamcoJvs.uses = {}
      /\ StartStrPcb.uses = {} /\ StartPrinter.uses = {} /\ StartPrinterStd.uses = {}
      /\ StartBngRw.uses = {}
      /\ StartTouch.uses = {}
  BY <1>1 DEF StartAmVideo, StartClock, StartDns, StartHwMon, StartHwReset, StartMisc,
             StartNetEnv, StartNuSec, StartPcbId, StartVfs, StartDs, StartEeprom,
             StartGpio, StartJvs, StartSram, StartIo4, StartVfd, StartLed, StartRfid,
             StartSerial, StartApi, StartCommIo, StartKeychip, StartNamcoJvs, StartStrPcb,
             StartBngRw, StartPrinter, StartPrinterStd, StartTouch
<1>3. StartBindDll.uses = {}
  BY <1>1 DEF StartBindDll
<1>4. QED
  BY <1>2, <1>3 DEF StartParts, StartUsers, StartLibOf

(* A device calls the functions of the one library that it belongs to. *)
LEMMA StartUsersCall ==
  \A p \in StartUsers : StartParts[p].uses \subseteq StartFunctions[StartLibOf[p]]
  BY DEF StartParts, StartUsers, StartLibOf, StartFunctions, StartSgReader, StartCarolJvs,
         StartCarolTouch, StartControlBd, StartChuniJvs, StartChuniSlider, StartChusanIo4,
         StartChusanSlider, StartDivaJvs, StartDivaSlider, StartFgoIo4, StartIdzJvs,
         StartMu3Io4, StartAimeDll, StartCarolDll, StartChuniDll, StartChusanDll,
         StartDivaDll, StartFgoDll, StartIdzDll, StartMu3Dll

(* A library is loaded, asked for its version and bound. *)
LEMMA StartDllOps == \A l \in StartLibraries : StartParts[l].ops = <<"load", "version", "bind">>
  BY StartLibrariesAre DEF StartParts, StartBindDll, StartPart

(* No two libraries have a function in common. *)
LEMMA StartDllsApart ==
  \A k, l \in StartLibraries : k # l => StartFunctions[k] \cap StartFunctions[l] = {}
  BY StartLibrariesAre
     DEF StartFunctions, StartAimeDll, StartCarolDll, StartChuniDll, StartChusanDll,
              StartDivaDll, StartFgoDll, StartIdzDll, StartMu3Dll

(* A sequence of parts that starts with the libraries of L and ends with
   those of M: each is bound once, and before the devices that call it.    *)
StartBinds(s, L, M) ==
    /\ s \in Seq(DOMAIN StartParts)
    /\ M = L \cup {l \in StartLibraries : \E i \in 1 .. Len(s) : s[i] = l}
    /\ \A i \in 1 .. Len(s) :
          /\ s[i] \in StartLibraries => s[i] \notin L /\ \A j \in 1 .. i - 1 : s[j] # s[i]
          /\ s[i] \in StartUsers =>
                StartLibOf[s[i]] \in L \/ \E j \in 1 .. i - 1 : s[j] = StartLibOf[s[i]]

(* What a game's list may hold: a part, and what its failure does *)
StartEntries == (DOMAIN StartParts) \X {"go", "exit", "return"}

(* A list in which the failure of a library always ends the start *)
StartStrict(s) ==
    /\ s \in Seq(StartEntries)
    /\ \A i \in 1 .. Len(s) : s[i][1] \in StartLibraries => s[i][2] # "go"

(* The parts of a list *)
StartNames(s) == [i \in 1 .. Len(s) |-> s[i][1]]

(* Two such sequences, one after the other, are one. *)
LEMMA StartThen ==
  ASSUME NEW s, NEW t, NEW L, NEW M, NEW N, StartBinds(s, L, M), StartBinds(t, M, N)
  PROVE  StartBinds(s \o t, L, N)
<1>1. /\ s \in Seq(DOMAIN StartParts) /\ t \in Seq(DOMAIN StartParts)
      /\ Len(s) \in Nat /\ Len(t) \in Nat
  BY DEF StartBinds
<1>2. /\ s \o t \in Seq(DOMAIN StartParts)
      /\ Len(s \o t) = Len(s) + Len(t)
      /\ \A i \in 1 .. Len(s) : (s \o t)[i] = s[i]
      /\ \A i \in 1 .. Len(t) : (s \o t)[Len(s) + i] = t[i]
  BY <1>1
<1>3. \A i \in 1 .. Len(s \o t) : i \in 1 .. Len(s) \/ \E k \in 1 .. Len(t) : i = Len(s) + k
  <2> SUFFICES ASSUME NEW i \in 1 .. Len(s \o t), i \notin 1 .. Len(s)
               PROVE  \E k \in 1 .. Len(t) : i = Len(s) + k
    OBVIOUS
  <2>1. i - Len(s) \in 1 .. Len(t) /\ i = Len(s) + (i - Len(s))
    BY <1>1, <1>2
  <2>2. QED
    BY <2>1
<1>4. /\ \A i \in 1 .. Len(s) : i \in 1 .. Len(s \o t)
      /\ \A k \in 1 .. Len(t) : Len(s) + k \in 1 .. Len(s \o t)
  BY <1>1, <1>2
<1>5. N = L \cup {l \in StartLibraries : \E i \in 1 .. Len(s \o t) : (s \o t)[i] = l}
  <2>1. \A l : (\E i \in 1 .. Len(s \o t) : (s \o t)[i] = l)
            <=> (\E i \in 1 .. Len(s) : s[i] = l) \/ (\E i \in 1 .. Len(t) : t[i] = l)
    BY <1>2, <1>3, <1>4
  <2>2. QED
    BY <2>1 DEF StartBinds
<1>6. ASSUME NEW i \in 1 .. Len(s)
      PROVE  /\ s[i] \in StartLibraries => s[i] \notin L /\ \A j \in 1 .. i - 1 : (s \o t)[j] # s[i]
             /\ s[i] \in StartUsers =>
                   StartLibOf[s[i]] \in L \/ \E j \in 1 .. i - 1 : (s \o t)[j] = StartLibOf[s[i]]
  <2>1. \A j \in 1 .. i - 1 : (s \o t)[j] = s[j]
    BY <1>1, <1>2
  <2>2. QED
    BY <2>1 DEF StartBinds
<1>7. ASSUME NEW k \in 1 .. Len(t)
      PROVE  /\ t[k] \in StartLibraries =>
                   t[k] \notin L /\ \A j \in 1 .. (Len(s) + k) - 1 : (s \o t)[j] # t[k]
             /\ t[k] \in StartUsers =>
                   \/ StartLibOf[t[k]] \in L
                   \/ \E j \in 1 .. (Len(s) + k) - 1 : (s \o t)[j] = StartLibOf[t[k]]
  <2>1. \A j \in 1 .. (Len(s) + k) - 1 :
           j \in 1 .. Len(s) \/ \E h \in 1 .. k - 1 : j = Len(s) + h
    <3> SUFFICES ASSUME NEW j \in 1 .. (Len(s) + k) - 1, j \notin 1 .. Len(s)
                 PROVE  \E h \in 1 .. k - 1 : j = Len(s) + h
      OBVIOUS
    <3>1. j - Len(s) \in 1 .. k - 1 /\ j = Len(s) + (j - Len(s))
      BY <1>1
    <3>2. QED
      BY <3>1
  <2>2. \A h \in 1 .. k - 1 : h \in 1 .. Len(t) /\ Len(s) + h \in 1 .. (Len(s) + k) - 1
    BY <1>1
  <2>3. \A j \in 1 .. Len(s) : j \in 1 .. (Len(s) + k) - 1
    BY <1>1
  <2>4. ASSUME t[k] \in StartLibraries
        PROVE  t[k] \notin L /\ \A j \in 1 .. (Len(s) + k) - 1 : (s \o t)[j] # t[k]
    <3>1. t[k] \notin M /\ \A h \in 1 .. k - 1 : t[h] # t[k]
      BY <2>4 DEF StartBinds
    <3>2. t[k] \notin L /\ \A j \in 1 .. Len(s) : s[j] # t[k]
      BY <2>4, <3>1 DEF StartBinds
    <3>3. QED
      BY <1>2, <2>1, <2>2, <3>1, <3>2
  <2>5. ASSUME t[k] \in StartUsers
        PROVE  \/ StartLibOf[t[k]] \in L
               \/ \E j \in 1 .. (Len(s) + k) - 1 : (s \o t)[j] = StartLibOf[t[k]]
    <3>1. CASE StartLibOf[t[k]] \in M
      <4>1. StartLibOf[t[k]] \in L \/ \E j \in 1 .. Len(s) : s[j] = StartLibOf[t[k]]
        BY <3>1 DEF StartBinds
      <4>2. QED
        BY <1>2, <2>3, <4>1
    <3>2. CASE \E h \in 1 .. k - 1 : t[h] = StartLibOf[t[k]]
      BY <1>2, <2>2, <3>2
    <3>3. QED
      BY <2>5, <3>1, <3>2 DEF StartBinds
  <2>6. QED
    BY <2>4, <2>5
<1>8. ASSUME NEW i \in 1 .. Len(s \o t)
      PROVE  /\ (s \o t)[i] \in StartLibraries =>
                   (s \o t)[i] \notin L /\ \A j \in 1 .. i - 1 : (s \o t)[j] # (s \o t)[i]
             /\ (s \o t)[i] \in StartUsers =>
                   \/ StartLibOf[(s \o t)[i]] \in L
                   \/ \E j \in 1 .. i - 1 : (s \o t)[j] = StartLibOf[(s \o t)[i]]
  <2>1. CASE i \in 1 .. Len(s)
    BY <1>2, <1>6, <2>1
  <2>2. CASE \E k \in 1 .. Len(t) : i = Len(s) + k
    <3>1. PICK k \in 1 .. Len(t) : i = Len(s) + k
      BY <2>2
    <3>2. (s \o t)[i] = t[k]
      BY <1>2, <3>1
    <3>3. QED
      BY <1>7, <3>1, <3>2
  <2>3. QED
    BY <1>3, <2>1, <2>2
<1>9. QED
  BY <1>2, <1>5, <1>8 DEF StartBinds

(* A sequence of parts none of which is a library or calls one *)
StartQuiet(s) ==
    /\ s \in Seq(DOMAIN StartParts)
    /\ \A i \in 1 .. Len(s) : s[i] \notin StartLibraries \cup StartUsers

(* It leaves the libraries as they are. *)
LEMMA StartQuietBinds ==
  ASSUME NEW s, NEW L, StartQuiet(s)
  PROVE  StartBinds(s, L, L)
  BY DEF StartQuiet, StartBinds

(* The platform's parts are such a sequence. *)
LEMMA StartPlatformQuiet == StartQuiet(StartPlatform)
<1>1. \A i \in 1 .. 10 : StartPlatform[i] \in DOMAIN StartParts \ (StartLibraries \cup StartUsers)
  BY StartLibrariesAre DEF StartPlatform, StartParts, StartUsers, StartLibOf
<1>2. QED
  BY <1>1 DEF StartPlatform, StartQuiet

(* A game's list that is strict and whose parts are in order *)
StartOrdered(s, L, M) == StartStrict(s) /\ StartBinds(StartNames(s), L, M)

(* Parts in order make such a list, all with one reaction to a failure, which
   is to go on only if they are quiet.                                     *)
LEMMA StartAllOrdered ==
  ASSUME NEW p, NEW L, NEW M, NEW f \in {"go", "exit", "return"},
         StartBinds(p, L, M), f # "go" \/ StartQuiet(p)
  PROVE  StartOrdered(StartAll(p, f), L, M)
<1>1. p \in Seq(DOMAIN StartParts) /\ Len(p) \in Nat
  BY DEF StartBinds
<1>2. /\ StartAll(p, f) \in Seq(StartEntries)
      /\ Len(StartAll(p, f)) = Len(p)
      /\ \A i \in 1 .. Len(p) : StartAll(p, f)[i] = <<p[i], f>>
  <2> DEFINE D == DOMAIN StartParts
             R == {"go", "exit", "return"}
             g(i) == <<p[i], f>>
  <2>1. StartEntries = D \X R
    BY DEF StartEntries
  <2>2. p \in Seq(D) /\ f \in R /\ Len(p) \in Nat
    BY <1>1
  <2> HIDE DEF D, R
  <2>3. \A i \in 1 .. Len(p) : g(i) \in D \X R
    BY <2>2
  <2>4. StartAll(p, f) = [i \in 1 .. Len(p) |-> g(i)]
    BY DEF StartAll
  <2> HIDE DEF g
  <2>5. /\ StartAll(p, f) \in Seq(D \X R) /\ Len(StartAll(p, f)) = Len(p)
        /\ \A i \in 1 .. Len(p) : StartAll(p, f)[i] = g(i)
    BY <2>2, <2>3, <2>4
  <2>6. QED
    BY <2>5, <2>1 DEF g
<1>3. StartNames(StartAll(p, f)) = p
  <2>1. p = [i \in 1 .. Len(p) |-> p[i]]
    BY <1>1
  <2>2. QED
    BY <1>2, <2>1 DEF StartNames
<1>4. StartStrict(StartAll(p, f))
  BY <1>1, <1>2 DEF StartStrict, StartQuiet
<1>5. QED
  BY <1>3, <1>4 DEF StartOrdered

(* The parts of a list are parts. *)
LEMMA StartNamesSeq ==
  ASSUME NEW s \in Seq(StartEntries)
  PROVE  /\ StartNames(s) \in Seq(DOMAIN StartParts) /\ Len(StartNames(s)) = Len(s)
         /\ \A i \in 1 .. Len(s) : StartNames(s)[i] = s[i][1]
<1> DEFINE D == DOMAIN StartParts
           R == {"go", "exit", "return"}
<1>1. s \in Seq(D \X R)
  BY DEF StartEntries
<1> HIDE DEF D, R
<1>2. Len(s) \in Nat /\ \A i \in 1 .. Len(s) : s[i] \in D \X R
  BY <1>1
<1>3. \A i \in 1 .. Len(s) : s[i][1] \in D
  BY <1>2
<1>4. StartNames(s) \in Seq(D) /\ Len(StartNames(s)) = Len(s)
      /\ \A i \in 1 .. Len(s) : StartNames(s)[i] = s[i][1]
  BY <1>2, <1>3 DEF StartNames
<1>5. QED
  BY <1>4 DEF D

(* Two such lists, one after the other, are one. *)
LEMMA StartOrderedThen ==
  ASSUME NEW s, NEW t, NEW L, NEW M, NEW N, StartOrdered(s, L, M), StartOrdered(t, M, N)
  PROVE  StartOrdered(s \o t, L, N)
<1>1. /\ s \in Seq(StartEntries)
      /\ t \in Seq(StartEntries)
  BY DEF StartOrdered, StartStrict
<1>2. /\ s \o t \in Seq(StartEntries)
      /\ Len(s) \in Nat /\ Len(t) \in Nat /\ Len(s \o t) = Len(s) + Len(t)
      /\ \A i \in 1 .. Len(s) : (s \o t)[i] = s[i]
      /\ \A i \in 1 .. Len(t) : (s \o t)[Len(s) + i] = t[i]
  BY <1>1
<1>3. \A i \in 1 .. Len(s \o t) : i \in 1 .. Len(s) \/ \E k \in 1 .. Len(t) : i = Len(s) + k
  <2> SUFFICES ASSUME NEW i \in 1 .. Len(s \o t), i \notin 1 .. Len(s)
               PROVE  \E k \in 1 .. Len(t) : i = Len(s) + k
    OBVIOUS
  <2>1. i - Len(s) \in 1 .. Len(t) /\ i = Len(s) + (i - Len(s))
    BY <1>2
  <2>2. QED
    BY <2>1
<1>4. StartStrict(s \o t)
  BY <1>2, <1>3 DEF StartOrdered, StartStrict
<1>5. StartNames(s \o t) = StartNames(s) \o StartNames(t)
  <2>1. /\ StartNames(s) \in Seq(DOMAIN StartParts) /\ Len(StartNames(s)) = Len(s)
        /\ StartNames(t) \in Seq(DOMAIN StartParts) /\ Len(StartNames(t)) = Len(t)
    BY <1>1, StartNamesSeq
  <2>2. /\ \A i \in 1 .. Len(s) : StartNames(s)[i] = s[i][1]
        /\ \A i \in 1 .. Len(t) : StartNames(t)[i] = t[i][1]
        /\ \A i \in 1 .. Len(s \o t) : StartNames(s \o t)[i] = (s \o t)[i][1]
    BY DEF StartNames
  <2> DEFINE n == StartNames(s) \o StartNames(t)
  <2>3. /\ n = [i \in 1 .. Len(s \o t) |-> n[i]]
        /\ \A i \in 1 .. Len(s) : n[i] = StartNames(s)[i]
        /\ \A i \in 1 .. Len(t) : n[Len(s) + i] = StartNames(t)[i]
    <3> DEFINE D == DOMAIN StartParts
               v == StartNames(s)
               w == StartNames(t)
    <3>1. v \in Seq(D) /\ w \in Seq(D)
          /\ Len(v) = Len(s) /\ Len(w) = Len(t)
      BY <2>1
    <3>2. Len(s) \in Nat /\ Len(t) \in Nat /\ Len(s \o t) = Len(s) + Len(t)
      BY <1>2
    <3> HIDE DEF D, v, w
    <3>3. v \o w \in Seq(D) /\ Len(v \o w) = Len(s \o t)
      BY <3>1, <3>2
    <3>4. v \o w = [i \in 1 .. Len(s \o t) |-> (v \o w)[i]]
      <4>1. \A q \in Seq(D) : q = [i \in 1 .. Len(q) |-> q[i]]
        OBVIOUS
      <4>2. QED
        BY <3>3, <4>1
    <3>5. /\ \A i \in 1 .. Len(s) : (v \o w)[i] = v[i]
          /\ \A i \in 1 .. Len(t) : (v \o w)[Len(s) + i] = w[i]
      BY <3>1, <3>2
    <3>6. QED
      BY <3>4, <3>5 DEF v, w
  <2> HIDE DEF n
  <2>4. ASSUME NEW i \in 1 .. Len(s \o t) PROVE n[i] = (s \o t)[i][1]
    <3>1. CASE i \in 1 .. Len(s)
      BY <1>2, <2>2, <2>3, <3>1
    <3>2. CASE \E k \in 1 .. Len(t) : i = Len(s) + k
      <4>1. PICK k \in 1 .. Len(t) : i = Len(s) + k
        BY <3>2
      <4>2. n[i] = StartNames(t)[k] /\ (s \o t)[i] = t[k]
        BY <1>2, <2>3, <4>1
      <4>3. QED
        BY <2>2, <4>2
    <3>3. QED
      BY <1>3, <3>1, <3>2
  <2>5. n = StartNames(s \o t)
    BY <2>3, <2>4 DEF StartNames
  <2>6. QED
    BY <2>5 DEF n
<1>6. QED
  BY <1>4, <1>5, StartThen DEF StartOrdered

(* The platform's parts bind nothing. *)
LEMMA StartPlatformBinds == \A L : StartBinds(StartPlatform, L, L)
  BY StartPlatformQuiet, StartQuietBinds

(* Those of the Amex devices find the library of their JVS port bound. *)
LEMMA StartAmexBinds ==
  ASSUME NEW jvs, NEW L, jvs = "jvs" \/ (jvs \in StartUsers /\ StartLibOf[jvs] \in L)
  PROVE  StartBinds(StartAmex(jvs), L, L)
<1>1. /\ jvs \in DOMAIN StartParts /\ jvs \notin StartLibraries
      /\ jvs \in StartUsers => StartLibOf[jvs] \in L
  BY StartLibrariesAre DEF StartUsers, StartLibOf, StartParts
<1>2. \A i \in 1 .. 5 : /\ StartAmex(jvs)[i] \in DOMAIN StartParts \ StartLibraries
                        /\ StartAmex(jvs)[i] \notin StartUsers \/ StartAmex(jvs)[i] = jvs
  BY <1>1, StartLibrariesAre DEF StartAmex, StartParts, StartUsers, StartLibOf
<1>3. StartAmex(jvs) \in Seq(DOMAIN StartParts) /\ Len(StartAmex(jvs)) = 5
  BY <1>1 DEF StartAmex, StartParts
<1>4. QED
  BY <1>1, <1>2, <1>3 DEF StartBinds

(* Each game's list is in order. *)
LEMMA StartCarolOrdered == StartOrdered(StartCarol, {}, {"carol_dll", "aime_dll"})
<1>1. StartBinds(<<"carol_dll">>, {}, {"carol_dll"})
  BY StartLibrariesAre DEF StartParts, StartUsers, StartLibOf, StartBinds
<1>2. StartBinds(StartAmex("carol_jvs"), {"carol_dll"}, {"carol_dll"})
  BY StartAmexBinds DEF StartUsers, StartLibOf
<1>3. StartBinds(<<"aime_dll", "sg_reader", "carol_touch", "controlbd">>, {"carol_dll"},
                 {"carol_dll", "aime_dll"})
  BY StartLibrariesAre DEF StartParts, StartUsers, StartLibOf, StartBinds
<1>4. QED
  BY <1>1, <1>2, <1>3, StartPlatformBinds, StartThen, StartAllOrdered, StartOrderedThen
     DEF StartCarol

LEMMA StartChuniOrdered == StartOrdered(StartChuni, {}, {"chuni_dll", "aime_dll"})
<1>1. StartBinds(<<"chuni_dll">>, {}, {"chuni_dll"})
  BY StartLibrariesAre DEF StartParts, StartUsers, StartLibOf, StartBinds
<1>2. StartBinds(StartAmex("chuni_jvs"), {"chuni_dll"}, {"chuni_dll"})
  BY StartAmexBinds DEF StartUsers, StartLibOf
<1>3. StartBinds(<<"chuni_slider", "led", "aime_dll", "sg_reader">>, {"chuni_dll"},
                 {"chuni_dll", "aime_dll"})
  BY StartLibrariesAre DEF StartParts, StartUsers, StartLibOf, StartBinds
<1>4. StartBinds(<<"api">>, {"chuni_dll", "aime_dll"}, {"chuni_dll", "aime_dll"})
  BY StartLibrariesAre DEF StartParts, StartUsers, StartLibOf, StartBinds
<1>5. QED
  BY <1>1, <1>2, <1>3, <1>4, StartPlatformBinds, StartThen, StartAllOrdered,
     StartOrderedThen
     DEF StartChuni

LEMMA StartChusanOrdered == StartOrdered(StartChusan, {}, {"chusan_dll", "aime_dll"})
<1>1. StartBinds(<<"chusan_dll", "chusan_io4">>, {}, {"chusan_dll"})
  BY StartLibrariesAre DEF StartParts, StartUsers, StartLibOf, StartBinds
<1>2. StartBinds(<<"io4">>, {"chusan_dll"}, {"chusan_dll"})
  BY StartLibrariesAre DEF StartParts, StartUsers, StartLibOf, StartBinds
<1>3. StartBinds(<<"chusan_slider", "aime_dll", "sg_reader", "vfd", "led">>, {"chusan_dll"},
                 {"chusan_dll", "aime_dll"})
  BY StartLibrariesAre DEF StartParts, StartUsers, StartLibOf, StartBinds
<1>4. StartQuiet(<<"io4">>)
  BY StartLibrariesAre DEF StartParts, StartUsers, StartLibOf, StartQuiet
<1>5. StartOrdered(StartAll(StartPlatform \o <<"chusan_dll", "chusan_io4">>, "exit"),
                   {}, {"chusan_dll"})
  BY <1>1, StartPlatformBinds, StartThen, StartAllOrdered
<1>6. StartOrdered(StartAll(<<"io4">>, "go"), {"chusan_dll"}, {"chusan_dll"})
  BY <1>2, <1>4, StartAllOrdered
<1>7. StartOrdered(StartAll(<<"chusan_slider", "aime_dll", "sg_reader", "vfd", "led">>, "exit"),
                   {"chusan_dll"}, {"chusan_dll", "aime_dll"})
  BY <1>3, StartAllOrdered
<1>8. QED
  BY <1>5, <1>6, <1>7, StartOrderedThen DEF StartChusan

LEMMA StartCxbOrdered == StartOrdered(StartCxb, {}, {"aime_dll"})
<1>1. StartBinds(StartAmex("jvs"), {}, {})
  BY StartAmexBinds DEF StartUsers, StartLibOf
<1>2. StartBinds(<<"aime_dll", "sg_reader", "commio", "api">>, {}, {"aime_dll"})
  BY StartLibrariesAre DEF StartParts, StartUsers, StartLibOf, StartBinds
<1>3. QED
  BY <1>1, <1>2, StartPlatformBinds, StartThen, StartAllOrdered, StartOrderedThen
     DEF StartCxb

LEMMA StartDivaOrdered == StartOrdered(StartDiva, {}, {"diva_dll", "aime_dll"})
<1>1. StartBinds(<<"diva_dll">>, {}, {"diva_dll"})
  BY StartLibrariesAre DEF StartParts, StartUsers, StartLibOf, StartBinds
<1>2. StartBinds(StartAmex("diva_jvs"), {"diva_dll"}, {"diva_dll"})
  BY StartAmexBinds DEF StartUsers, StartLibOf
<1>3. StartBinds(<<"aime_dll", "sg_reader", "diva_slider">>, {"diva_dll"},
                 {"diva_dll", "aime_dll"})
  BY StartLibrariesAre DEF StartParts, StartUsers, StartLibOf, StartBinds
<1>4. QED
  BY <1>1, <1>2, <1>3, StartPlatformBinds, StartThen, StartAllOrdered, StartOrderedThen
     DEF StartDiva

LEMMA StartFgoOrdered == StartOrdered(StartFgo, {}, {"aime_dll", "fgo_dll"})
<1>1. StartBinds(<<"touch", "printer">>, {}, {})
  BY StartLibrariesAre DEF StartParts, StartUsers, StartLibOf, StartBinds
<1>2. StartBinds(<<"aime_dll", "sg_reader", "vfd", "fgo_dll", "fgo_io4", "rfid", "led">>, {},
                 {"aime_dll", "fgo_dll"})
  BY StartLibrariesAre DEF StartParts, StartUsers, StartLibOf, StartBinds
<1>3. StartQuiet(<<"touch", "printer">>)
  BY StartLibrariesAre DEF StartParts, StartUsers, StartLibOf, StartQuiet
<1>4. QED
  BY <1>1, <1>2, <1>3, StartPlatformBinds, StartThen, StartAllOrdered, StartOrderedThen
     DEF StartFgo

LEMMA StartIdzOrdered == StartOrdered(StartIdz, {}, {"idz_dll", "aime_dll"})
<1>1. StartBinds(<<"idz_dll">>, {}, {"idz_dll"})
  BY StartLibrariesAre DEF StartParts, StartUsers, StartLibOf, StartBinds
<1>2. StartBinds(StartAmex("idz_jvs"), {"idz_dll"}, {"idz_dll"})
  BY StartAmexBinds DEF StartUsers, StartLibOf
<1>3. StartBinds(<<"aime_dll", "sg_reader">>, {"idz_dll"}, {"idz_dll", "aime_dll"})
  BY StartLibrariesAre DEF StartParts, StartUsers, StartLibOf, StartBinds
<1>4. QED
  BY <1>1, <1>2, <1>3, StartPlatformBinds, StartThen, StartAllOrdered, StartOrderedThen
     DEF StartIdz

LEMMA StartKemonoOrdered == StartOrdered(StartKemono, {}, {})
<1>1. StartBinds(<<"printer_std">>, {}, {})
  BY StartLibrariesAre DEF StartParts, StartUsers, StartLibOf, StartBinds
<1>2. StartQuiet(<<"printer_std">>)
  BY StartLibrariesAre DEF StartParts, StartUsers, StartLibOf, StartQuiet
<1>3. QED
  BY <1>1, <1>2, StartPlatformBinds, StartThen, StartAllOrdered, StartOrderedThen
     DEF StartKemono

LEMMA StartMiniOrdered == StartOrdered(StartMini, {}, {"aime_dll"})
<1>1. StartBinds(<<"touch", "vfd">>, {}, {})
  BY StartLibrariesAre DEF StartParts, StartUsers, StartLibOf, StartBinds
<1>2. StartBinds(StartAmex("jvs"), {}, {})
  BY StartAmexBinds DEF StartUsers, StartLibOf
<1>3. StartBinds(<<"clock">>, {}, {})
  BY StartLibrariesAre DEF StartParts, StartUsers, StartLibOf, StartBinds
<1>4. StartBinds(<<"aime_dll", "sg_reader", "ds", "led", "io4">>, {}, {"aime_dll"})
  BY StartLibrariesAre DEF StartParts, StartUsers, StartLibOf, StartBinds
<1>5. StartQuiet(<<"touch", "vfd">>)
  BY StartLibrariesAre DEF StartParts, StartUsers, StartLibOf, StartQuiet
<1>6. QED
  BY <1>1, <1>2, <1>3, <1>4, <1>5, StartPlatformBinds, StartThen, StartAllOrdered,
     StartOrderedThen
     DEF StartMini

LEMMA StartMkOrdered == StartOrdered(StartMk, {}, {})
<1>1. StartBinds(<<"dns", "netenv", "keychip", "clock", "namco_jvs", "strpcb",
                   "bngrw">>, {}, {})
  BY StartLibrariesAre DEF StartParts, StartUsers, StartLibOf, StartBinds
<1>2. QED
  BY <1>1, StartPlatformBinds, StartThen, StartAllOrdered, StartOrderedThen
     DEF StartMk

LEMMA StartMu3Ordered == StartOrdered(StartMu3, {}, {"aime_dll", "mu3_dll"})
<1>1. StartBinds(<<"gpio">>, {}, {})
  BY StartLibrariesAre DEF StartParts, StartUsers, StartLibOf, StartBinds
<1>2. StartBinds(<<"aime_dll", "sg_reader", "vfd", "mu3_dll", "mu3_io4">>, {},
                 {"aime_dll", "mu3_dll"})
  BY StartLibrariesAre DEF StartParts, StartUsers, StartLibOf, StartBinds
<1>3. StartBinds(<<"api">>, {"aime_dll", "mu3_dll"}, {"aime_dll", "mu3_dll"})
  BY StartLibrariesAre DEF StartParts, StartUsers, StartLibOf, StartBinds
<1>4. StartOrdered(StartAll(StartPlatform, "exit"), {}, {})
  BY StartPlatformBinds, StartAllOrdered
<1>5. StartOrdered(StartAll(<<"gpio">>, "return"), {}, {})
  BY <1>1, StartAllOrdered
<1>6. StartOrdered(StartAll(<<"aime_dll", "sg_reader", "vfd", "mu3_dll", "mu3_io4">>, "exit"),
                   {}, {"aime_dll", "mu3_dll"})
  BY <1>2, StartAllOrdered
<1>7. StartOrdered(StartAll(<<"api">>, "return"), {"aime_dll", "mu3_dll"},
                   {"aime_dll", "mu3_dll"})
  BY <1>3, StartAllOrdered
<1>8. QED
  BY <1>4, <1>5, <1>6, <1>7, StartOrderedThen DEF StartMu3

LEMMA StartSyncOrdered == StartOrdered(StartSync, {}, {})
<1>1. StartBinds(<<"keychip", "api">>, {}, {})
  BY StartLibrariesAre DEF StartParts, StartUsers, StartLibOf, StartBinds
<1>2. StartQuiet(<<"keychip", "api">>)
  BY StartLibrariesAre DEF StartParts, StartUsers, StartLibOf, StartQuiet
<1>3. QED
  BY <1>1, <1>2, StartPlatformBinds, StartThen, StartAllOrdered, StartOrderedThen
     DEF StartSync

(* So every game's list is strict and in order. *)
LEMMA StartGamesOrdered ==
  \A g \in DOMAIN StartGames : \E M : StartOrdered(StartGames[g], {}, M)
  BY StartCarolOrdered, StartChuniOrdered, StartChusanOrdered, StartCxbOrdered,
     StartDivaOrdered, StartFgoOrdered, StartIdzOrdered, StartKemonoOrdered,
     StartMiniOrdered, StartMkOrdered, StartMu3Ordered, StartSyncOrdered DEF StartGames

(* What that says of one game's parts *)
LEMMA StartGameFacts ==
  ASSUME NEW g \in DOMAIN StartGames
  PROVE  /\ Len(StartGames[g]) \in Nat
         /\ \A i \in 1 .. Len(StartGames[g]) :
               LET p == StartGames[g][i][1] IN
               /\ p \in DOMAIN StartParts
               /\ StartGames[g][i][2] \in {"go", "exit", "return"}
               /\ p \in StartLibraries =>
                     /\ StartGames[g][i][2] # "go"
                     /\ \A j \in 1 .. i - 1 : StartGames[g][j][1] # p
               /\ \A f \in StartParts[p].uses : \E j \in 1 .. i - 1 :
                     /\ StartGames[g][j][1] \in StartLibraries
                     /\ f \in StartFunctions[StartGames[g][j][1]]
<1> DEFINE s == StartGames[g]
           D == DOMAIN StartParts
           R == {"go", "exit", "return"}
<1>1. StartStrict(s) /\ \E M : StartBinds(StartNames(s), {}, M)
  BY StartGamesOrdered DEF StartOrdered
<1>2. s \in Seq(StartEntries)
  BY <1>1 DEF StartStrict
<1>3. /\ Len(StartNames(s)) = Len(s)
      /\ \A i \in 1 .. Len(s) : StartNames(s)[i] = s[i][1]
  BY <1>2, StartNamesSeq
<1>4. StartEntries = D \X R
  BY DEF StartEntries
<1> HIDE DEF s, D, R
<1>5. Len(s) \in Nat /\ \A i \in 1 .. Len(s) : s[i] \in D \X R
  BY <1>2, <1>4
<1>6. \A i \in 1 .. Len(s) : s[i][1] \in D /\ s[i][2] \in R
  BY <1>5
<1>7. \A i \in 1 .. Len(s) : s[i][1] \in StartLibraries => s[i][2] # "go"
  BY <1>1 DEF StartStrict
<1>8. \A i \in 1 .. Len(s) : \A j \in 1 .. i - 1 : j \in 1 .. Len(s)
  BY <1>5
<1>9. \A i \in 1 .. Len(s) :
         /\ s[i][1] \in StartLibraries => \A j \in 1 .. i - 1 : s[j][1] # s[i][1]
         /\ s[i][1] \in StartUsers => \E j \in 1 .. i - 1 : s[j][1] = StartLibOf[s[i][1]]
  BY <1>1, <1>3, <1>8 DEF StartBinds
<1>10. ASSUME NEW i \in 1 .. Len(s), NEW f \in StartParts[s[i][1]].uses
      PROVE  \E j \in 1 .. i - 1 :
                s[j][1] \in StartLibraries /\ f \in StartFunctions[s[j][1]]
  <2>1. s[i][1] \in StartUsers
    BY <1>6, <1>10, StartQuietParts DEF D
  <2>2. f \in StartFunctions[StartLibOf[s[i][1]]]
    BY <2>1, <1>10, StartUsersCall
  <2>3. StartLibOf[s[i][1]] \in StartLibraries
    BY <2>1, StartLibrariesAre DEF StartUsers, StartLibOf
  <2>4. QED
    BY <1>9, <2>1, <2>2, <2>3
<1>11. QED
  BY <1>5, <1>6, <1>7, <1>9, <1>10 DEF s, D, R

(* The i-th part of the game that is started *)
StartPartAt(i) == StartGames[startGame][i][1]

(* A start that goes on, or a game that runs *)
StartLive == startEnd \in {"starting", "running"}

(* The place of the start and the state of each library *)
StartShape ==
    /\ startGame \in DOMAIN StartGames
    /\ startAt \in Nat /\ startAt >= 1 /\ startAt <= Len(StartGames[startGame]) + 1
    /\ startOp \in Nat
    /\ startLib \in [StartLibraries -> {"none", "own", "loaded", "freed"}]

(* The libraries of the parts that are done, and of the one whose functions have
   been found, are bound.                                                  *)
StartBoundSoFar ==
    StartLive =>
       /\ \A j \in 1 .. startAt - 1 : StartPartAt(j) \in StartLibraries =>
             StartFunctions[StartPartAt(j)] \subseteq startBound
       /\ startAt <= Len(StartGames[startGame]) /\ StartName \in StartLibraries /\ startOp >= 3 =>
             StartFunctions[StartName] \subseteq startBound

(* What is called is of a library of an earlier part. *)
StartUsesEarlier ==
    \A f \in startUses : \E j \in 1 .. startAt - 1 :
       StartPartAt(j) \in StartLibraries /\ f \in StartFunctions[StartPartAt(j)]

(* A library is freed only when its own part ends the start. *)
StartFreedLast ==
    \A l \in StartLibraries : startLib[l] = "freed" =>
       ~StartLive /\ startAt <= Len(StartGames[startGame]) /\ l = StartName

(* The inductive invariant of the start *)
StartIInv ==
    /\ StartShape
    /\ startFailed => ~StartLive
    /\ startUses \subseteq startBound
    /\ StartBoundSoFar /\ StartUsesEarlier /\ StartFreedLast

(* It holds before the first part. *)
LEMMA StartInitIInv == StartInit => StartIInv
<1> SUFFICES ASSUME StartInit PROVE StartIInv
  OBVIOUS
<1>1. Len(StartGames[startGame]) \in Nat
  BY StartGameFacts DEF StartInit
<1>2. StartShape
  BY <1>1 DEF StartInit, StartShape
<1>3. StartBoundSoFar /\ StartUsesEarlier /\ StartFreedLast
  BY <1>1 DEF StartInit, StartBoundSoFar, StartUsesEarlier, StartFreedLast
<1>4. QED
  BY <1>2, <1>3 DEF StartInit, StartIInv

(* It says that a running game has its parts, and that what is called is
   bound.                                                                  *)
LEMMA StartIInvHolds ==
  ASSUME StartIInv
  PROVE  StartRunsWhole /\ StartCallsLive
<1> DEFINE calls == IF StartInPart /\ StartNextOp = "call"
                    THEN StartParts[StartName].uses ELSE {}
           len == Len(StartGames[startGame])
<1>1. /\ len \in Nat /\ startAt \in Nat /\ startAt >= 1
      /\ startGame \in DOMAIN StartGames
  BY StartGameFacts DEF StartIInv, StartShape
<1>2. StartRunsWhole
  BY DEF StartIInv, StartRunsWhole, StartLive
<1>3. calls \subseteq startBound
  <2> SUFFICES ASSUME StartInPart, NEW f \in StartParts[StartName].uses
               PROVE  f \in startBound
    OBVIOUS
  <2>1. StartLive /\ startAt \in 1 .. len
    BY <1>1 DEF StartInPart, StartGoing, StartLive
  <2>2. \E j \in 1 .. startAt - 1 :
           StartPartAt(j) \in StartLibraries /\ f \in StartFunctions[StartPartAt(j)]
    BY <1>1, <2>1, StartGameFacts DEF StartName, StartPartAt
  <2>3. QED
    BY <2>1, <2>2 DEF StartIInv, StartBoundSoFar
<1>4. ASSUME NEW l \in StartLibraries, startLib[l] = "freed", NEW f \in startUses \cup calls,
             f \in StartFunctions[l]
      PROVE  FALSE
  <2>1. ~StartLive /\ startAt \in 1 .. len /\ l = StartPartAt(startAt)
    BY <1>1, <1>4 DEF StartIInv, StartFreedLast, StartName, StartPartAt
  <2>2. calls = {}
    BY <2>1 DEF StartInPart, StartGoing, StartLive
  <2>3. PICK j \in 1 .. startAt - 1 :
          StartPartAt(j) \in StartLibraries /\ f \in StartFunctions[StartPartAt(j)]
    BY <1>4, <2>2 DEF StartIInv, StartUsesEarlier
  <2>4. StartPartAt(j) # l
    BY <1>1, <2>1, <2>3, StartGameFacts DEF StartPartAt
  <2>5. QED
    BY <1>4, <2>3, <2>4, StartDllsApart
<1>5. QED
  BY <1>2, <1>3, <1>4 DEF StartCallsLive, StartIInv

(* A step within a part, that frees nothing and forgets nothing that is bound *)
LEMMA StartWithinHolds ==
  ASSUME StartIInv, StartInPart, startOp' = startOp + 1,
         UNCHANGED <<startGame, startAt, startUses, startFailed, startEnd>>,
         startBound \subseteq startBound',
         StartName \in StartLibraries /\ startOp + 1 >= 3 =>
            StartFunctions[StartName] \subseteq startBound',
         startLib' \in [StartLibraries -> {"none", "own", "loaded", "freed"}],
         \A l \in StartLibraries : startLib'[l] = "freed" => startLib[l] = "freed"
  PROVE  StartIInv'
<1>1. StartShape' /\ (startFailed => ~StartLive)' /\ (startUses \subseteq startBound)'
  BY DEF StartIInv, StartShape, StartLive
<1>2. StartBoundSoFar'
  BY DEF StartIInv, StartShape, StartBoundSoFar, StartLive, StartPartAt, StartName
<1>3. StartUsesEarlier' /\ StartFreedLast'
  BY DEF StartIInv, StartUsesEarlier, StartFreedLast, StartLive, StartPartAt, StartName
<1>4. QED
  BY <1>1, <1>2, <1>3 DEF StartIInv

(* The next part begins, and the one before it has bound what it is to bind. *)
LEMMA StartOnHolds ==
  ASSUME StartIInv, StartGoing, startAt' = startAt + 1, startOp' = 0,
         UNCHANGED <<startGame, startBound, startEnd>>,
         StartName \in StartLibraries => StartFunctions[StartName] \subseteq startBound,
         \A f \in startUses' : f \in startUses \/ f \in StartParts[StartName].uses,
         startFailed' => startFailed, UNCHANGED startLib
  PROVE  StartIInv'
<1> DEFINE len == Len(StartGames[startGame])
<1>1. /\ len \in Nat /\ startAt \in 1 .. len /\ startGame \in DOMAIN StartGames
      /\ StartLive
  BY StartGameFacts DEF StartIInv, StartShape, StartGoing, StartLive
<1>2. StartShape' /\ (startFailed => ~StartLive)'
  BY <1>1 DEF StartIInv, StartShape, StartLive
<1>3. \A j \in 1 .. startAt' - 1 : j \in 1 .. startAt - 1 \/ j = startAt
  BY <1>1
<1>4. \A j \in 1 .. startAt - 1 : j \in 1 .. startAt' - 1
  BY <1>1
<1>5. \A j : StartPartAt(j)' = StartPartAt(j)
  BY DEF StartPartAt
<1>6. StartBoundSoFar'
  BY <1>1, <1>3, <1>5 DEF StartIInv, StartBoundSoFar, StartName, StartPartAt
<1>7. StartUsesEarlier'
  <2>1. ASSUME NEW f \in StartParts[StartName].uses
        PROVE  \E j \in 1 .. startAt - 1 :
                  StartPartAt(j) \in StartLibraries /\ f \in StartFunctions[StartPartAt(j)]
    BY <1>1, <2>1, StartGameFacts DEF StartName, StartPartAt
  <2>2. QED
    BY <1>4, <1>5, <2>1 DEF StartIInv, StartUsesEarlier
<1>8. (startUses \subseteq startBound)'
  <2>1. \A j \in 1 .. startAt' - 1 : StartPartAt(j) \in StartLibraries =>
           StartFunctions[StartPartAt(j)] \subseteq startBound
    BY <1>1, <1>3 DEF StartIInv, StartBoundSoFar, StartName, StartPartAt
  <2>2. QED
    BY <1>5, <1>7, <2>1 DEF StartUsesEarlier
<1>9. StartFreedLast'
  BY <1>1 DEF StartIInv, StartFreedLast, StartLive
<1>10. QED
  BY <1>2, <1>6, <1>7, <1>8, <1>9 DEF StartIInv

(* A part fails: the library that it has loaded is freed, and the start ends
   or goes on.                                                             *)
LEMMA StartFailsHolds ==
  ASSUME StartIInv, StartFails
  PROVE  StartIInv'
<1> DEFINE len == Len(StartGames[startGame])
<1>1. /\ len \in Nat /\ startAt \in 1 .. len /\ startGame \in DOMAIN StartGames
      /\ StartLive /\ StartGoing
      /\ UNCHANGED <<startGame, startBound, startUses>>
  BY StartGameFacts
     DEF StartIInv, StartShape, StartFails, StartInPart, StartGoing, StartLive
<1>2. /\ StartReaction \in {"go", "exit", "return"}
      /\ StartName \in StartLibraries => StartReaction # "go"
  BY <1>1, StartGameFacts DEF StartReaction, StartName
<1>3. CASE StartReaction = "go"
  <2>1. startAt' = startAt + 1 /\ startOp' = 0 /\ UNCHANGED startEnd
    BY <1>3 DEF StartFails
  <2>2. UNCHANGED startLib
    BY <1>2, <1>3 DEF StartFails
  <2>3. startFailed' => startFailed
    BY <1>3 DEF StartFails, StartReaction
  <2>4. QED
    BY <1>1, <1>2, <1>3, <2>1, <2>2, <2>3, StartOnHolds
<1>4. CASE StartReaction # "go"
  <2>1. startEnd' \in {"exit", "return"} /\ UNCHANGED <<startAt, startOp>>
    BY <1>2, <1>4 DEF StartFails
  <2>2. ~StartLive'
    BY <2>1 DEF StartLive
  <2>3. /\ startLib' \in [StartLibraries -> {"none", "own", "loaded", "freed"}]
        /\ \A l \in StartLibraries : startLib'[l] = "freed" =>
              startLib[l] = "freed" \/ l = StartName
    BY DEF StartFails, StartIInv, StartShape
  <2>4. StartShape' /\ StartUsesEarlier'
    BY <1>1, <2>1, <2>3 DEF StartIInv, StartShape, StartUsesEarlier, StartPartAt
  <2>5. StartFreedLast'
    BY <1>1, <2>1, <2>2, <2>3 DEF StartIInv, StartFreedLast, StartName
  <2>6. StartBoundSoFar' /\ (startUses \subseteq startBound)'
    BY <1>1, <2>2 DEF StartIInv, StartBoundSoFar
  <2>7. QED
    BY <2>2, <2>4, <2>5, <2>6 DEF StartIInv
<1>5. QED
  BY <1>3, <1>4

(* Every step of the start keeps it. *)
LEMMA StartStepHolds == StartIInv /\ [StartNext]_startVars => StartIInv'
<1> SUFFICES ASSUME StartIInv, [StartNext]_startVars PROVE StartIInv'
  OBVIOUS
<1>1. StartInPart /\ StartName \in StartLibraries =>
         StartNextOp = (IF startOp = 0 THEN "load" ELSE IF startOp = 1 THEN "version" ELSE "bind")
         /\ startOp \in 0 .. 2
  <2> SUFFICES ASSUME StartInPart, StartName \in StartLibraries
               PROVE  /\ StartNextOp = (IF startOp = 0 THEN "load"
                                        ELSE IF startOp = 1 THEN "version" ELSE "bind")
                      /\ startOp \in 0 .. 2
    OBVIOUS
  <2>1. StartOps = <<"load", "version", "bind">>
    BY StartDllOps DEF StartOps
  <2>2. startOp \in Nat /\ startOp < 3
    BY <2>1 DEF StartInPart, StartIInv, StartShape
  <2>3. startOp \in 0 .. 2
    BY <2>2
  <2>4. QED
    BY <2>1, <2>3 DEF StartNextOp
<1>2. CASE StartSkip
  <2>1. StartGoing /\ startAt' = startAt + 1 /\ startOp' = 0 /\ StartName \notin StartLibraries
        /\ UNCHANGED <<startGame, startLib, startBound, startUses, startFailed, startEnd>>
    BY <1>2 DEF StartSkip, StartAlways
  <2>2. QED
    BY <2>1, StartOnHolds
<1>3. CASE StartHook \/ StartVersion
  <2>1. /\ StartInPart /\ startOp' = startOp + 1
        /\ StartNextOp # "bind"
        /\ UNCHANGED <<startGame, startAt, startLib, startBound, startUses, startFailed, startEnd>>
    BY <1>3 DEF StartHook, StartVersion
  <2>2. startOp \in Nat /\ (StartName \in StartLibraries => startOp \in 0 .. 1)
    BY <1>1, <2>1 DEF StartIInv, StartShape
  <2>3. QED
    BY <2>1, <2>2, StartWithinHolds DEF StartIInv, StartShape
<1>4. CASE StartLoad
  <2>1. /\ StartInPart /\ startOp' = startOp + 1 /\ StartNextOp = "load"
        /\ UNCHANGED <<startGame, startAt, startBound, startUses, startFailed, startEnd>>
        /\ \E whose \in {"own", "loaded"} : startLib' = [startLib EXCEPT ![StartName] = whose]
    BY <1>4 DEF StartLoad
  <2>2. startOp \in Nat /\ (StartName \in StartLibraries => startOp \in 0 .. 1)
    BY <1>1, <2>1 DEF StartIInv, StartShape
  <2>3. /\ startLib' \in [StartLibraries -> {"none", "own", "loaded", "freed"}]
        /\ \A l \in StartLibraries : startLib'[l] = "freed" => startLib[l] = "freed"
    BY <2>1 DEF StartIInv, StartShape
  <2>4. QED
    BY <2>1, <2>2, <2>3, StartWithinHolds
<1>5. CASE StartBind
  <2>1. /\ StartInPart /\ startOp' = startOp + 1
        /\ UNCHANGED <<startGame, startAt, startUses, startFailed, startEnd>>
        /\ startBound' = startBound \cup StartFunctions[StartName]
        /\ startLib' = [startLib EXCEPT ![StartName] = startLib[StartName]]
    BY <1>5 DEF StartBind, StartReleased
  <2>2. startLib' = startLib
    BY <2>1 DEF StartIInv, StartShape
  <2>3. QED
    BY <2>1, <2>2, StartWithinHolds DEF StartIInv, StartShape
<1>6. CASE StartDone
  <2>1. /\ StartGoing /\ startOp = Len(StartOps) /\ startAt' = startAt + 1 /\ startOp' = 0
        /\ startUses' = startUses \cup StartParts[StartName].uses
        /\ UNCHANGED <<startGame, startLib, startBound, startFailed, startEnd>>
    BY <1>6 DEF StartDone
  <2>2. StartName \in StartLibraries => startOp = 3
    <3>1. StartName \in StartLibraries => StartOps = <<"load", "version", "bind">>
      BY StartDllOps DEF StartOps
    <3>2. Len(<<"load", "version", "bind">>) = 3
      OBVIOUS
    <3>3. StartName \in StartLibraries => Len(StartOps) = 3
      BY <3>1, <3>2
    <3>4. QED
      BY <2>1, <3>3
  <2>3. StartName \in StartLibraries => StartFunctions[StartName] \subseteq startBound
    <3>1. StartLive /\ startAt <= Len(StartGames[startGame])
      BY <2>1 DEF StartGoing, StartLive
    <3>2. QED
      BY <2>2, <3>1 DEF StartIInv, StartBoundSoFar
  <2>4. QED
    BY <2>1, <2>3, StartOnHolds
<1>7. CASE StartFails
  BY <1>7, StartFailsHolds
<1>8. CASE StartRun
  BY <1>8
     DEF StartRun, StartIInv, StartShape, StartBoundSoFar, StartUsesEarlier, StartFreedLast,
     StartLive, StartPartAt, StartName
<1>9. CASE UNCHANGED startVars
  BY <1>9
     DEF startVars, StartIInv, StartShape, StartBoundSoFar, StartUsesEarlier,
         StartFreedLast,
     StartLive, StartPartAt, StartName
<1>10. QED
  BY <1>2, <1>3, <1>4, <1>5, <1>6, <1>7, <1>8, <1>9 DEF StartNext

(* The games' DllMain and main: however far a start gets and wherever it
   fails, a library is bound before it is called and freed only when nothing
   calls it.                                                               *)
THEOREM StartInvariance == StartSpec => []StartIInv
  BY StartInitIInv, StartStepHolds, PTL DEF StartSpec

-----------------------------------------------------------------------------
(* LED boards: the replies that lie ready are those that are due. *)

(* A board whose replies lie ready, with the switch where the game has it *)
LedSettled(b) == ledReadable[b] = ledDue[b] /\ (ledEnable[b] <=> ~ledQuiet[b])

(* A board that will be like that when it has handled one command more *)
LedAwaits(b, command) ==
    /\ ledDue[b] = ledReadable[b] \o LedReply(b, command)
    /\ ledQuiet[b] <=> ~LedEnabled(b, command)

(* What a thread that is in the handler has before it *)
LedStands(t) ==
    LET b == ledThread[t].board
        left == IF ledThread[t].at = "loop" THEN ledWritten[b] ELSE ledThread[t].send
    IN  /\ ledThread[t].at # "loop" => ledWritten[b] = <<>>
        /\ \/ left = <<>> /\ LedSettled(b)
           \/ \E command \in LedCommands : left = <<command>> /\ LedAwaits(b, command)

(* What a call has to send *)
LedSends == {<<>>} \cup {<<command>> : command \in LedCommands}

(* The records of a thread *)
LedThreadStates ==
    [at : {"idle", "called", "inside", "loop"}, board : LedBoards \cup {"none"},
     send : LedSends]

(* The boards' state, and the lock that nobody ever holds *)
LedTyped ==
    /\ ledLock = [b \in LedBoards |-> LedFree]
    /\ ledEnable \in [LedBoards -> BOOLEAN] /\ ledQuiet \in [LedBoards -> BOOLEAN]
    /\ ledWritten \in [LedBoards -> Seq(LedCommands)]
    /\ ledReadable \in [LedBoards -> Seq(LedCommands)]
    /\ ledDue \in [LedBoards -> Seq(LedCommands)]
    /\ ledThread \in [LedThreads -> LedThreadStates]
    /\ \A t \in LedThreads : ledThread[t].at # "idle" => ledThread[t].board \in LedBoards
    /\ ledMixed \subseteq LedBoards

(* The board's handler has one thread or none. *)
LedBoardOK(b) ==
    /\ \A t, u \in LedThreads : LedIn(t, b) /\ LedIn(u, b) => t = u
    /\ \A t \in LedThreads : LedIn(t, b) => LedStands(t)
    /\ (\A t \in LedThreads : ~LedIn(t, b)) => ledWritten[b] = <<>> /\ LedSettled(b)

(* The inductive invariant of the boards *)
LedIInv == LedTyped /\ \A b \in LedBoards \ ledMixed : LedBoardOK(b)

(* A thread that is in no call *)
LEMMA LedIdleIs == LedIdle \in LedThreadStates /\ LedIdle.at = "idle"
  BY DEF LedIdle, LedThreadStates, LedSends

(* A thread's record, and how it goes on *)
LEMMA LedState ==
  ASSUME LedIInv, NEW t \in LedThreads
  PROVE  LedTyped /\ ledThread[t] \in LedThreadStates /\ ledThread[t].send \in LedSends
<1>1. ledThread[t] \in LedThreadStates
  BY DEF LedIInv, LedTyped
<1>2. ledThread[t].send \in LedSends
  BY <1>1 DEF LedThreadStates
<1>3. QED
  BY <1>1, <1>2 DEF LedIInv

LEMMA LedGoesOn ==
  ASSUME NEW r \in LedThreadStates, NEW at \in {"inside", "loop"}
  PROVE  LET in == [r EXCEPT !.at = at]
         IN  /\ in \in LedThreadStates
             /\ in.at = at /\ in.board = r.board /\ in.send = r.send
BY DEF LedThreadStates

(* What a call has to send, a board takes. *)
LEMMA LedSendsTyped == LedSends \subseteq Seq(LedCommands)
<1>1. \A c \in LedCommands : <<c>> \in Seq(LedCommands)
  OBVIOUS
<1>2. <<>> \in Seq(LedCommands)
  OBVIOUS
<1>3. QED
  BY <1>1, <1>2 DEF LedSends

(* It holds when no command has been sent. *)
LEMMA LedInitIInv == LedInit => LedIInv
<1> SUFFICES ASSUME LedInit PROVE LedIInv
  OBVIOUS
<1>1. LedIdle \in LedThreadStates /\ LedIdle.at = "idle"
  BY LedIdleIs
<1>2. LedTyped
  BY <1>1 DEF LedInit, LedTyped
<1>3. \A t \in LedThreads, b \in LedBoards : ~LedIn(t, b)
  BY <1>1 DEF LedInit, LedIn
<1>4. \A b \in LedBoards : ledWritten[b] = <<>> /\ LedSettled(b)
  BY DEF LedInit, LedSettled
<1>5. QED
  BY <1>2, <1>3, <1>4 DEF LedIInv, LedBoardOK

(* What is the same at a board stays so. *)
LEMMA LedSame ==
  ASSUME NEW b, UNCHANGED <<ledEnable[b], ledReadable[b], ledQuiet[b], ledDue[b]>>
  PROVE  /\ LedSettled(b) => LedSettled(b)'
         /\ \A command : LedAwaits(b, command) => LedAwaits(b, command)'
<1>1. \A command : LedReply(b, command)' = LedReply(b, command)
  BY DEF LedReply, LedSetLed, LedBootloader
<1>2. \A command : LedEnabled(b, command)' = LedEnabled(b, command)
  BY DEF LedEnabled
<1>3. QED
  BY <1>1, <1>2 DEF LedSettled, LedAwaits

(* So does a board with the threads in its handler. *)
LEMMA LedBoardKept ==
  ASSUME NEW b \in LedBoards, LedBoardOK(b),
         UNCHANGED <<ledEnable[b], ledWritten[b], ledReadable[b], ledQuiet[b], ledDue[b]>>,
         \A u \in LedThreads : \/ ledThread'[u] = ledThread[u]
                               \/ ~LedIn(u, b) /\ ~LedIn(u, b)'
  PROVE  LedBoardOK(b)'
<1>1. /\ LedSettled(b) => LedSettled(b)'
      /\ \A command : LedAwaits(b, command) => LedAwaits(b, command)'
  BY LedSame
<1>2. \A u \in LedThreads : LedIn(u, b)' <=> LedIn(u, b)
  BY DEF LedIn
<1>3. ASSUME NEW u \in LedThreads, LedIn(u, b)' PROVE LedStands(u)'
  <2>1. /\ ledThread'[u] = ledThread[u] /\ ledThread[u].board = b /\ LedStands(u)
    BY <1>2, <1>3 DEF LedBoardOK, LedIn
  <2>2. ledThread'[u].board = b
    BY <2>1
  <2>3. QED
    BY <1>1, <2>1, <2>2 DEF LedStands
<1>4. QED
  BY <1>1, <1>2, <1>3 DEF LedBoardOK

(* A step of one thread at one board *)
LEMMA LedOneBoard ==
  ASSUME LedIInv, LedTyped', NEW t \in LedThreads, NEW b \in LedBoards,
         ledThread[t].at = "idle" \/ ledThread[t].board = b,
         ledThread'[t].at = "idle" \/ ledThread'[t].board = b,
         \A u \in LedThreads : u # t => ledThread'[u] = ledThread[u],
         \A d \in LedBoards : d # b =>
            UNCHANGED <<ledEnable[d], ledWritten[d], ledReadable[d], ledQuiet[d], ledDue[d]>>,
         ledMixed \subseteq ledMixed',
         b \notin ledMixed' => LedBoardOK(b)'
  PROVE  LedIInv'
<1>1. ASSUME NEW d \in LedBoards \ ledMixed', d # b PROVE LedBoardOK(d)'
  <2>1. LedBoardOK(d)
    BY <1>1 DEF LedIInv
  <2>2. ~LedIn(t, d) /\ ~LedIn(t, d)'
    BY <1>1 DEF LedIn
  <2>3. QED
    BY <1>1, <2>1, <2>2, LedBoardKept
<1>2. QED
  BY <1>1 DEF LedIInv

(* A thread that is alone in the handler goes on, *)
LEMMA LedAloneStays ==
  ASSUME NEW t \in LedThreads, NEW b \in LedBoards, LedTyped,
         \A u \in LedThreads : LedIn(u, b) => u = t,
         \A u \in LedThreads : u # t => ledThread'[u] = ledThread[u],
         LedIn(t, b)', LedStands(t)'
  PROVE  LedBoardOK(b)'
<1>1. \A u \in LedThreads : LedIn(u, b)' => u = t
  BY DEF LedIn
<1>2. QED
  BY <1>1 DEF LedBoardOK

(* or leaves it to nobody. *)
LEMMA LedAloneLeaves ==
  ASSUME NEW t \in LedThreads, NEW b \in LedBoards, LedTyped,
         \A u \in LedThreads : LedIn(u, b) => u = t,
         \A u \in LedThreads : u # t => ledThread'[u] = ledThread[u],
         ledThread'[t].at = "idle", (ledWritten[b] = <<>>)', LedSettled(b)'
  PROVE  LedBoardOK(b)'
<1>1. \A u \in LedThreads : ~LedIn(u, b)'
  BY DEF LedIn
<1>2. QED
  BY <1>1 DEF LedBoardOK

(* A board replies with commands. *)
LEMMA LedReplyTyped ==
  ASSUME NEW b \in LedBoards, NEW command \in LedCommands
  PROVE  LedReply(b, command) \in Seq(LedCommands)
<1>1. \A c \in LedCommands : <<c>> \in Seq(LedCommands)
  OBVIOUS
<1>2. <<>> \in Seq(LedCommands) /\ "set_led" \in LedCommands /\ "bootloader" \in LedCommands
  BY DEF LedCommands
<1>3. QED
  BY <1>1, <1>2 DEF LedReply, LedSetLed, LedBootloader

(* What the game expects is what the board will do. *)
LEMMA LedExpectsReply ==
  ASSUME LedTyped, NEW b \in LedBoards, NEW command \in LedCommands, LedSettled(b)
  PROVE  /\ LedReply(b, command) = IF LedExpects(b, command) THEN <<command>> ELSE <<>>
         /\ LedQuietAfter(b, command) <=> ~LedEnabled(b, command)
<1>1. ledEnable[b] \in BOOLEAN /\ ledQuiet[b] \in BOOLEAN /\ (ledEnable[b] <=> ~ledQuiet[b])
  BY DEF LedTyped, LedSettled
<1>2. LedReply(b, command) = IF LedExpects(b, command) THEN <<command>> ELSE <<>>
  BY <1>1 DEF LedReply, LedExpects, LedSetLed, LedBootloader, LedCommands
<1>3. LedQuietAfter(b, command) <=> ~LedEnabled(b, command)
  BY <1>1 DEF LedQuietAfter, LedEnabled
<1>4. QED
  BY <1>2, <1>3

-----------------------------------------------------------------------------
(* The game calls, and is not in the handler yet. *)
LEMMA LedCallHolds ==
  ASSUME LedIInv, NEW t \in LedThreads, NEW b \in LedBoards, NEW send \in LedSends,
         LedCall(t, b, send)
  PROVE  LedIInv'
<1> DEFINE call == [at |-> "called", board |-> b, send |-> send]
<1>1. /\ ledThread[t].at = "idle" /\ ledThread' = [ledThread EXCEPT ![t] = call]
      /\ UNCHANGED <<ledLock, ledEnable, ledWritten, ledReadable, ledQuiet, ledDue, ledMixed>>
  BY DEF LedCall, ledPort
<1>2. LedTyped
  BY DEF LedIInv
<1>3. /\ call \in LedThreadStates /\ call.at = "called" /\ call.board = b
  <2>1. call \in LedThreadStates
    BY DEF LedThreadStates
  <2>2. QED
    BY <2>1
<1> HIDE DEF call
<1>4. ledThread'[t] = call /\ \A u \in LedThreads : u # t => ledThread'[u] = ledThread[u]
  BY <1>1, <1>2 DEF LedTyped
<1>5. LedTyped'
  <2>1. ledThread' \in [LedThreads -> LedThreadStates]
    BY <1>1, <1>2, <1>3 DEF LedTyped
  <2>2. \A u \in LedThreads : ledThread'[u].at # "idle" => ledThread'[u].board \in LedBoards
    BY <1>2, <1>3, <1>4 DEF LedTyped
  <2>3. QED
    BY <1>1, <1>2, <2>1, <2>2 DEF LedTyped
<1>6. b \notin ledMixed' => LedBoardOK(b)'
  <2> SUFFICES ASSUME b \notin ledMixed' PROVE LedBoardOK(b)'
    OBVIOUS
  <2>1. ~LedIn(t, b) /\ ~LedIn(t, b)'
    BY <1>1, <1>3, <1>4 DEF LedIn
  <2>2. LedBoardOK(b)
    BY <1>1 DEF LedIInv
  <2>3. QED
    BY <1>1, <1>4, <2>1, <2>2, LedBoardKept
<1>7. QED
  BY <1>1, <1>3, <1>4, <1>5, <1>6, LedOneBoard

(* What the game expects is typed, whoever else is at the board. *)
LEMMA LedExpectedTyped ==
  ASSUME LedTyped, NEW b \in LedBoards, NEW send \in LedSends, LedExpected(b, send)
  PROVE  /\ ledQuiet' \in [LedBoards -> BOOLEAN]
         /\ ledDue' \in [LedBoards -> Seq(LedCommands)]
         /\ \A d \in LedBoards : d # b => UNCHANGED <<ledQuiet[d], ledDue[d]>>
<1>1. CASE send = <<>>
  BY <1>1 DEF LedExpected, LedTyped
<1>2. CASE send # <<>>
  <2>1. PICK command \in LedCommands : send = <<command>>
    BY <1>2 DEF LedSends
  <2>2. /\ ledQuiet' = [ledQuiet EXCEPT ![b] = LedQuietAfter(b, command)]
        /\ ledDue' = IF LedExpects(b, command)
                     THEN [ledDue EXCEPT ![b] = Append(ledDue[b], command)] ELSE ledDue
    BY <1>2, <2>1 DEF LedExpected
  <2>3. LedQuietAfter(b, command) \in BOOLEAN
    BY DEF LedTyped, LedQuietAfter
  <2>4. Append(ledDue[b], command) \in Seq(LedCommands)
    BY DEF LedTyped
  <2>5. QED
    BY <2>2, <2>3, <2>4 DEF LedTyped
<1>3. QED
  BY <1>1, <1>2

(* A thread comes to a board that is settled: the game expects of it what it
   will do.                                                                *)
LEMMA LedExpectedAwaits ==
  ASSUME LedTyped, NEW b \in LedBoards, NEW command \in LedCommands, LedSettled(b),
         LedExpected(b, <<command>>), UNCHANGED <<ledEnable, ledReadable>>
  PROVE  LedAwaits(b, command)'
<1>1. /\ ledQuiet' = [ledQuiet EXCEPT ![b] = LedQuietAfter(b, command)]
      /\ ledDue' = IF LedExpects(b, command)
                   THEN [ledDue EXCEPT ![b] = Append(ledDue[b], command)] ELSE ledDue
  BY DEF LedExpected
<1>2. /\ LedReply(b, command) = IF LedExpects(b, command) THEN <<command>> ELSE <<>>
      /\ LedQuietAfter(b, command) <=> ~LedEnabled(b, command)
  BY LedExpectsReply
<1>3. ledDue[b] \in Seq(LedCommands) /\ ledReadable[b] = ledDue[b]
  BY DEF LedTyped, LedSettled
<1>4. ledDue'[b] = ledReadable'[b] \o LedReply(b, command)
  <2>1. CASE LedExpects(b, command)
    <3>1. ledDue'[b] = Append(ledDue[b], command)
      BY <1>1, <2>1 DEF LedTyped
    <3>2. Append(ledDue[b], command) = ledDue[b] \o <<command>>
      BY <1>3
    <3>3. QED
      BY <1>2, <1>3, <2>1, <3>1, <3>2
  <2>2. CASE ~LedExpects(b, command)
    <3>1. ledDue[b] \o <<>> = ledDue[b]
      BY <1>3
    <3>2. QED
      BY <1>1, <1>2, <1>3, <2>2, <3>1
  <2>3. QED
    BY <2>1, <2>2
<1>5. /\ LedReply(b, command)' = LedReply(b, command)
      /\ LedEnabled(b, command)' = LedEnabled(b, command)
  BY DEF LedReply, LedEnabled, LedSetLed, LedBootloader
<1>6. ledQuiet'[b] = LedQuietAfter(b, command)
  BY <1>1 DEF LedTyped
<1>7. QED
  BY <1>2, <1>4, <1>5, <1>6 DEF LedAwaits

(* The thread enters its copy of the lock, with nobody in the handler or with
   somebody.                                                               *)
LEMMA LedEnterHolds ==
  ASSUME LedIInv, NEW t \in LedThreads, LedEnter(t)
  PROVE  LedIInv'
<1>. PICK b \in LedBoards : b = ledThread[t].board
  BY DEF LedEnter, LedIInv, LedTyped
<1> DEFINE in == [ledThread[t] EXCEPT !.at = "inside"]
<1> DEFINE send == ledThread[t].send
<1>1. /\ ledThread[t].at = "called" /\ ledThread' = [ledThread EXCEPT ![t] = in]
      /\ ledMixed' = IF \E u \in LedThreads : LedIn(u, b) THEN ledMixed \cup {b} ELSE ledMixed
      /\ LedExpected(b, send)
      /\ UNCHANGED <<ledLock, ledEnable, ledWritten, ledReadable>>
  BY DEF LedEnter, ledPort
<1>2. LedTyped /\ ledThread[t] \in LedThreadStates /\ send \in LedSends
  BY LedState
<1>3. /\ in \in LedThreadStates
      /\ in.at = "inside" /\ in.board = b /\ in.send = send
  BY <1>2, LedGoesOn
<1> HIDE DEF in
<1>4. ledThread'[t] = in /\ \A u \in LedThreads : u # t => ledThread'[u] = ledThread[u]
  BY <1>1, <1>2 DEF LedTyped
<1>5. /\ ledQuiet' \in [LedBoards -> BOOLEAN]
      /\ ledDue' \in [LedBoards -> Seq(LedCommands)]
      /\ \A d \in LedBoards : d # b => UNCHANGED <<ledQuiet[d], ledDue[d]>>
  BY <1>1, <1>2, LedExpectedTyped
<1>6. LedTyped'
  <2>1. ledThread' \in [LedThreads -> LedThreadStates]
    BY <1>1, <1>2, <1>3 DEF LedTyped
  <2>2. \A u \in LedThreads : ledThread'[u].at # "idle" => ledThread'[u].board \in LedBoards
    BY <1>2, <1>3, <1>4 DEF LedTyped
  <2>3. ledMixed' \subseteq LedBoards
    BY <1>1, <1>2 DEF LedTyped
  <2>4. QED
    BY <1>1, <1>2, <1>5, <2>1, <2>2, <2>3 DEF LedTyped
<1>7. ASSUME b \notin ledMixed' PROVE LedBoardOK(b)'
  <2>1. b \notin ledMixed /\ \A u \in LedThreads : ~LedIn(u, b)
    BY <1>1, <1>7
  <2>2. ledWritten[b] = <<>> /\ LedSettled(b)
    BY <2>1 DEF LedIInv, LedBoardOK
  <2>3. LedIn(t, b)'
    BY <1>3, <1>4 DEF LedIn
  <2>4. LedStands(t)'
    <3>1. CASE send = <<>>
      <4>1. UNCHANGED <<ledQuiet, ledDue>>
        BY <1>1, <3>1 DEF LedExpected
      <4>2. LedSettled(b)'
        BY <1>1, <2>2, <4>1 DEF LedSettled
      <4>3. QED
        BY <1>1, <1>3, <1>4, <2>2, <3>1, <4>2 DEF LedStands
    <3>2. CASE send # <<>>
      <4>1. PICK command \in LedCommands : send = <<command>>
        BY <1>2, <3>2 DEF LedSends
      <4>2. LedExpected(b, <<command>>)
        BY <1>1, <4>1
      <4>3. LedAwaits(b, command)'
        BY <1>1, <1>2, <2>2, <4>2, LedExpectedAwaits
      <4>4. QED
        BY <1>1, <1>3, <1>4, <2>2, <4>1, <4>3 DEF LedStands
    <3>3. QED
      BY <3>1, <3>2
  <2>5. QED
    BY <1>2, <1>4, <2>1, <2>3, <2>4, LedAloneStays
<1>8. QED
  <2>1. ledThread'[t].board = b /\ ledThread[t].board = b /\ ledMixed \subseteq ledMixed'
    BY <1>1, <1>3, <1>4
  <2>2. \A d \in LedBoards : d # b =>
          UNCHANGED <<ledEnable[d], ledWritten[d], ledReadable[d], ledQuiet[d], ledDue[d]>>
    BY <1>1, <1>5
  <2>3. QED
    BY <1>4, <1>6, <1>7, <2>1, <2>2, LedOneBoard

(* In the handler of a board that is not mixed a thread is alone. *)
LEMMA LedAlone ==
  ASSUME LedIInv, NEW t \in LedThreads, NEW b \in LedBoards \ ledMixed, LedIn(t, b)
  PROVE  LedStands(t) /\ \A u \in LedThreads : LedIn(u, b) => u = t
BY DEF LedIInv, LedBoardOK

(* The command is in the buffer, or the replies are taken out of theirs. *)
LEMMA LedUartHolds ==
  ASSUME LedIInv, NEW t \in LedThreads, LedUart(t)
  PROVE  LedIInv'
<1>. PICK b \in LedBoards : b = ledThread[t].board
  BY DEF LedUart, LedIInv, LedTyped
<1> DEFINE send == ledThread[t].send
<1>1. ledThread[t].at = "inside" /\ UNCHANGED <<ledLock, ledEnable, ledQuiet, ledMixed>>
  BY DEF LedUart
<1>2. LedTyped /\ ledThread[t] \in LedThreadStates /\ send \in LedSends
  BY LedState
<1>3. ASSUME b \notin ledMixed
      PROVE  /\ ledWritten[b] = <<>>
             /\ \/ send = <<>> /\ LedSettled(b)
                \/ \E command \in LedCommands : send = <<command>> /\ LedAwaits(b, command)
             /\ \A u \in LedThreads : LedIn(u, b) => u = t
  <2>1. LedIn(t, b)
    BY <1>1 DEF LedIn
  <2>2. LedStands(t) /\ \A u \in LedThreads : LedIn(u, b) => u = t
    BY <1>3, <2>1, LedAlone
  <2>3. QED
    BY <1>1, <2>2 DEF LedStands
<1>4. CASE send # <<>>
  <2> DEFINE in == [ledThread[t] EXCEPT !.at = "loop"]
  <2>1. /\ ledWritten' = [ledWritten EXCEPT ![b] = ledWritten[b] \o send]
        /\ ledThread' = [ledThread EXCEPT ![t] = in]
        /\ UNCHANGED <<ledReadable, ledDue>>
    BY <1>4 DEF LedUart
  <2>2. /\ in \in LedThreadStates
        /\ in.at = "loop" /\ in.board = b
    BY <1>2, LedGoesOn
  <2> HIDE DEF in
  <2>3. PICK command \in LedCommands : send = <<command>>
    BY <1>2, <1>4 DEF LedSends
  <2>4. ledWritten[b] \o send \in Seq(LedCommands)
    BY <1>2, LedSendsTyped, ConcatProperties DEF LedTyped
  <2>5. /\ ledThread'[t] = in /\ ledWritten'[b] = ledWritten[b] \o send
        /\ (\A u \in LedThreads : u # t => ledThread'[u] = ledThread[u])
        /\ \A d \in LedBoards : d # b => ledWritten'[d] = ledWritten[d]
    BY <1>2, <2>1 DEF LedTyped
  <2>6. LedTyped'
    <3>1. ledWritten' \in [LedBoards -> Seq(LedCommands)]
      BY <1>2, <2>1, <2>4 DEF LedTyped
    <3>2. ledThread' \in [LedThreads -> LedThreadStates]
      BY <1>2, <2>1, <2>2 DEF LedTyped
    <3>3. \A u \in LedThreads : ledThread'[u].at # "idle" => ledThread'[u].board \in LedBoards
      BY <1>2, <2>2, <2>5 DEF LedTyped
    <3>4. QED
      BY <1>1, <1>2, <2>1, <3>1, <3>2, <3>3 DEF LedTyped
  <2>7. ASSUME b \notin ledMixed' PROVE LedBoardOK(b)'
    <3>1. b \notin ledMixed
      BY <1>1, <2>7
    <3>2. ledWritten[b] = <<>> /\ LedAwaits(b, command)
          /\ \A u \in LedThreads : LedIn(u, b) => u = t
      BY <1>3, <2>3, <3>1
    <3>3. ledWritten'[b] = <<command>>
      <4>1. \A s \in Seq(LedCommands) : <<>> \o s = s
        OBVIOUS
      <4>2. <<command>> \in Seq(LedCommands)
        OBVIOUS
      <4>3. QED
        BY <2>3, <2>5, <3>2, <4>1, <4>2
    <3>4. LedAwaits(b, command)'
      BY <1>1, <2>1, <3>2, LedSame
    <3>5. LedStands(t)' /\ LedIn(t, b)'
      BY <2>2, <2>5, <3>3, <3>4 DEF LedStands, LedIn
    <3>6. QED
      BY <1>2, <2>5, <3>2, <3>5, LedAloneStays
  <2>8. ledThread'[t].board = b /\ ledMixed \subseteq ledMixed'
    BY <1>1, <2>2, <2>5
  <2>9. QED
    BY <1>1, <2>1, <2>5, <2>6, <2>7, <2>8, LedOneBoard
<1>5. CASE send = <<>>
  <2> DEFINE rest == SubSeq(ledDue[b], Len(ledReadable[b]) + 1, Len(ledDue[b]))
  <2>1. /\ ledReadable' = [ledReadable EXCEPT ![b] = <<>>]
        /\ ledDue' = [ledDue EXCEPT ![b] = rest]
        /\ ledThread' = [ledThread EXCEPT ![t] = LedIdle]
        /\ UNCHANGED ledWritten
    BY <1>5 DEF LedUart
  <2>2. rest \in Seq(LedCommands) /\ <<>> \in Seq(LedCommands)
    <3>1. ledDue[b] \in Seq(LedCommands) /\ ledReadable[b] \in Seq(LedCommands)
      BY <1>2 DEF LedTyped
    <3>2. QED
      BY <3>1
  <2>3. LedIdle \in LedThreadStates /\ LedIdle.at = "idle"
    BY LedIdleIs
  <2> HIDE DEF rest
  <2>4. /\ ledThread'[t] = LedIdle /\ ledDue'[b] = rest /\ ledReadable'[b] = <<>>
        /\ (\A u \in LedThreads : u # t => ledThread'[u] = ledThread[u])
        /\ \A d \in LedBoards : d # b => ledDue'[d] = ledDue[d] /\ ledReadable'[d] = ledReadable[d]
    BY <1>2, <2>1 DEF LedTyped
  <2>5. LedTyped'
    <3>1. /\ ledReadable' \in [LedBoards -> Seq(LedCommands)]
          /\ ledDue' \in [LedBoards -> Seq(LedCommands)]
      BY <1>2, <2>1, <2>2 DEF LedTyped
    <3>2. \A u \in LedThreads : ledThread'[u].at # "idle" => ledThread'[u].board \in LedBoards
      BY <1>2, <2>3, <2>4 DEF LedTyped
    <3>3. QED
      BY <1>1, <1>2, <2>1, <2>3, <3>1, <3>2 DEF LedTyped
  <2>6. ASSUME b \notin ledMixed' PROVE LedBoardOK(b)'
    <3>1. b \notin ledMixed
      BY <1>1, <2>6
    <3>2. ledWritten[b] = <<>> /\ LedSettled(b)
          /\ \A u \in LedThreads : LedIn(u, b) => u = t
      BY <1>3, <1>5, <3>1
    <3>3. rest = <<>>
      <4>1. \A s \in Seq(LedCommands) : SubSeq(s, Len(s) + 1, Len(s)) = <<>>
        OBVIOUS
      <4>2. QED
        BY <1>2, <3>2, <4>1 DEF LedSettled, LedTyped, rest
    <3>4. (ledWritten[b] = <<>>)' /\ LedSettled(b)'
      BY <1>1, <2>1, <2>4, <3>2, <3>3 DEF LedSettled
    <3>5. QED
      BY <1>2, <2>3, <2>4, <3>2, <3>4, LedAloneLeaves
  <2>7. \A d \in LedBoards : d # b =>
          UNCHANGED <<ledEnable[d], ledWritten[d], ledReadable[d], ledQuiet[d], ledDue[d]>>
    BY <1>1, <2>1, <2>4
  <2>8. ledThread'[t].at = "idle" /\ ledMixed \subseteq ledMixed'
    BY <1>1, <2>3, <2>4
  <2>9. QED
    BY <2>4, <2>5, <2>6, <2>7, <2>8, LedOneBoard
<1>6. QED
  BY <1>4, <1>5

(* The board replies, and is settled again. *)
LEMMA LedDispatchHolds ==
  ASSUME LedIInv, NEW t \in LedThreads, LedDispatch(t)
  PROVE  LedIInv'
<1>. PICK b \in LedBoards : b = ledThread[t].board
  BY DEF LedDispatch, LedIInv, LedTyped
<1> DEFINE command == Head(ledWritten[b])
<1>1. /\ ledThread[t].at = "loop" /\ ledWritten[b] # <<>>
      /\ ledWritten' = [ledWritten EXCEPT ![b] = Tail(ledWritten[b])]
      /\ ledReadable' = [ledReadable EXCEPT ![b] = ledReadable[b] \o LedReply(b, command)]
      /\ ledEnable' = [ledEnable EXCEPT ![b] = LedEnabled(b, command)]
      /\ UNCHANGED <<ledLock, ledThread, ledQuiet, ledDue, ledMixed>>
  BY DEF LedDispatch
<1>2. LedTyped
  BY DEF LedIInv
<1>3. command \in LedCommands /\ Tail(ledWritten[b]) \in Seq(LedCommands)
  BY <1>1, <1>2 DEF LedTyped
<1> HIDE DEF command
<1>4. /\ LedReply(b, command) \in Seq(LedCommands) /\ LedEnabled(b, command) \in BOOLEAN
      /\ ledReadable[b] \o LedReply(b, command) \in Seq(LedCommands)
  <2>1. LedReply(b, command) \in Seq(LedCommands)
    BY <1>3, LedReplyTyped
  <2>2. ledReadable[b] \in Seq(LedCommands)
    BY <1>2 DEF LedTyped
  <2>3. QED
    BY <1>2, <2>1, <2>2, ConcatProperties DEF LedEnabled, LedTyped
<1>5. /\ ledWritten'[b] = Tail(ledWritten[b])
      /\ ledReadable'[b] = ledReadable[b] \o LedReply(b, command)
      /\ ledEnable'[b] = LedEnabled(b, command)
      /\ \A d \in LedBoards : d # b =>
            UNCHANGED <<ledEnable[d], ledWritten[d], ledReadable[d], ledQuiet[d], ledDue[d]>>
  BY <1>1, <1>2 DEF LedTyped
<1>6. LedTyped'
  <2>1. ledReadable' \in [LedBoards -> Seq(LedCommands)]
    BY <1>1, <1>2, <1>4 DEF LedTyped
  <2>2. ledWritten' \in [LedBoards -> Seq(LedCommands)]
    BY <1>1, <1>2, <1>3 DEF LedTyped
  <2>3. ledEnable' \in [LedBoards -> BOOLEAN]
    BY <1>1, <1>2, <1>4 DEF LedTyped
  <2>4. QED
    BY <1>1, <1>2, <2>1, <2>2, <2>3 DEF LedTyped
<1>7. ASSUME b \notin ledMixed' PROVE LedBoardOK(b)'
  <2>1. b \notin ledMixed /\ LedIn(t, b)
    BY <1>1, <1>7 DEF LedIn
  <2>2. LedStands(t) /\ \A u \in LedThreads : LedIn(u, b) => u = t
    BY <2>1, LedAlone
  <2>3. PICK c \in LedCommands : ledWritten[b] = <<c>> /\ LedAwaits(b, c)
    BY <1>1, <2>2 DEF LedStands
  <2>4. command = c /\ Tail(ledWritten[b]) = <<>>
    BY <2>3 DEF command
  <2>5. LedSettled(b)'
    <3>1. ledQuiet[b] \in BOOLEAN
      BY <1>2 DEF LedTyped
    <3>2. QED
      BY <1>1, <1>4, <1>5, <2>3, <2>4, <3>1 DEF LedSettled, LedAwaits
  <2>6. LedStands(t)' /\ LedIn(t, b)'
    BY <1>1, <1>5, <2>1, <2>4, <2>5 DEF LedStands, LedIn
  <2>7. QED
    BY <1>1, <1>2, <2>2, <2>6, LedAloneStays
<1>8. QED
  BY <1>1, <1>5, <1>6, <1>7, LedOneBoard

(* The thread leaves its copy of the lock. *)
LEMMA LedLeaveHolds ==
  ASSUME LedIInv, NEW t \in LedThreads, LedLeave(t)
  PROVE  LedIInv'
<1>. PICK b \in LedBoards : b = ledThread[t].board
  BY DEF LedLeave, LedIInv, LedTyped
<1>1. /\ ledThread[t].at = "loop" /\ ledWritten[b] = <<>>
      /\ ledThread' = [ledThread EXCEPT ![t] = LedIdle]
      /\ UNCHANGED <<ledLock, ledEnable, ledWritten, ledReadable, ledQuiet, ledDue, ledMixed>>
  BY DEF LedLeave, ledPort
<1>2. LedTyped
  BY DEF LedIInv
<1>3. LedIdle \in LedThreadStates /\ LedIdle.at = "idle"
  BY LedIdleIs
<1>4. ledThread'[t] = LedIdle /\ \A u \in LedThreads : u # t => ledThread'[u] = ledThread[u]
  BY <1>1, <1>2 DEF LedTyped
<1>5. LedTyped'
  <2>1. \A u \in LedThreads : ledThread'[u].at # "idle" => ledThread'[u].board \in LedBoards
    BY <1>2, <1>3, <1>4 DEF LedTyped
  <2>2. QED
    BY <1>1, <1>2, <1>3, <2>1 DEF LedTyped
<1>6. ASSUME b \notin ledMixed' PROVE LedBoardOK(b)'
  <2>1. b \notin ledMixed /\ LedIn(t, b)
    BY <1>1, <1>6 DEF LedIn
  <2>2. LedStands(t) /\ \A u \in LedThreads : LedIn(u, b) => u = t
    BY <2>1, LedAlone
  <2>3. LedSettled(b)
    BY <1>1, <2>2 DEF LedStands
  <2>4. (ledWritten[b] = <<>>)' /\ LedSettled(b)'
    BY <1>1, <2>3, LedSame
  <2>5. QED
    BY <1>2, <1>3, <1>4, <2>2, <2>4, LedAloneLeaves
<1>7. ledThread'[t].at = "idle" /\ ledMixed \subseteq ledMixed'
  BY <1>1, <1>3, <1>4
<1>8. QED
  BY <1>1, <1>4, <1>5, <1>6, <1>7, LedOneBoard

(* Every step of the boards keeps it. *)
LEMMA LedStepHolds == LedIInv /\ [LedNext]_ledVars => LedIInv'
<1> SUFFICES ASSUME LedIInv, [LedNext]_ledVars PROVE LedIInv'
  OBVIOUS
<1>1. CASE UNCHANGED ledVars
  <2>1. /\ UNCHANGED <<ledLock, ledEnable, ledWritten, ledReadable, ledThread, ledQuiet>>
        /\ UNCHANGED <<ledDue, ledMixed>>
    BY <1>1 DEF ledVars, ledPort
  <2>2. LedTyped'
    BY <2>1 DEF LedIInv, LedTyped
  <2>3. \A b \in LedBoards : LedBoardOK(b) => LedBoardOK(b)'
    BY <2>1, LedBoardKept
  <2>4. QED
    BY <2>1, <2>2, <2>3 DEF LedIInv
<1>2. ASSUME NEW t \in LedThreads, NEW b \in LedBoards, NEW command \in LedCommands,
             LedWrite(t, b, command)
      PROVE  LedIInv'
  <2>1. <<command>> \in LedSends
    BY DEF LedSends
  <2>2. QED
    BY <1>2, <2>1, LedCallHolds DEF LedWrite
<1>3. ASSUME NEW t \in LedThreads, NEW b \in LedBoards, LedRead(t, b) PROVE LedIInv'
  <2>1. <<>> \in LedSends
    BY DEF LedSends
  <2>2. QED
    BY <1>3, <2>1, LedCallHolds DEF LedRead
<1>4. QED
  BY <1>1, <1>2, <1>3, LedEnterHolds, LedUartHolds, LedDispatchHolds, LedLeaveHolds DEF LedNext

(* So it always holds. *)
LEMMA LedInvariance == LedSpec => []LedIInv
  BY LedInitIInv, LedStepHolds, PTL DEF LedSpec

(* board/led1509306.c: whichever threads call, and whichever commands they have
   sent, what lies ready at a board is what the game waits for, in its order,
   as long as the board's handler has had one thread at a time.            *)
THEOREM LedAnswers == LedSpec => []LedRepliesDue
<1>1. LedIInv => LedRepliesDue
  BY DEF LedIInv, LedBoardOK, LedSettled, LedRepliesDue
<1>2. QED
  BY <1>1, LedInvariance, PTL

-----------------------------------------------------------------------------
(* Amex: no thread is told of a press of a switch twice. *)

(* A thread has looked at a switch and not cleared it yet. *)
AmexOwes(t, s) ==
    \/ s = "test" /\ amexThread[t].at = "test1"
    \/ s = "service" /\ amexThread[t].at \in {"service1", "service2"}

(* A press that waits is new to a thread, or the thread is about to clear it. *)
AmexPressInv ==
    /\ amexPressed \in [AmexSwitches -> Nat]
    /\ amexSeen \in [AmexThreads -> [AmexSwitches -> Nat]]
    /\ \A t \in AmexThreads, s \in AmexSwitches :
          /\ amexSeen[t][s] <= amexPressed[s]
          /\ s \in amexButtons /\ ~AmexOwes(t, s) => amexSeen[t][s] < amexPressed[s]

(* What a thread does with a device's file is no look at the switches. *)
LEMMA AmexPressKept ==
  ASSUME AmexShape, AmexPressInv, NEW t \in AmexThreads, UNCHANGED amexPanel,
         \A u \in AmexThreads : u # t => amexThread'[u] = amexThread[u],
         \A s \in AmexSwitches : ~AmexOwes(t, s)
  PROVE  AmexPressInv'
<1>1. /\ UNCHANGED <<amexButtons, amexPressed, amexSeen>>
      /\ \A u \in AmexThreads, s \in AmexSwitches : AmexOwes(u, s) => AmexOwes(u, s)'
  BY DEF amexPanel, AmexOwes
<1>2. QED
  BY <1>1 DEF AmexPressInv

(* A look tells a thread of a press that is new to it. *)
LEMMA AmexLookCounts ==
  ASSUME AmexShape, AmexPressInv, NEW t \in AmexThreads, NEW s \in AmexSwitches,
         NEW from, NEW down, NEW up, AmexLook(t, s, from, down, up),
         \/ s = "test" /\ from = "idle" /\ down = "test1" /\ up = "service"
         \/ s = "service" /\ from = "service" /\ down = "service1" /\ up = "idle"
  PROVE  AmexPressInv'
<1>1. /\ amexThread[t].at = from
      /\ amexButtons' = amexButtons /\ amexPressed' = amexPressed
      /\ \A u \in AmexThreads : u # t => amexThread'[u] = amexThread[u]
  BY DEF AmexLook, AmexGoes, AmexShape
<1>2. ~AmexOwes(t, "test") /\ ~AmexOwes(t, "service")
  BY <1>1 DEF AmexOwes
<1>3. \A u \in AmexThreads, r \in AmexSwitches : AmexOwes(u, r) => AmexOwes(u, r)'
  BY <1>1, <1>2 DEF AmexOwes, AmexSwitches
<1>4. CASE UNCHANGED amexSeen
  BY <1>1, <1>3, <1>4 DEF AmexPressInv
<1>5. CASE ~UNCHANGED amexSeen
  <2>1. /\ s \in amexButtons /\ amexSeen' = [amexSeen EXCEPT ![t][s] = @ + 1]
        /\ amexThread' = [amexThread EXCEPT ![t].at = down, ![t].fd = amexThread[t].fd]
    BY <1>5 DEF AmexLook, AmexGoes
  <2>2. amexThread'[t].at = down
    BY <2>1 DEF AmexShape
  <2>3. AmexOwes(t, s)'
    BY <2>2 DEF AmexOwes
  <2>4. /\ amexSeen'[t][s] = amexSeen[t][s] + 1
        /\ \A u \in AmexThreads, r \in AmexSwitches :
              u # t \/ r # s => amexSeen'[u][r] = amexSeen[u][r]
        /\ amexSeen' \in [AmexThreads -> [AmexSwitches -> Nat]]
    BY <2>1 DEF AmexPressInv
  <2>5. amexSeen[t][s] < amexPressed[s] /\ amexSeen[t][s] \in Nat /\ amexPressed[s] \in Nat
    BY <1>2, <2>1 DEF AmexPressInv, AmexSwitches
  <2>6. amexSeen'[t][s] <= amexPressed[s]
    BY <2>4, <2>5
  <2>7. ASSUME NEW u \in AmexThreads, NEW r \in AmexSwitches
        PROVE  /\ amexSeen'[u][r] <= amexPressed'[r]
               /\ r \in amexButtons' /\ ~AmexOwes(u, r)' => amexSeen'[u][r] < amexPressed'[r]
    <3>1. CASE u = t /\ r = s
      BY <1>1, <2>3, <2>6, <3>1
    <3>2. CASE u # t \/ r # s
      BY <1>1, <1>3, <2>4, <3>2 DEF AmexPressInv
    <3>3. QED
      BY <3>1, <3>2
  <2>8. QED
    BY <1>1, <2>4, <2>7 DEF AmexPressInv
<1>6. QED
  BY <1>4, <1>5

(* What is cleared waits for nobody. *)
LEMMA AmexUnpressCounts ==
  ASSUME AmexShape, AmexPressInv, NEW t \in AmexThreads, NEW s \in AmexSwitches,
         NEW from, NEW to, AmexUnpress(t, s, from, to),
         \/ s = "test" /\ from = "test1" /\ to = "test2"
         \/ s = "service" /\ from = "test2" /\ to = "service"
         \/ s = "test" /\ from = "service1" /\ to = "service2"
         \/ s = "service" /\ from = "service2" /\ to = "idle"
  PROVE  AmexPressInv'
<1>1. /\ amexThread[t].at = from
      /\ amexButtons' = amexButtons \ {s} /\ amexPressed' = amexPressed /\ amexSeen' = amexSeen
      /\ amexThread' = [amexThread EXCEPT ![t].at = to, ![t].fd = amexThread[t].fd]
  BY DEF AmexUnpress, AmexUnpressed, AmexGoes
<1>2. /\ \A u \in AmexThreads : u # t => amexThread'[u] = amexThread[u]
      /\ amexThread'[t].at = to
  BY <1>1 DEF AmexShape
<1>3. \A u \in AmexThreads, r \in AmexSwitches :
         r # s /\ AmexOwes(u, r) => AmexOwes(u, r)'
  <2> SUFFICES ASSUME NEW u \in AmexThreads, NEW r \in AmexSwitches, r # s, AmexOwes(u, r)
               PROVE  AmexOwes(u, r)'
    OBVIOUS
  <2>1. CASE u # t
    BY <1>2, <2>1 DEF AmexOwes
  <2>2. CASE u = t /\ r = "test"
    BY <1>1, <1>2, <2>2 DEF AmexOwes
  <2>3. CASE u = t /\ r = "service"
    BY <1>1, <1>2, <2>3 DEF AmexOwes
  <2>4. QED
    BY <2>1, <2>2, <2>3 DEF AmexSwitches
<1>4. ASSUME NEW u \in AmexThreads, NEW r \in AmexSwitches
      PROVE  /\ amexSeen'[u][r] <= amexPressed'[r]
             /\ r \in amexButtons' /\ ~AmexOwes(u, r)' => amexSeen'[u][r] < amexPressed'[r]
  <2>1. r \in amexButtons' /\ ~AmexOwes(u, r)' => r \in amexButtons /\ ~AmexOwes(u, r)
    BY <1>1, <1>3
  <2>2. QED
    BY <1>1, <2>1 DEF AmexPressInv
<1>5. QED
  BY <1>1, <1>4 DEF AmexPressInv

(* It holds from the start, and every look and press keeps it. *)
LEMMA AmexPressInvariance == AmexSpec => []AmexPressInv
<1>1. AmexInit => AmexPressInv
  BY DEF AmexInit, AmexPressInv
<1>2. AmexIInv /\ AmexPressInv /\ [AmexNext]_amexVars => AmexPressInv'
  <2> SUFFICES ASSUME AmexIInv, AmexPressInv, [AmexNext]_amexVars PROVE AmexPressInv'
    OBVIOUS
  <2>1. AmexShape
    BY DEF AmexIInv
  <2>2. ASSUME UNCHANGED amexPanel, UNCHANGED amexThread PROVE AmexPressInv'
    BY <2>2 DEF amexPanel, AmexPressInv, AmexOwes
  <2>3. ASSUME NEW t \in AmexThreads,
               \/ \E d \in AmexDevices : AmexOpenStore(t, d)
               \/ AmexClear(t) \/ AmexCreate(t) \/ AmexResize(t) \/ AmexResizeFails(t)
               \/ AmexPublish(t) \/ AmexAnswer(t) \/ AmexCloseHandle(t)
               \/ \E fd \in amexGame : AmexClose(t, fd)
        PROVE  AmexPressInv'
    <3>1. UNCHANGED amexPanel
      BY <2>3 DEF AmexOpenStore, AmexClear, AmexCreate, AmexResize, AmexResizeFails,
                  AmexPublish, AmexAnswer, AmexCloseHandle, AmexClose
    <3>2. amexThread[t].at \in {"idle", "checked", "cleared", "created", "sized",
                                "published", "closing"}
      BY <2>3 DEF AmexOpenStore, AmexClear, AmexCreate, AmexResize, AmexResizeFails,
                  AmexPublish, AmexAnswer, AmexCloseHandle, AmexClose
    <3>3. \A u \in AmexThreads : u # t => amexThread'[u] = amexThread[u]
      BY <2>1, <2>3 DEF AmexShape, AmexGoes, AmexOpenStore, AmexClear, AmexCreate, AmexResize,
                        AmexResizeFails, AmexPublish, AmexAnswer, AmexCloseHandle, AmexClose
    <3>4. \A s \in AmexSwitches : ~AmexOwes(t, s)
      BY <3>2 DEF AmexOwes
    <3>5. QED
      BY <2>1, <3>1, <3>3, <3>4, AmexPressKept
  <2>4. ASSUME NEW t \in AmexThreads, AmexGetSwitches(t) PROVE AmexPressInv'
    <3>1. "test" \in AmexSwitches /\ "service" \in AmexSwitches
      BY DEF AmexSwitches
    <3>2. CASE \/ AmexLook(t, "test", "idle", "test1", "service")
               \/ AmexLook(t, "service", "service", "service1", "idle")
      BY <2>1, <3>1, <3>2, AmexLookCounts
    <3>3. CASE \/ AmexUnpress(t, "test", "test1", "test2")
               \/ AmexUnpress(t, "service", "test2", "service")
               \/ AmexUnpress(t, "test", "service1", "service2")
               \/ AmexUnpress(t, "service", "service2", "idle")
      BY <2>1, <3>1, <3>3, AmexUnpressCounts
    <3>4. QED
      BY <2>4, <3>2, <3>3 DEF AmexGetSwitches
  <2>5. ASSUME NEW s \in AmexSwitches, AmexPress(s) PROVE AmexPressInv'
    <3>1. /\ amexButtons' = amexButtons \cup {s} /\ amexSeen' = amexSeen
          /\ amexPressed' = [amexPressed EXCEPT ![s] = amexPressed[s] + 1]
          /\ \A t \in AmexThreads, r \in AmexSwitches : AmexOwes(t, r)' <=> AmexOwes(t, r)
      BY <2>5 DEF AmexPress, AmexOwes
    <3>2. QED
      BY <3>1 DEF AmexPressInv
  <2>6. QED
    BY <2>2, <2>3, <2>4, <2>5 DEF AmexNext, amexVars, amexPanel, AmexOpenMemory, AmexOpenOther
<1>3. QED
  BY <1>1, <1>2, AmexInvariance, PTL DEF AmexSpec

(* amex/gpio.c: of the presses that come over the network no thread is told
   more often than they were made, though it clears a switch some steps after
   it has looked, and both switches for the one that was down.             *)
THEOREM AmexCountsPresses == AmexSpec => []AmexPressesOnce
<1>1. AmexPressInv => AmexPressesOnce
  BY DEF AmexPressInv, AmexPressesOnce
<1>2. QED
  BY <1>1, AmexPressInvariance, PTL

-----------------------------------------------------------------------------
(* The display: it has shown what the commands that are handled say. *)

(* board/vfd.c: what is sent stays within the game's bound, and the replies
   within the buffer for them, also after a command has failed             *)
THEOREM VfdTypes == VfdSpec => []VfdTypeOK
<1>1. VfdInit => VfdTypeOK
  BY VfdEncodingsAssumption, VfdBoundsAssumption DEF VfdInit, VfdTypeOK
<1>2. VfdTypeOK /\ [VfdNext]_vfdVars => VfdTypeOK'
  <2> SUFFICES ASSUME VfdTypeOK, [VfdNext]_vfdVars PROVE VfdTypeOK'
    OBVIOUS
  <2>1. ASSUME NEW commands \in Seq(VfdCommands), VfdWrite(commands) PROVE VfdTypeOK'
    BY <2>1, VfdBoundsAssumption DEF VfdWrite, VfdTypeOK
  <2>2. CASE VfdRead
    BY <2>2, VfdBoundsAssumption DEF VfdRead, VfdTypeOK
  <2>3. ASSUME NEW command \in VfdCommands, NEW last \in BOOLEAN, VfdDispatch(command, last),
               UNCHANGED <<vfdConfig, vfdSent>>, ~last => vfdPos < Len(vfdWritten)
        PROVE  VfdTypeOK'
    <3>1. CASE VfdGiveUp(command)
      BY <2>3, <3>1 DEF VfdGiveUp, VfdTypeOK
    <3>2. CASE ~VfdGiveUp(command)
      <4>1. /\ ~VfdFails(command)
            /\ vfdEncoding' = VfdEncodingAfter(command, vfdEncoding)
            /\ vfdReadable' = vfdReadable + (IF command = "version" THEN 1 ELSE 0)
            /\ IF last THEN VfdEnd(command)
               ELSE vfdPos' = vfdPos + 1 /\ UNCHANGED <<vfdWritten, vfdAt>>
        BY <2>3, <3>2 DEF VfdDispatch
      <4>2. vfdEncoding' \in VfdEncodings
        BY <4>1, VfdEncodingsAssumption DEF VfdEncodingAfter, VfdTypeOK
      <4>3. vfdReadable' \in 0 .. VfdRoom
        BY <4>1, VfdBoundsAssumption DEF VfdFails, VfdTypeOK
      <4>4. vfdWritten' \in Seq(VfdCommands) /\ vfdAt' \in {"idle", "loop"}
            /\ vfdPos' \in 0 .. Len(vfdWritten')
        <5>1. CASE last
          <6>1. <<>> \in Seq(VfdCommands) /\ Len(<<>>) = 0
            OBVIOUS
          <6>2. QED
            BY <4>1, <5>1, <6>1 DEF VfdEnd, VfdLeft
        <5>2. CASE ~last
          BY <2>3, <4>1, <5>2 DEF VfdTypeOK
        <5>3. QED
          BY <5>1, <5>2
      <4>5. QED
        BY <2>3, <4>2, <4>3, <4>4 DEF VfdTypeOK
    <3>3. QED
      BY <3>1, <3>2
  <2>4. CASE VfdHandle
    <3>1. vfdWritten[vfdPos + 1] \in VfdCommands
      BY <2>4 DEF VfdHandle, VfdTypeOK
    <3>2. QED
      BY <2>3, <2>4, <3>1 DEF VfdHandle
  <2>5. CASE VfdUndefined
    BY <2>3, <2>5 DEF VfdUndefined
  <2>6. CASE UNCHANGED vfdVars
    BY <2>6 DEF vfdVars, VfdTypeOK
  <2>7. \A c, d \in VfdCommands : <<c>> \in Seq(VfdCommands) /\ <<c, d>> \in Seq(VfdCommands)
    OBVIOUS
  <2>8. QED
    BY <2>1, <2>2, <2>4, <2>5, <2>6, <2>7 DEF VfdNext
<1>3. QED
  BY <1>1, <1>2, PTL DEF VfdSpec

(* What may be shown: the clearing of the display, and a text in an encoding *)
VfdShowable == [of : {VfdBlank}, fate : {"whole"}]
               \cup [of : VfdEncodings \cup {"raw"}, fate : {"whole", "lengthened", "lost"}]

(* What has been shown, as texts, grows text by text. *)
LEMMA VfdOfGrows ==
  ASSUME NEW shown \in Seq(VfdShowable), NEW one \in VfdShowable
  PROVE  VfdOf(shown \o <<one>>) = VfdOf(shown) \o <<one.of>>
<1> DEFINE n == Len(shown)
<1>1. /\ shown \o <<one>> \in Seq(VfdShowable) /\ Len(shown \o <<one>>) = n + 1
      /\ DOMAIN (shown \o <<one>>) = 1 .. n + 1 /\ DOMAIN shown = 1 .. n
      /\ \A i \in 1 .. n + 1 : (shown \o <<one>>)[i] = IF i <= n THEN shown[i] ELSE one
      /\ n \in Nat
  OBVIOUS
<1> DEFINE whole == VfdOf(shown \o <<one>>)
           part == VfdOf(shown)
<1>2. /\ part \in Seq({shown[i].of : i \in 1 .. n}) /\ Len(part) = n
      /\ \A i \in 1 .. n : part[i] = shown[i].of
  <2>1. part = [i \in 1 .. n |-> shown[i].of]
    BY <1>1 DEF VfdOf
  <2>2. part \in [1 .. n -> {shown[i].of : i \in 1 .. n}]
    BY <2>1
  <2>3. QED
    BY <1>1, <2>1, <2>2
<1>3. whole = [i \in 1 .. n + 1 |-> (shown \o <<one>>)[i].of]
  BY <1>1 DEF VfdOf
<1>4. part \o <<one.of>> = [i \in 1 .. n + 1 |-> IF i <= n THEN part[i] ELSE one.of]
  <2> DEFINE S == {shown[i].of : i \in 1 .. n} \cup {one.of}
             last == <<one.of>>
  <2>1. part \in Seq(S) /\ last \in Seq(S) /\ Len(last) = 1 /\ last[1] = one.of
    BY <1>2
  <2> HIDE DEF part, last, S
  <2>2. /\ part \o last \in Seq(S) /\ Len(part \o last) = n + 1
        /\ \A i \in 1 .. n + 1 : (part \o last)[i] = IF i <= n THEN part[i] ELSE last[i - n]
    <3>1. /\ part \o last \in Seq(S) /\ Len(part \o last) = Len(part) + Len(last)
          /\ \A i \in 1 .. Len(part) + Len(last) :
                (part \o last)[i] = IF i <= Len(part) THEN part[i] ELSE last[i - Len(part)]
      BY <2>1, ConcatProperties
    <3>2. Len(part) = n /\ Len(last) = 1
      BY <1>2, <2>1
    <3> HIDE DEF n
    <3>3. QED
      BY <3>1, <3>2
  <2>3. part \o last = [i \in 1 .. n + 1 |-> (part \o last)[i]]
    <3>1. part \o last \in [1 .. Len(part \o last) -> S]
      BY <2>2, LenProperties
    <3>2. QED
      BY <2>2, <3>1
  <2>4. \A i \in 1 .. n + 1 : (part \o last)[i] = IF i <= n THEN part[i] ELSE one.of
    <3>1. \A i \in 1 .. n + 1 : i <= n \/ i - n = 1
      BY <1>1
    <3>2. QED
      BY <2>1, <2>2, <3>1
  <2>5. QED
    BY <2>3, <2>4 DEF last
<1>5. \A i \in 1 .. n + 1 :
         (shown \o <<one>>)[i].of = IF i <= n THEN part[i] ELSE one.of
  BY <1>1, <1>2
<1>6. QED
  BY <1>3, <1>4, <1>5

(* A command shows what it sends, whatever becomes of it. *)
LEMMA VfdShowsIt ==
  ASSUME vfdShown \in Seq(VfdShowable), NEW encoding \in VfdEncodings,
         NEW command \in VfdCommands, NEW fate \in VfdFates(command)
  PROVE  /\ VfdShows(command, encoding, fate) \in Seq(VfdShowable)
         /\ VfdOf(VfdShows(command, encoding, fate))
               = VfdOf(vfdShown) \o VfdSends(command, encoding)
<1> DEFINE sent == VfdSends(command, encoding)
           tail == [i \in DOMAIN sent |-> [of |-> sent[i], fate |-> fate]]
<1>1. VfdShows(command, encoding, fate) = vfdShown \o tail
  BY DEF VfdShows
<1>2. CASE sent = <<>>
  <2>1. tail = <<>> /\ vfdShown \o <<>> = vfdShown
    BY <1>2
  <2>2. VfdOf(vfdShown) \o <<>> = VfdOf(vfdShown)
    <3>1. VfdOf(vfdShown) \in Seq({vfdShown[i].of : i \in 1 .. Len(vfdShown)})
      BY DEF VfdOf
    <3>2. QED
      BY <3>1
  <2>3. QED
    BY <1>1, <1>2, <2>1, <2>2
<1>3. ASSUME NEW text, sent = <<text>>,
             [of |-> text, fate |-> fate] \in VfdShowable
      PROVE  /\ VfdShows(command, encoding, fate) \in Seq(VfdShowable)
             /\ VfdOf(VfdShows(command, encoding, fate)) = VfdOf(vfdShown) \o sent
  <2>1. PICK one \in VfdShowable : one = [of |-> text, fate |-> fate]
    BY <1>3
  <2>2. tail = <<one>> /\ one.of = text
    BY <1>3, <2>1
  <2>3. vfdShown \o <<one>> \in Seq(VfdShowable)
    OBVIOUS
  <2>4. VfdOf(vfdShown \o <<one>>) = VfdOf(vfdShown) \o <<text>>
    BY <2>2, VfdOfGrows
  <2> HIDE DEF tail, sent
  <2>5. QED
    BY <1>1, <1>3, <2>2, <2>3, <2>4
<1>4. CASE vfdConfig.api /\ command \in VfdClearing
  <2>1. sent = <<VfdBlank>>
    BY <1>4 DEF VfdSends
  <2>2. fate = "whole"
    BY <1>4 DEF VfdFates, VfdClearing, VfdTexts
  <2>3. QED
    BY <1>3, <2>1, <2>2 DEF VfdShowable
<1>5. CASE vfdConfig.api /\ command \in VfdTexts
  <2>1. sent = <<VfdText(encoding)>>
    BY <1>5 DEF VfdSends, VfdClearing, VfdTexts
  <2>2. fate \in {"whole", "lengthened", "lost"}
    BY <1>5 DEF VfdFates
  <2>3. VfdText(encoding) \in VfdEncodings \cup {"raw"}
    BY DEF VfdText
  <2>4. QED
    BY <1>3, <2>1, <2>2, <2>3 DEF VfdShowable
<1>6. QED
  <2>1. ~vfdConfig.api \/ command \notin VfdClearing \cup VfdTexts => sent = <<>>
    BY DEF VfdSends
  <2>2. QED
    BY <1>2, <1>4, <1>5, <2>1

(* So what has been shown is showable. *)
VfdShownOK == vfdShown \in Seq(VfdShowable)

LEMMA VfdShownTyped == VfdSpec => []VfdShownOK
<1>1. VfdInit => VfdShownOK
  <2>1. <<>> \in Seq(VfdShowable)
    OBVIOUS
  <2>2. QED
    BY <2>1 DEF VfdInit, VfdShownOK
<1>2. VfdTypeOK /\ VfdShownOK /\ [VfdNext]_vfdVars => VfdShownOK'
  <2> SUFFICES ASSUME VfdTypeOK, vfdShown \in Seq(VfdShowable), [VfdNext]_vfdVars
               PROVE  vfdShown' \in Seq(VfdShowable)
    BY DEF VfdShownOK
  <2>1. ASSUME NEW command \in VfdCommands, NEW last, VfdDispatch(command, last)
        PROVE  vfdShown' \in Seq(VfdShowable)
    <3>1. CASE VfdGiveUp(command)
      BY <3>1 DEF VfdGiveUp
    <3>2. CASE \E fate \in VfdFates(command) :
                  vfdShown' = VfdShows(command, vfdEncoding, fate)
      BY <3>2, VfdShowsIt DEF VfdTypeOK
    <3>3. QED
      BY <2>1, <3>1, <3>2 DEF VfdDispatch
  <2>2. CASE VfdHandle
    <3>1. vfdWritten[vfdPos + 1] \in VfdCommands
      BY <2>2 DEF VfdHandle, VfdTypeOK
    <3>2. QED
      BY <2>1, <2>2, <3>1 DEF VfdHandle
  <2>3. CASE VfdUndefined
    BY <2>1, <2>3 DEF VfdUndefined
  <2>4. QED
    BY <2>2, <2>3 DEF VfdNext, VfdWrite, VfdRead, vfdVars
<1>3. QED
  BY <1>1, <1>2, VfdTypes, PTL DEF VfdSpec

(* The encoding and the texts that have been shown *)
VfdNow == [encoding |-> vfdEncoding, shown |-> VfdOf(vfdShown)]

(* Between calls the buffer is empty and the display as far as it should be;
   within one it will be when the commands that are left are handled.      *)
VfdOnTheWay ==
    /\ vfdWritten \in Seq(VfdCommands) /\ vfdPos \in 0 .. 1
    /\ IF vfdAt = "idle" THEN vfdWritten = <<>> /\ vfdDisplay = VfdNow
       ELSE /\ Len(vfdWritten) \in 1 .. 2 /\ vfdPos < Len(vfdWritten)
            /\ vfdWritten[Len(vfdWritten)] # "cursor_text"
            /\ LET next == VfdDisplayAfter(VfdNow, vfdWritten[vfdPos + 1])
               IN  vfdDisplay = IF vfdPos + 1 = Len(vfdWritten) THEN next
                                ELSE VfdDisplayAfter(next, vfdWritten[2])

(* The inductive invariant of the display *)
VfdIInv == vfdOdd \in BOOLEAN /\ (~vfdOdd => VfdOnTheWay)

(* It holds when nothing has been written. *)
LEMMA VfdInitIInv == VfdInit => VfdIInv
<1> SUFFICES ASSUME VfdInit PROVE VfdIInv
  OBVIOUS
<1>1. /\ vfdWritten = <<>> /\ vfdAt = "idle" /\ vfdPos = 0 /\ vfdOdd \in BOOLEAN
      /\ vfdDisplay = VfdNow
  <2>1. VfdOf(<<>>) = <<>>
    BY DEF VfdOf
  <2>2. QED
    BY <2>1 DEF VfdInit, VfdNow
<1>2. <<>> \in Seq(VfdCommands)
  OBVIOUS
<1>3. vfdPos \in 0 .. 1 /\ vfdWritten \in Seq(VfdCommands)
  BY <1>1, <1>2
<1>4. QED
  BY <1>1, <1>3 DEF VfdIInv, VfdOnTheWay

(* The game writes one command or two, *)
LEMMA VfdWriteHolds ==
  ASSUME VfdIInv, NEW commands \in Seq(VfdCommands), Len(commands) \in 1 .. 2, VfdWrite(commands)
  PROVE  VfdIInv'
<1>1. /\ vfdAt = "idle" /\ vfdWritten' = vfdWritten \o commands
      /\ vfdAt' = "loop" /\ vfdPos' = 0 /\ vfdDisplay' = VfdDisplayed(commands)
      /\ vfdOdd' = (vfdOdd \/ commands[Len(commands)] = "cursor_text")
      /\ UNCHANGED <<vfdConfig, vfdEncoding, vfdShown>>
  BY DEF VfdWrite
<1>2. vfdOdd' \in BOOLEAN
  BY <1>1 DEF VfdIInv
<1>3. ASSUME ~vfdOdd' PROVE VfdOnTheWay'
  <2>1. /\ ~vfdOdd /\ commands[Len(commands)] # "cursor_text"
        /\ vfdWritten = <<>> /\ vfdDisplay = VfdNow
    BY <1>1, <1>3 DEF VfdIInv, VfdOnTheWay
  <2>2. vfdWritten' = commands
    <3>1. <<>> \o commands = commands
      OBVIOUS
    <3>2. QED
      BY <1>1, <2>1, <3>1
  <2>3. VfdNow' = VfdNow
        /\ \A display, command :
              VfdDisplayAfter(display, command)' = VfdDisplayAfter(display, command)
    BY <1>1 DEF VfdNow, VfdDisplayAfter, VfdEncodingAfter, VfdSends, VfdText
  <2>4. QED
    BY <1>1, <2>1, <2>2, <2>3 DEF VfdOnTheWay, VfdDisplayed
<1>4. QED
  BY <1>2, <1>3 DEF VfdIInv

(* and the handler takes one of them out. *)
LEMMA VfdHandleHolds ==
  ASSUME VfdIInv, VfdTypeOK, VfdShownOK, VfdHandle
  PROVE  VfdIInv'
<1> DEFINE command == vfdWritten[vfdPos + 1]
           last == vfdPos + 1 = Len(vfdWritten) /\ command # "cursor_text"
<1>1. /\ vfdAt = "loop" /\ UNCHANGED <<vfdConfig, vfdDisplay>>
      /\ VfdDispatch(command, last)
  BY DEF VfdHandle
<1>2. CASE VfdGiveUp(command)
  BY <1>2 DEF VfdGiveUp, VfdIInv
<1>3. CASE /\ vfdEncoding' = VfdEncodingAfter(command, vfdEncoding)
           /\ \E fate \in VfdFates(command) : vfdShown' = VfdShows(command, vfdEncoding, fate)
           /\ IF last THEN VfdEnd(command)
              ELSE vfdPos' = vfdPos + 1 /\ UNCHANGED <<vfdWritten, vfdAt>>
           /\ UNCHANGED vfdOdd
  <2>1. VfdNow' = VfdDisplayAfter(VfdNow, command)
    <3>1. command \in VfdCommands /\ vfdEncoding \in VfdEncodings
      BY DEF VfdHandle, VfdTypeOK
    <3> HIDE DEF command
    <3>2. VfdOf(vfdShown)' = VfdOf(vfdShown) \o VfdSends(command, vfdEncoding)
      BY <1>3, <3>1, VfdShowsIt DEF VfdOf, VfdShownOK
    <3>3. QED
      BY <1>3, <3>2 DEF VfdNow, VfdDisplayAfter
  <2>2. \A display, c : VfdDisplayAfter(display, c)' = VfdDisplayAfter(display, c)
    BY <1>1 DEF VfdDisplayAfter, VfdEncodingAfter, VfdSends, VfdText
  <2>3. ASSUME ~vfdOdd PROVE VfdOnTheWay'
    <3>1. VfdOnTheWay
      BY <2>3 DEF VfdIInv
    <3>2. CASE vfdPos + 1 = Len(vfdWritten)
      <4>1. <<>> \in Seq(VfdCommands)
        OBVIOUS
      <4>2. last
        BY <1>1, <3>1, <3>2 DEF VfdOnTheWay
      <4>3. vfdWritten' = <<>> /\ vfdAt' = "idle" /\ vfdPos' = 0
        BY <1>3, <4>2 DEF VfdEnd, VfdLeft
      <4>4. vfdDisplay' = VfdNow'
        BY <1>1, <2>1, <3>1, <3>2 DEF VfdOnTheWay
      <4>5. QED
        BY <4>1, <4>3, <4>4 DEF VfdOnTheWay
    <3>3. CASE vfdPos + 1 # Len(vfdWritten)
      <4>1. Len(vfdWritten) = 2 /\ vfdPos = 0 /\ vfdPos' = 1 /\ UNCHANGED <<vfdWritten, vfdAt>>
        BY <1>1, <1>3, <3>1, <3>3 DEF VfdOnTheWay
      <4>2. vfdDisplay' = VfdDisplayAfter(VfdDisplayAfter(VfdNow, command), vfdWritten[2])
        BY <1>1, <3>1, <3>3 DEF VfdOnTheWay
      <4>3. vfdDisplay' = VfdDisplayAfter(VfdNow, vfdWritten[2])'
        BY <2>1, <2>2, <4>1, <4>2
      <4>4. vfdWritten' \in Seq(VfdCommands) /\ vfdPos' \in 0 .. 1
        BY <3>1, <4>1 DEF VfdOnTheWay
      <4>5. /\ Len(vfdWritten') \in 1 .. 2 /\ vfdPos' < Len(vfdWritten')
            /\ vfdWritten'[Len(vfdWritten')] # "cursor_text" /\ vfdAt' = "loop"
        <5>1. vfdAt = "loop" /\ vfdWritten[Len(vfdWritten)] # "cursor_text"
          BY <1>1, <3>1 DEF VfdOnTheWay
        <5>2. Len(vfdWritten') = 2 /\ Len(vfdWritten') \in 1 .. 2 /\ vfdPos' < Len(vfdWritten')
          BY <4>1
        <5>3. vfdWritten'[Len(vfdWritten')] # "cursor_text" /\ vfdAt' = "loop"
          BY <4>1, <5>1
        <5>4. QED
          BY <5>2, <5>3
      <4>6. vfdPos' + 1 = Len(vfdWritten') /\ vfdPos' + 1 = 2
        BY <4>1
      <4>7. vfdDisplay' = VfdDisplayAfter(VfdNow, vfdWritten[vfdPos + 1])'
        BY <4>3, <4>6
      <4>8. QED
        BY <4>4, <4>5, <4>6, <4>7 DEF VfdOnTheWay
    <3>4. QED
      BY <3>2, <3>3
  <2>4. QED
    BY <1>3, <2>3 DEF VfdIInv
<1>4. QED
  BY <1>1, <1>2, <1>3 DEF VfdDispatch

(* Every step of the display keeps it. *)
LEMMA VfdStepHolds ==
  ASSUME VfdIInv, VfdTypeOK, VfdShownOK, [VfdNext]_vfdVars
  PROVE  VfdIInv'
<1>1. ASSUME NEW c \in VfdCommands, VfdWrite(<<c>>) PROVE VfdIInv'
  <2>1. <<c>> \in Seq(VfdCommands) /\ Len(<<c>>) = 1
    OBVIOUS
  <2> DEFINE commands == <<c>>
  <2>2. commands \in Seq(VfdCommands) /\ Len(commands) \in 1 .. 2 /\ VfdWrite(commands)
    BY <1>1, <2>1
  <2> HIDE DEF commands
  <2>3. QED
    BY <2>2, VfdWriteHolds
<1>2. ASSUME NEW c \in VfdCommands, NEW d \in VfdCommands, VfdWrite(<<c, d>>) PROVE VfdIInv'
  <2>1. <<c, d>> \in Seq(VfdCommands) /\ Len(<<c, d>>) = 2
    OBVIOUS
  <2> DEFINE commands == <<c, d>>
  <2>2. commands \in Seq(VfdCommands) /\ Len(commands) \in 1 .. 2 /\ VfdWrite(commands)
    BY <1>2, <2>1
  <2> HIDE DEF commands
  <2>3. QED
    BY <2>2, VfdWriteHolds
<1>3. CASE VfdRead \/ UNCHANGED vfdVars
  BY <1>3
     DEF VfdRead, vfdVars, VfdIInv, VfdOnTheWay, VfdNow, VfdDisplayAfter, VfdEncodingAfter,
              VfdSends, VfdText
<1>4. CASE VfdUndefined
  <2>1. vfdAt = "loop" /\ vfdPos = Len(vfdWritten)
    BY <1>4 DEF VfdUndefined, VfdRest
  <2>2. vfdOdd \in BOOLEAN /\ vfdOdd
    BY <2>1 DEF VfdIInv, VfdOnTheWay
  <2>3. vfdOdd' \in BOOLEAN /\ vfdOdd'
    BY <1>4, <2>2 DEF VfdUndefined, VfdDispatch, VfdGiveUp
  <2>4. QED
    BY <2>3 DEF VfdIInv
<1>5. QED
  BY <1>1, <1>2, <1>3, <1>4, VfdHandleHolds DEF VfdNext

(* board/vfd.c: as long as no command fails and no text ends a write, each
   text is on its way to the display once, in order and in its encoding,
   however many are written; a text may be lost or lengthened there, the
   clearing of the display arrives as it is.                               *)
THEOREM VfdShowsEachOnce == VfdSpec => []VfdShowsTexts
<1>1. VfdIInv /\ VfdTypeOK /\ VfdShownOK /\ [VfdNext]_vfdVars => VfdIInv'
  BY VfdStepHolds
<1>2. VfdSpec => []VfdIInv
  BY <1>1, VfdInitIInv, VfdTypes, VfdShownTyped, PTL DEF VfdSpec
<1>3. VfdIInv /\ VfdShownOK => VfdShowsTexts
  <2> SUFFICES ASSUME VfdIInv, vfdShown \in Seq(VfdShowable), vfdAt = "idle", ~vfdOdd
               PROVE  /\ VfdOf(vfdShown) = vfdDisplay.shown /\ vfdEncoding = vfdDisplay.encoding
                      /\ \A i \in DOMAIN vfdShown :
                            vfdShown[i].of = VfdBlank => vfdShown[i].fate = "whole"
    BY DEF VfdShowsTexts, VfdShownOK
  <2>1. VfdOf(vfdShown) = vfdDisplay.shown /\ vfdEncoding = vfdDisplay.encoding
    BY DEF VfdIInv, VfdOnTheWay, VfdNow
  <2>2. ASSUME NEW i \in DOMAIN vfdShown, vfdShown[i].of = VfdBlank
        PROVE  vfdShown[i].fate = "whole"
    <3>1. vfdShown[i] \in VfdShowable
      OBVIOUS
    <3>2. VfdBlank \notin VfdEncodings \cup {"raw"}
      BY VfdEncodingsAssumption DEF VfdBlank
    <3>3. QED
      BY <2>2, <3>1, <3>2 DEF VfdShowable
  <2>3. QED
    BY <2>1, <2>2
<1>4. QED
  BY <1>2, <1>3, VfdShownTyped, PTL

-----------------------------------------------------------------------------
(* Libraries: each is freed as often as it was loaded, at most. *)

(* A reference of a thread to a module: its free that is on the way, or the
   k-th of its loads, counted from the first.                              *)
LibRefersTo(t, k, m) ==
    IF k = 0 THEN libFreeing[t] = <<m>>
    ELSE k <= Len(libHeld[t]) /\ libHeld[t][Len(libHeld[t]) + 1 - k] = m

LibReferences(m) == {r \in HookThreads \X Nat : LibRefersTo(r[1], r[2], m)}

(* Windows counts the references that the threads have, but to the hook. *)
LibCounts ==
    /\ \A t \in HookThreads : libFreeing[t] = <<>> \/ \E m \in LibModules : libFreeing[t] = <<m>>
    /\ \A m \in LibModules \ {"hook"} :
          IsFiniteSet(LibReferences(m)) /\ libCount[m] = Cardinality(LibReferences(m))

(* It holds when no library has been loaded. *)
LEMMA LibInitCounts == LibInit => LibCounts
<1> SUFFICES ASSUME LibInit PROVE LibCounts
  OBVIOUS
<1>1. ASSUME NEW m \in LibModules \ {"hook"} PROVE LibReferences(m) = {}
  <2> SUFFICES ASSUME NEW t \in HookThreads, NEW k \in Nat PROVE ~LibRefersTo(t, k, m)
    BY DEF LibReferences
  <2>1. libFreeing[t] = <<>> /\ libHeld[t] = <<>>
    BY DEF LibInit
  <2>2. Len(<<>>) = 0 /\ <<>> # <<m>>
    OBVIOUS
  <2>3. QED
    BY <2>1, <2>2 DEF LibRefersTo
<1>2. QED
  BY <1>1, FS_EmptySet DEF LibInit, LibCounts

(* A load adds the reference that is on top. *)
LEMMA LibLoadCounts ==
  ASSUME LibIInv, LibCounts, NEW t \in HookThreads, NEW n \in LibNames \cup LibOthers,
         LibLoad(t, n)
  PROVE  LibCounts'
<1> DEFINE held == libHeld[t]
           module == IF n \in libTable THEN "hook" ELSE n
           top == <<t, Len(held) + 1>>
<1>1. /\ libHeld' = [libHeld EXCEPT ![t] = <<module>> \o held]
      /\ libCount' = IF n \in libTable THEN libCount ELSE [libCount EXCEPT ![n] = libCount[n] + 1]
      /\ libFreeing' = libFreeing
  BY DEF LibLoad
<1>2. held \in Seq(LibModules) /\ module \in LibModules /\ Len(held) \in Nat /\ n # "hook"
  BY LibModulesApart DEF LibIInv
<1>3. /\ libHeld'[t] = <<module>> \o held
      /\ \A u \in HookThreads : u # t => libHeld'[u] = libHeld[u]
  BY <1>1 DEF LibIInv
<1>4. /\ Len(<<module>> \o held) = Len(held) + 1
      /\ (<<module>> \o held)[1] = module
      /\ \A i \in 1 .. Len(held) : (<<module>> \o held)[i + 1] = held[i]
  BY <1>2
<1>5. ASSUME NEW u \in HookThreads, NEW k \in Nat, NEW m \in LibModules
      PROVE  LibRefersTo(u, k, m)' <=> LibRefersTo(u, k, m) \/ (<<u, k>> = top /\ m = module)
  <2>1. CASE u # t
    BY <1>1, <1>3, <2>1 DEF LibRefersTo
  <2>2. CASE u = t /\ k = 0
    BY <1>1, <1>2, <2>2 DEF LibRefersTo
  <2>3. CASE u = t /\ k # 0
    <3>1. CASE k = Len(held) + 1
      BY <1>2, <1>3, <1>4, <2>3, <3>1 DEF LibRefersTo
    <3>2. CASE k \in 1 .. Len(held)
      <4>1. PICK i \in 1 .. Len(held) : i = Len(held) + 1 - k
        <5>1. Len(held) + 1 - k \in 1 .. Len(held)
          BY <1>2, <3>2
        <5>2. QED
          BY <5>1
      <4>2. libHeld'[t][i + 1] = held[i]
        BY <1>3, <1>4
      <4>3. LibRefersTo(u, k, m)' <=> libHeld'[t][i + 1] = m
        <5>1. k <= Len(held) + 1 /\ k # 0 /\ (Len(held) + 1) + 1 - k = i + 1
          BY <1>2, <3>2, <4>1
        <5>2. Len(libHeld'[t]) = Len(held) + 1
          BY <1>3, <1>4
        <5>3. QED
          BY <2>3, <5>1, <5>2 DEF LibRefersTo
      <4>4. LibRefersTo(u, k, m) <=> held[i] = m
        BY <1>2, <2>3, <3>2, <4>1 DEF LibRefersTo
      <4>5. <<u, k>> # top
        BY <1>2, <3>2
      <4>6. QED
        BY <4>2, <4>3, <4>4, <4>5
    <3>3. CASE k > Len(held) + 1
      BY <1>2, <1>3, <1>4, <2>3, <3>3 DEF LibRefersTo
    <3>4. QED
      BY <1>2, <2>3, <3>1, <3>2, <3>3
  <2>4. QED
    BY <2>1, <2>2, <2>3
<1>6. ASSUME NEW m \in LibModules \ {"hook"}
      PROVE  IsFiniteSet(LibReferences(m))' /\ libCount'[m] = Cardinality(LibReferences(m)')
  <2>1. IsFiniteSet(LibReferences(m)) /\ libCount[m] = Cardinality(LibReferences(m))
    BY DEF LibCounts
  <2>2. CASE m # module
    <3>1. LibReferences(m)' = LibReferences(m)
      BY <1>5, <2>2 DEF LibReferences
    <3>2. libCount'[m] = libCount[m]
      BY <1>1, <1>2, <2>2 DEF LibIInv
    <3>3. QED
      BY <2>1, <3>1, <3>2
  <2>3. CASE m = module
    <3>1. n \notin libTable /\ m = n
      BY <2>3
    <3>2. top \in HookThreads \X Nat
      BY <1>2
    <3>3. LibReferences(m)' = LibReferences(m) \cup {top}
      BY <1>5, <2>3, <3>2 DEF LibReferences
    <3>4. top \notin LibReferences(m)
      BY <1>2 DEF LibReferences, LibRefersTo
    <3>5. Cardinality(LibReferences(m) \cup {top}) = Cardinality(LibReferences(m)) + 1
          /\ IsFiniteSet(LibReferences(m) \cup {top})
      BY <2>1, <3>4, FS_AddElement
    <3>6. libCount'[m] = libCount[m] + 1
      BY <1>1, <3>1 DEF LibIInv
    <3>7. QED
      BY <2>1, <3>3, <3>5, <3>6
  <2>4. QED
    BY <2>2, <2>3
<1>7. QED
  BY <1>1, <1>6 DEF LibCounts

(* A free takes the reference that is on top, and has it on the way instead,
   unless it is one to the hook.                                           *)
LEMMA LibFreeCounts ==
  ASSUME LibIInv, LibCounts, NEW t \in HookThreads, LibFree(t)
  PROVE  LibCounts'
<1> DEFINE held == libHeld[t]
           module == Head(held)
           top == <<t, Len(held)>>
           way == <<t, 0>>
<1>1. /\ held # <<>> /\ libFreeing[t] = <<>> /\ libCount' = libCount
      /\ libHeld' = [libHeld EXCEPT ![t] = Tail(held)]
      /\ libFreeing' = IF module = "hook" /\ libTable # {} THEN libFreeing
                       ELSE [libFreeing EXCEPT ![t] = <<module>>]
  BY DEF LibFree
<1>2. held \in Seq(LibModules) /\ Len(held) \in Nat /\ Len(held) > 0 /\ module = held[1]
      /\ module \in LibModules
  BY <1>1 DEF LibIInv
<1>3. module = "hook" => libTable # {}
  <2>1. 1 \in 1 .. Len(held)
    BY <1>2
  <2>2. QED
    BY <1>2, <2>1 DEF LibIInv
<1>4. /\ libHeld'[t] = Tail(held)
      /\ \A u \in HookThreads : u # t => libHeld'[u] = libHeld[u] /\ libFreeing'[u] = libFreeing[u]
      /\ libFreeing'[t] = IF module = "hook" THEN <<>> ELSE <<module>>
  BY <1>1, <1>3 DEF LibIInv
<1>5. /\ Len(Tail(held)) = Len(held) - 1
      /\ \A i \in 1 .. Len(held) - 1 : Tail(held)[i] = held[i + 1]
  BY <1>1, <1>2
<1>6. ASSUME NEW u \in HookThreads, NEW k \in Nat, NEW m \in LibModules \ {"hook"}
      PROVE  LibRefersTo(u, k, m)' <=> \/ LibRefersTo(u, k, m) /\ <<u, k>> # top
                                       \/ <<u, k>> = way /\ m = module
  <2>1. CASE u # t
    BY <1>4, <2>1 DEF LibRefersTo
  <2>2. CASE u = t /\ k = 0
    BY <1>1, <1>2, <1>4, <2>2 DEF LibRefersTo
  <2>3. CASE u = t /\ k # 0
    <3>1. CASE k >= Len(held)
      <4>1. ~(k <= Len(held) - 1) /\ k # 0
        BY <1>2, <3>1
      <4>2. ~LibRefersTo(t, k, m)'
        BY <1>4, <1>5, <4>1 DEF LibRefersTo
      <4>3. k > Len(held) => ~LibRefersTo(t, k, m)
        BY <1>2, <4>1 DEF LibRefersTo
      <4>4. k = Len(held) \/ k > Len(held)
        BY <1>2, <3>1
      <4>5. QED
        BY <2>3, <4>1, <4>2, <4>3, <4>4
    <3>2. CASE k \in 1 .. Len(held) - 1
      <4>1. /\ Len(held) - k \in 1 .. Len(held) - 1
            /\ (Len(held) - 1) + 1 - k = Len(held) - k
            /\ Len(held) + 1 - k = (Len(held) - k) + 1
        BY <1>2, <3>2
      <4>2. Tail(held)[(Len(held) - 1) + 1 - k] = held[Len(held) + 1 - k]
        BY <1>5, <4>1
      <4>3. LibRefersTo(u, k, m)' <=> Tail(held)[(Len(held) - 1) + 1 - k] = m
        <5>1. k <= Len(held) - 1 /\ k # 0
          BY <1>2, <3>2
        <5>2. Len(libHeld'[t]) = Len(held) - 1
          BY <1>4, <1>5
        <5>3. QED
          BY <1>4, <2>3, <5>1, <5>2 DEF LibRefersTo
      <4>4. LibRefersTo(u, k, m) <=> held[Len(held) + 1 - k] = m
        BY <1>2, <2>3, <3>2 DEF LibRefersTo
      <4>5. <<u, k>> # top /\ <<u, k>> # way
        BY <1>2, <3>2
      <4>6. QED
        BY <4>2, <4>3, <4>4, <4>5
    <3>3. QED
      BY <1>2, <2>3, <3>1, <3>2
  <2>4. QED
    BY <2>1, <2>2, <2>3
<1>7. ASSUME NEW m \in LibModules \ {"hook"}
      PROVE  IsFiniteSet(LibReferences(m))' /\ libCount'[m] = Cardinality(LibReferences(m)')
  <2>1. IsFiniteSet(LibReferences(m)) /\ libCount[m] = Cardinality(LibReferences(m))
    BY DEF LibCounts
  <2>2. top \in HookThreads \X Nat /\ way \in HookThreads \X Nat /\ top # way
    BY <1>2
  <2>3. (top \in LibReferences(m) <=> m = module) /\ way \notin LibReferences(m)
    <3>1. LibRefersTo(t, Len(held), m) <=> held[1] = m
      <4>1. Len(held) + 1 - Len(held) = 1 /\ Len(held) <= Len(held) /\ Len(held) # 0
        BY <1>2
      <4>2. QED
        BY <4>1 DEF LibRefersTo
    <3>2. ~LibRefersTo(t, 0, m)
      <4>1. <<>> # <<m>>
        OBVIOUS
      <4>2. QED
        BY <1>1, <4>1 DEF LibRefersTo
    <3>3. QED
      BY <1>2, <2>2, <3>1, <3>2 DEF LibReferences
  <2>4. CASE m # module
    <3>1. LibReferences(m)' = LibReferences(m)
      BY <1>6, <2>2, <2>3, <2>4 DEF LibReferences
    <3>2. QED
      BY <1>1, <2>1, <3>1
  <2>5. CASE m = module
    <3>1. LibReferences(m)' = (LibReferences(m) \ {top}) \cup {way}
      BY <1>6, <2>2, <2>3, <2>5 DEF LibReferences
    <3>2. /\ IsFiniteSet(LibReferences(m) \ {top})
          /\ Cardinality(LibReferences(m) \ {top}) = Cardinality(LibReferences(m)) - 1
      BY <2>1, <2>3, <2>5, FS_RemoveElement
    <3>3. /\ IsFiniteSet((LibReferences(m) \ {top}) \cup {way})
          /\ Cardinality((LibReferences(m) \ {top}) \cup {way})
                = Cardinality(LibReferences(m) \ {top}) + 1
      BY <2>3, <3>2, FS_AddElement
    <3>4. Cardinality(LibReferences(m)) \in Nat
      BY <2>1, FS_CardinalityType
    <3>5. QED
      BY <1>1, <2>1, <3>1, <3>2, <3>3, <3>4
  <2>6. QED
    BY <2>4, <2>5
<1>8. ASSUME NEW u \in HookThreads
      PROVE  libFreeing'[u] = <<>> \/ \E m \in LibModules : libFreeing'[u] = <<m>>
  BY <1>2, <1>4 DEF LibCounts
<1>9. QED
  BY <1>7, <1>8 DEF LibCounts

(* Windows counts the one less that was on the way. *)
LEMMA LibFreeNextCounts ==
  ASSUME LibIInv, LibCounts, NEW t \in HookThreads, LibFreeNext(t)
  PROVE  LibCounts'
<1> DEFINE way == <<t, 0>>
<1>1. PICK module \in LibModules : libFreeing[t] = <<module>>
  BY DEF LibCounts, LibFreeNext
<1>2. Head(libFreeing[t]) = module /\ module # "hook"
  <2>1. Len(<<module>>) = 1 /\ <<module>>[1] = module /\ Head(<<module>>) = module
    OBVIOUS
  <2>2. QED
    BY <1>1, <2>1 DEF LibIInv
<1>3. /\ libCount' = [libCount EXCEPT ![module] = libCount[module] - 1]
      /\ libFreeing' = [libFreeing EXCEPT ![t] = <<>>] /\ libHeld' = libHeld
  BY <1>2 DEF LibFreeNext
<1>4. libFreeing'[t] = <<>> /\ \A u \in HookThreads : u # t => libFreeing'[u] = libFreeing[u]
  BY <1>3 DEF LibIInv
<1>5. ASSUME NEW u \in HookThreads, NEW k \in Nat, NEW m
      PROVE  LibRefersTo(u, k, m)' <=> LibRefersTo(u, k, m) /\ <<u, k>> # way
  <2>1. <<>> # <<m>>
    OBVIOUS
  <2>2. QED
    BY <1>3, <1>4, <2>1 DEF LibRefersTo
<1>6. ASSUME NEW m \in LibModules \ {"hook"}
      PROVE  IsFiniteSet(LibReferences(m))' /\ libCount'[m] = Cardinality(LibReferences(m)')
  <2>1. IsFiniteSet(LibReferences(m)) /\ libCount[m] = Cardinality(LibReferences(m))
    BY DEF LibCounts
  <2>2. LibReferences(m)' = LibReferences(m) \ {way}
    BY <1>5 DEF LibReferences
  <2>3. way \in LibReferences(m) <=> m = module
    <3>1. <<module>> = <<m>> <=> m = module
      OBVIOUS
    <3>2. QED
      BY <1>1, <3>1 DEF LibReferences, LibRefersTo
  <2>4. /\ IsFiniteSet(LibReferences(m) \ {way})
        /\ Cardinality(LibReferences(m) \ {way}) =
              IF m = module THEN Cardinality(LibReferences(m)) - 1
              ELSE Cardinality(LibReferences(m))
    BY <2>1, <2>3, FS_RemoveElement
  <2>5. libCount'[m] = IF m = module THEN libCount[m] - 1 ELSE libCount[m]
    BY <1>3 DEF LibIInv
  <2>6. QED
    BY <2>1, <2>2, <2>4, <2>5
<1>7. QED
  BY <1>4, <1>6 DEF LibCounts

(* Every step of the libraries keeps it. *)
LEMMA LibStepCounts == LibIInv /\ LibCounts /\ [LibNext]_libVars => LibCounts'
<1> SUFFICES ASSUME LibIInv, LibCounts, [LibNext]_libVars PROVE LibCounts'
  OBVIOUS
<1>1. ASSUME UNCHANGED <<libCount, libHeld, libFreeing>> PROVE LibCounts'
  BY <1>1 DEF LibCounts, LibReferences, LibRefersTo
<1>2. CASE UNCHANGED libVars
  BY <1>1, <1>2 DEF libVars
<1>3. ASSUME NEW n \in LibNames, LibPush(n) PROVE LibCounts'
  BY <1>1, <1>3 DEF LibPush
<1>4. QED
  BY <1>2, <1>3, LibLoadCounts, LibFreeCounts, LibFreeNextCounts DEF LibNext

(* hooklib/dll.c, hooklib/setupapi.c: no library is freed more often than it
   was loaded, and the tables stay as they are declared.                   *)
THEOREM HookTypes == HookSpec => []HookTypeOK
<1>1. LibInit => libTable \subseteq LibNames
  BY DEF LibInit
<1>2. libTable \subseteq LibNames /\ [LibNext]_libVars => (libTable \subseteq LibNames)'
  BY DEF LibNext, LibPush, LibLoad, LibFree, LibFreeNext, libVars
<1>3. LibIInv /\ LibCounts /\ DevIInv /\ libTable \subseteq LibNames => HookTypeOK
  <2> SUFFICES ASSUME LibIInv, LibCounts, DevIInv, libTable \subseteq LibNames PROVE HookTypeOK
    OBVIOUS
  <2>1. ASSUME NEW m \in LibModules PROVE libCount[m] \in Nat
    <3>1. CASE m = "hook"
      BY <3>1 DEF LibIInv, LibStaysLoaded
    <3>2. CASE m # "hook"
      BY <3>2, FS_CardinalityType DEF LibCounts
    <3>3. QED
      BY <3>1, <3>2
  <2>2. libCount \in [LibModules -> Nat]
    BY <2>1 DEF LibIInv
  <2>3. QED
    BY <2>2 DEF HookTypeOK, DevIInv, DevTyped, DevCalls
<1>4. QED
  BY <1>1, <1>2, <1>3, LibInitCounts, LibStepCounts, LibInvariance, DevInvariance, LibOfHookStep,
     PTL DEF HookSpec, HookInit

-----------------------------------------------------------------------------
(* Start-up: what a part that is no library does *)

StartHookings == {"reg", "dll", "dll?", "table", "dns", "fd", "push", "push?", "mkdir", "path",
                  "dev", "api", "generation", "call"}

(* Only a library's part binds. *)
LEMMA StartBindsLibraries ==
  \A p \in DOMAIN StartParts : p \in StartLibraries \/ StartParts[p].ops \in Seq(StartHookings)
<1>1. \A ops : StartPart(ops).ops = ops
  BY DEF StartPart
<1>2. ASSUME NEW n \in Nat, NEW op \in StartHookings PROVE StartTimes(n, op) \in Seq(StartHookings)
  BY DEF StartTimes
<1>3. /\ <<"reg", "reg", "dll">> \in Seq(StartHookings)
      /\ <<"table", "table", "table">> \in Seq(StartHookings)
      /\ <<"fd", "push">> \in Seq(StartHookings)
      /\ <<"reg", "reg", "reg", "table">> \in Seq(StartHookings)
      /\ <<"fd", "push", "reg">> \in Seq(StartHookings) /\ <<"table">> \in Seq(StartHookings)
      /\ <<"mkdir", "mkdir", "mkdir", "path", "path", "path", "path", "reg">> \in Seq(StartHookings)
      /\ <<"push", "dev", "fd">> \in Seq(StartHookings)
      /\ <<"push", "dev">> \in Seq(StartHookings)
      /\ <<"fd", "push", "dev">> \in Seq(StartHookings)
      /\ <<"fd", "push?", "dev">> \in Seq(StartHookings) /\ <<"push">> \in Seq(StartHookings)
      /\ <<"api">> \in Seq(StartHookings) /\ <<"table", "dll?">> \in Seq(StartHookings)
      /\ <<"fd", "table", "push", "dev">> \in Seq(StartHookings)
      /\ <<"dev", "push">> \in Seq(StartHookings) /\ <<"table", "push">> \in Seq(StartHookings)
      /\ <<"generation", "push">> \in Seq(StartHookings) /\ <<"call">> \in Seq(StartHookings)
  BY DEF StartHookings
<1>4. /\ StartAmVideo.ops = <<"reg", "reg", "dll">>
      /\ StartClock.ops = <<"table", "table", "table">> /\ StartHwMon.ops = <<"fd", "push">>
      /\ StartHwReset.ops = <<"fd", "push">> /\ StartMisc.ops = <<"reg", "reg", "reg", "table">>
      /\ StartNetEnv.ops = <<"table", "table", "table">>
      /\ StartNuSec.ops = <<"fd", "push", "reg">> /\ StartPcbId.ops = <<"table">>
      /\ StartVfs.ops = <<"mkdir", "mkdir", "mkdir", "path", "path", "path", "path", "reg">>
      /\ StartDs.ops = <<"push", "dev", "fd">> /\ StartEeprom.ops = <<"push", "dev">>
      /\ StartGpio.ops = <<"fd", "push", "dev">>
  BY <1>1 DEF StartAmVideo, StartClock, StartHwMon, StartHwReset, StartMisc, StartNetEnv,
              StartNuSec, StartPcbId, StartVfs, StartDs, StartEeprom, StartGpio
<1>5. /\ StartJvs.ops = <<"push", "dev">> /\ StartSram.ops = <<"push", "dev">>
      /\ StartIo4.ops = <<"fd", "push?", "dev">> /\ StartSerial.ops = <<"push">>
      /\ StartVfd.ops = <<"push">> /\ StartLed.ops = <<"push">> /\ StartRfid.ops = <<"push">>
      /\ StartApi.ops = <<"api">> /\ StartCommIo.ops = <<"table", "dll?">>
      /\ StartKeychip.ops = <<"fd", "table", "push", "dev">>
      /\ StartNamcoJvs.ops = <<"dev", "push">> /\ StartStrPcb.ops = <<"table", "push">>
      /\ StartBngRw.ops = <<"table">>
      /\ StartTouch.ops = <<"table">>
  BY <1>1 DEF StartJvs, StartSram, StartIo4, StartSerial, StartVfd, StartLed, StartRfid,
              StartApi, StartCommIo, StartKeychip, StartNamcoJvs, StartStrPcb, StartTouch,
              StartBngRw
<1>6. /\ StartAmVideo.ops \in Seq(StartHookings) /\ StartClock.ops \in Seq(StartHookings)
      /\ StartHwMon.ops \in Seq(StartHookings) /\ StartHwReset.ops \in Seq(StartHookings)
      /\ StartMisc.ops \in Seq(StartHookings) /\ StartNetEnv.ops \in Seq(StartHookings)
      /\ StartNuSec.ops \in Seq(StartHookings) /\ StartPcbId.ops \in Seq(StartHookings)
      /\ StartVfs.ops \in Seq(StartHookings) /\ StartDs.ops \in Seq(StartHookings)
      /\ StartEeprom.ops \in Seq(StartHookings) /\ StartGpio.ops \in Seq(StartHookings)
      /\ StartJvs.ops \in Seq(StartHookings) /\ StartSram.ops \in Seq(StartHookings)
      /\ StartIo4.ops \in Seq(StartHookings) /\ StartSerial.ops \in Seq(StartHookings)
      /\ StartVfd.ops \in Seq(StartHookings) /\ StartLed.ops \in Seq(StartHookings)
      /\ StartRfid.ops \in Seq(StartHookings) /\ StartApi.ops \in Seq(StartHookings)
      /\ StartCommIo.ops \in Seq(StartHookings) /\ StartKeychip.ops \in Seq(StartHookings)
      /\ StartNamcoJvs.ops \in Seq(StartHookings) /\ StartStrPcb.ops \in Seq(StartHookings)
      /\ StartTouch.ops \in Seq(StartHookings) /\ StartBngRw.ops \in Seq(StartHookings)
  BY <1>3, <1>4, <1>5
<1>7. "table" \in StartHookings /\ "dns" \in StartHookings /\ "dll?" \in StartHookings
  BY DEF StartHookings
<1>8. /\ StartDns.ops \in Seq(StartHookings) /\ StartPrinter.ops \in Seq(StartHookings)
      /\ StartPrinterStd.ops \in Seq(StartHookings)
  <2>1. \A a, b \in Seq(StartHookings) : a \o b \in Seq(StartHookings)
    OBVIOUS
  <2>2. StartTimes(25, "dns") \in Seq(StartHookings)
    BY <1>2, <1>7
  <2>3. StartTimes(10, "table") \in Seq(StartHookings) /\ StartTimes(8, "dll?") \in Seq(StartHookings)
    BY <1>2, <1>7
  <2>4. StartTimes(3, "table") \in Seq(StartHookings) /\ StartTimes(3, "dll?") \in Seq(StartHookings)
    BY <1>2, <1>7
  <2>5. /\ StartDns.ops = StartTimes(25, "dns")
        /\ StartPrinter.ops = StartTimes(10, "table") \o StartTimes(8, "dll?")
        /\ StartPrinterStd.ops = StartTimes(3, "table") \o StartTimes(3, "dll?")
    BY <1>1 DEF StartDns, StartPrinter, StartPrinterStd
  <2>6. QED
    BY <2>1, <2>2, <2>3, <2>4, <2>5
<1>9. \A p \in StartUsers : StartParts[p].ops \in Seq(StartHookings)
  <2>1. StartIo4.ops \o <<"call">> \in Seq(StartHookings)
    BY <1>3, <1>6
  <2>2. /\ StartSgReader.ops = <<"generation", "push">>
        /\ StartCarolJvs.ops = StartJvs.ops /\ StartCarolTouch.ops = <<"push">>
        /\ StartControlBd.ops = <<"push">> /\ StartChuniJvs.ops = StartJvs.ops
        /\ StartChuniSlider.ops = <<"push">> /\ StartChusanIo4.ops = <<"call">>
        /\ StartChusanSlider.ops = <<"push">> /\ StartDivaJvs.ops = StartJvs.ops
        /\ StartDivaSlider.ops = <<"push">>
        /\ StartFgoIo4.ops = StartIo4.ops \o <<"call">>
        /\ StartIdzJvs.ops = StartJvs.ops
        /\ StartMu3Io4.ops = StartIo4.ops \o <<"call">>
    BY DEF StartSgReader, StartCarolJvs, StartCarolTouch, StartControlBd, StartChuniJvs,
           StartChuniSlider, StartChusanIo4, StartChusanSlider, StartDivaJvs, StartDivaSlider,
           StartFgoIo4, StartIdzJvs, StartMu3Io4
  <2>3. /\ StartSgReader.ops \in Seq(StartHookings)
        /\ StartCarolJvs.ops \in Seq(StartHookings)
        /\ StartCarolTouch.ops \in Seq(StartHookings)
        /\ StartControlBd.ops \in Seq(StartHookings)
        /\ StartChuniJvs.ops \in Seq(StartHookings)
        /\ StartChuniSlider.ops \in Seq(StartHookings)
        /\ StartChusanIo4.ops \in Seq(StartHookings)
        /\ StartChusanSlider.ops \in Seq(StartHookings)
        /\ StartDivaJvs.ops \in Seq(StartHookings)
        /\ StartDivaSlider.ops \in Seq(StartHookings)
        /\ StartFgoIo4.ops \in Seq(StartHookings) /\ StartIdzJvs.ops \in Seq(StartHookings)
        /\ StartMu3Io4.ops \in Seq(StartHookings)
    BY <1>3, <1>6, <2>1, <2>2
  <2>4. QED
    BY <2>3 DEF StartParts, StartUsers, StartLibOf
<1>10. ASSUME NEW p \in DOMAIN StartParts, p \notin StartUsers, p \notin StartLibraries
       PROVE  StartParts[p].ops \in Seq(StartHookings)
  <2>1. p \notin {"aime_dll", "carol_dll", "chuni_dll", "chusan_dll", "diva_dll", "fgo_dll",
                  "idz_dll", "mu3_dll"}
    BY <1>10, StartLibrariesAre
  <2>2. DEFINE hooked == {StartAmVideo, StartClock, StartDns, StartHwMon, StartHwReset, StartMisc,
                    StartNetEnv, StartNuSec, StartPcbId, StartVfs, StartDs, StartEeprom,
                    StartGpio, StartJvs, StartSram, StartIo4, StartVfd, StartLed, StartRfid,
                    StartApi, StartCommIo, StartKeychip, StartNamcoJvs, StartStrPcb,
                    StartBngRw, StartPrinter, StartPrinterStd, StartTouch}
  <2>3. StartParts[p] \in hooked
    BY <1>10, <2>1 DEF StartParts, StartUsers, StartLibOf
  <2>4. \A part \in hooked : part.ops \in Seq(StartHookings)
    BY <1>6, <1>8
  <2>5. QED
    BY <2>3, <2>4
<1>11. QED
  BY <1>9, <1>10

-----------------------------------------------------------------------------
(* Each part keeps its state as it is declared. *)

(* hooklib/reg.c: the tables and the records of a thread *)
THEOREM RegTypes == RegSpec => []RegTypeOK
<1>1. RegIInv => RegTypeOK
  BY DEF RegIInv, RegShape, RegTypeOK
<1>2. QED
  BY <1>1, RegInvariance, PTL

(* platform/vfs.c, hooklib/path.c: the steps of a process and its hooks *)
THEOREM PathTypes == PathSpec => []PathTypeOK
<1>1. PathInit => vfsOption \in BOOLEAN /\ pathKills \in 0 .. PathMaxKills
  BY PathBoundsAssumption, VfsOptionsAssumption DEF PathInit
<1>2. vfsOption \in BOOLEAN /\ pathKills \in 0 .. PathMaxKills /\ [PathNext]_pathVars
         => (vfsOption \in BOOLEAN /\ pathKills \in 0 .. PathMaxKills)'
  <2>1. [PathNext]_pathVars => /\ vfsOption' = vfsOption
                               /\ \/ pathKills' = pathKills
                                  \/ pathKills < PathMaxKills /\ pathKills' = pathKills + 1
    BY DEF PathNext, pathVars, VfsCheck, VfsCreate, VfsPush, VfsKill, PathCreateDirectory,
           PathCreateFile, PathRemoveDirectory, PathUnchanged
  <2>2. QED
    BY <2>1, PathBoundsAssumption
<1>3. PathIInv /\ vfsOption \in BOOLEAN /\ pathKills \in 0 .. PathMaxKills => PathTypeOK
  <2> SUFFICES ASSUME PathIInv PROVE \A p \in PathProcs :
                                        vfsAt[p].step \in {"check", "create", "push", "done"}
    BY DEF PathTypeOK, PathIInv, PathHookNames
  <2>1. QED
    BY DEF PathIInv, VfsIInv, VfsAtTyped
<1>4. QED
  BY <1>1, <1>2, <1>3, PathInvariance, PTL DEF PathSpec

(* hooklib/dns.c: the table and the calls under way *)
THEOREM DnsTypes == DnsSpec => []DnsTypeOK
<1>1. DnsIInv => DnsTypeOK
  <2>1. DOMAIN DnsPlatform \subseteq DnsNames
    BY DEF DnsPlatform
  <2>2. DOMAIN <<>> = {}
    OBVIOUS
  <2>3. QED
    BY <2>1, <2>2 DEF DnsIInv, DnsTypeOK
<1>2. QED
  BY <1>1, DnsInitIInv, DnsStepHolds, PTL DEF DnsSpec

(* platform/netenv.c: the tables, the sizes told and the calls under way *)
THEOREM NetTypes == NetSpec => []NetTypeOK
<1>1. NetInit => NetTypeOK
  BY DEF NetInit, NetTypeOK
<1>2. NetTypeOK /\ [NetNext]_netVars => NetTypeOK'
  BY DEF NetTypeOK, NetNext, netVars, NetHookInit, NetCall, NetTrace, NetFill, NetSetEvent,
         NetPingSeen, NetEcho, NetUnchanged
<1>3. QED
  BY <1>1, <1>2, PTL DEF NetSpec

(* hooklib/clock.c: the clock and the last call's answer *)
THEOREM ClockTypes == ClockSpec => []ClockTypeOK
<1>1. ClockIInv => ClockTypeOK
  BY DEF ClockIInv
<1>2. QED
  BY <1>1, ClockInvariance, PTL

(* platform/nusec.c: the counters of the log and the play count in their words *)
THEOREM NusecTypes == NusecSpec => []NusecTypeOK
<1> DEFINE Typed ==
              /\ nusecConfig \in NusecConfigs /\ nusecHead \in 0 .. NusecMax
              /\ nusecLog \in [0 .. NusecSize - 1 -> -1 .. NusecMax]
              /\ nusecPlays \in 0 .. NusecWord - 1
<1>1. NusecInit => Typed
  BY NusecBoundsAssumption DEF NusecInit
<1>2. NusecIInv /\ Typed /\ [NusecNext]_nusecVars => Typed'
  <2> SUFFICES ASSUME NusecIInv, Typed, [NusecNext]_nusecVars PROVE Typed'
    OBVIOUS
  <2>1. ASSUME UNCHANGED <<nusecConfig, nusecHead, nusecLog, nusecPlays>> PROVE Typed'
    BY <2>1
  <2>2. CASE NusecPut
    <3>1. nusecHead + 1 \in 0 .. NusecMax /\ nusecHead \in -1 .. NusecMax
      BY <2>2, NusecBoundsAssumption DEF NusecPut
    <3>2. QED
      BY <2>2, <3>1 DEF NusecPut
  <2>3. ASSUME NEW delta \in NusecDeltas, NusecAddPlays(delta) PROVE Typed'
    <3>1. delta \in Nat /\ NusecWord \in Nat /\ NusecWord > 0
      BY NusecBoundsAssumption
    <3>2. (nusecPlays + delta) % NusecWord \in 0 .. NusecWord - 1
      BY <3>1
    <3>3. QED
      BY <2>3, <3>2 DEF NusecAddPlays
  <2>4. QED
    BY <2>1, <2>2, <2>3
       DEF NusecNext, nusecVars, NusecGetState, NusecErase, NusecGetData, NusecPutLimit,
           NusecCertOpen, NusecCertRead
<1>3. NusecIInv /\ Typed => NusecTypeOK
  BY NusecBoundsAssumption DEF NusecIInv, NusecCounters, NusecLogWhole, NusecTypeOK
<1>4. QED
  BY <1>1, <1>2, <1>3, NusecInvariance, PTL DEF NusecSpec

(* The buttons are switches. *)
AmexButtonsAre == amexButtons \subseteq AmexSwitches

(* amex/eeprom.c, amex/gpio.c: the handles, the files and the calls under way *)
THEOREM AmexTypes == AmexSpec => []AmexTypeOK
<1>1. AmexInit => AmexButtonsAre
  BY DEF AmexInit, AmexButtonsAre
<1>2. AmexButtonsAre /\ [AmexNext]_amexVars => AmexButtonsAre'
  BY DEF AmexButtonsAre, AmexNext, amexVars, amexPanel, AmexOpenMemory, AmexOpenStore, AmexClear, AmexCreate,
         AmexResize, AmexResizeFails, AmexPublish, AmexAnswer, AmexOpenOther, AmexClose,
         AmexCloseHandle, AmexGetSwitches, AmexLook, AmexUnpress, AmexUnpressed, AmexPress
<1>3. AmexIInv /\ AmexSized /\ AmexButtonsAre => AmexTypeOK
  BY DEF AmexButtonsAre, AmexIInv, AmexShape, AmexSized, AmexTypeOK
<1>4. QED
  BY <1>1, <1>2, <1>3, AmexInvariance, AmexSizedInit, AmexSizedStep, PTL DEF AmexSpec

(* led1509306.c: the boards' state and what a thread is at, also where several
   threads use one board, which the copied lock lets them do at once       *)
THEOREM LedTypes == LedSpec => []LedTypeOK
<1>1. LedIInv => LedTypeOK
  BY DEF LedIInv, LedTyped, LedTypeOK, LedThreadStates
<1>2. QED
  BY <1>1, LedInvariance, PTL

(* The games' start: what is called or bound is a function of some library *)
THEOREM StartTypes == StartSpec => []StartTypeOK
<1> DEFINE functions == UNION {StartFunctions[l] : l \in StartLibraries}
           Typed == /\ startBound \subseteq functions /\ startFailed \in BOOLEAN
                    /\ startEnd \in {"starting", "running", "exit", "return"}
<1>1. StartInit => Typed
  BY DEF StartInit
<1>2. StartIInv /\ Typed /\ [StartNext]_startVars => Typed'
  <2> SUFFICES ASSUME StartIInv, Typed, [StartNext]_startVars PROVE Typed'
    OBVIOUS
  <2>1. StartGoing => StartName \in DOMAIN StartParts /\ StartReaction \in {"go", "exit", "return"}
    <3>1. /\ Len(StartGames[startGame]) \in Nat /\ startAt \in Nat /\ startAt >= 1
          /\ startGame \in DOMAIN StartGames
      BY StartGameFacts DEF StartIInv, StartShape
    <3>2. StartGoing => startAt \in 1 .. Len(StartGames[startGame])
      BY <3>1 DEF StartGoing
    <3>3. QED
      BY <3>1, <3>2, StartGameFacts DEF StartName, StartReaction
  <2>2. CASE StartBind
    <3>1. StartGoing /\ startOp < Len(StartOps) /\ StartOps[startOp + 1] = "bind"
      BY <2>2 DEF StartBind, StartInPart, StartNextOp
    <3>2. StartOps \notin Seq(StartHookings)
      <4>1. SUFFICES ASSUME StartOps \in Seq(StartHookings) PROVE FALSE
        OBVIOUS
      <4>2. StartOps[startOp + 1] \in StartHookings
        BY <3>1, <4>1 DEF StartIInv, StartShape
      <4>3. "bind" \notin StartHookings
        BY DEF StartHookings
      <4>4. QED
        BY <3>1, <4>2, <4>3
    <3>3. StartName \in StartLibraries
      BY <2>1, <3>1, <3>2, StartBindsLibraries DEF StartOps
    <3>4. QED
      BY <2>2, <3>3 DEF StartBind
  <2>3. CASE StartFails
    <3>1. StartGoing /\ startBound' = startBound /\ startFailed' \in BOOLEAN
          /\ (startEnd' = startEnd \/ startEnd' = StartReaction)
      BY <2>3 DEF StartFails, StartInPart
    <3>2. startEnd' \in {"starting", "running", "exit", "return"}
      <4>1. StartReaction \in {"go", "exit", "return"} /\ startBound' = startBound
            /\ (startEnd' = startEnd \/ (startEnd' = StartReaction /\ StartReaction # "go"))
        BY <2>1, <2>3, <3>1 DEF StartFails
      <4>2. QED
        BY <4>1
    <3>3. QED
      BY <3>1, <3>2
  <2>4. QED
    BY <2>2, <2>3 DEF StartNext, startVars, StartSkip, StartHook, StartLoad, StartVersion, StartDone,
                      StartRun
<1>3. StartIInv /\ Typed => StartTypeOK
  BY StartGameFacts DEF StartIInv, StartShape, StartTypeOK
<1>4. QED
  BY <1>1, <1>2, <1>3, StartInvariance, PTL DEF StartSpec

(* hooklib/gfx.c, gfxhook/: the functions linked and found are the hook's, and
   no object is released more often than it was taken                      *)
THEOREM GfxTypes == GfxSpec => []GfxTypeOK
<1> DEFINE Typed == /\ gfxHook \in GfxHooks
                    /\ gfxImports \cup gfxOffers \cup gfxNext \subseteq GfxFunctions
                    /\ gfxTried \in BOOLEAN /\ gfxLoaded \in BOOLEAN /\ gfxPushed \in BOOLEAN
<1>1. GfxInit => Typed
  BY DEF GfxInit, GfxFunctions
<1>2. Typed /\ [GfxNext]_gfxVars => Typed'
  <2> SUFFICES ASSUME Typed, [GfxNext]_gfxVars PROVE Typed'
    OBVIOUS
  <2>1. UNCHANGED gfxFixed
    BY DEF GfxNext, gfxVars, GfxHookInit, GfxExhook, GfxWrap, GfxCreateBoth, GfxRelease, GfxCreate,
           GfxCreateDevice
  <2>2. GfxFunctions' = GfxFunctions
    BY <2>1 DEF gfxFixed, GfxFunctions
  <2>3. CASE GfxHookInit
    BY <2>1, <2>2, <2>3 DEF gfxFixed, GfxHookInit, GfxInstalls, GfxGivesUp, GfxLinked, GfxFound
  <2>4. CASE UNCHANGED gfxLinks
    BY <2>1, <2>2, <2>4 DEF gfxFixed, gfxLinks
  <2>5. QED
    BY <2>3, <2>4 DEF GfxNext, gfxVars, GfxExhook, GfxWrap, GfxCreateBoth, GfxRelease, GfxCreate,
                      GfxCreateDevice
<1>3. Typed /\ GfxCallInv => GfxTypeOK
  BY DEF GfxCallInv, GfxTypeOK
<1>4. QED
  BY <1>1, <1>2, <1>3, GfxCallInit, GfxCallStep, PTL DEF GfxSpec

-----------------------------------------------------------------------------
(* The parts together *)

(* Every part keeps its state as it is declared, with any number of threads,
   devices, keys and libraries and with buffers of any size.               *)
THEOREM PlatformTyped ==
  /\ RegSpec /\ PathSpec /\ HookSpec /\ DnsSpec /\ NetSpec /\ ClockSpec
  /\ NusecSpec /\ AmexSpec /\ LedSpec /\ VfdSpec /\ StartSpec /\ GfxSpec
  => []PlatformTypeOK
<1>1. /\ RegTypeOK /\ PathTypeOK /\ HookTypeOK /\ DnsTypeOK /\ NetTypeOK /\ ClockTypeOK
      /\ NusecTypeOK /\ AmexTypeOK /\ LedTypeOK /\ VfdTypeOK /\ StartTypeOK /\ GfxTypeOK
      => PlatformTypeOK
  BY DEF PlatformTypeOK
<1>2. QED
  BY <1>1, RegTypes, PathTypes, HookTypes, DnsTypes, NetTypes, ClockTypes, NusecTypes,
     AmexTypes, LedTypes, VfdTypes, StartTypes, GfxTypes, PTL

(* The games' DllMain and main, as StartUp has them: a game that runs has every
   part of its list, and what it calls has been bound and not freed.       *)
THEOREM StartsWhole == StartSpec => []StartedWhole
<1>1. StartIInv => StartedWhole
  BY StartIInvHolds DEF StartedWhole
<1>2. QED
  BY <1>1, StartInvariance, PTL

(* hooklib/dll.c, hooklib/setupapi.c and gfxhook/: whatever a game reaches
   through the hooks' tables is there behind them.                         *)
THEOREM HooksLeadOn == HookSpec /\ GfxSpec => []HooksLead
<1>1. LibStaysLoaded /\ DevListsDevices /\ GfxHooksLead => HooksLead
  BY DEF HooksLead
<1>2. QED
  BY <1>1, LibKeepsHook, DevsAreListed, GfxFindsFunctions, PTL

(* What the game is told fits together, in each of the parts that tell it of
   something in more than one call.                                        *)
THEOREM WhatIsToldAgrees ==
  DnsSpec /\ NetSpec /\ RegSpec /\ AmexSpec /\ NusecSpec => []ToldAgrees
<1>1. /\ NetOneStory /\ DnsNeverLeaves /\ NetReplyWhole
      /\ RegSizeSuffices /\ AmexStoresSized /\ NusecLogWhole /\ NusecReadsTold
      => ToldAgrees
  BY DEF ToldAgrees
<1>2. QED
  BY <1>1, NetTellsOneStory, DnsKeepsNames, NetRepliesFirst, RegSizesSuffice, AmexKeepsSizes,
     NusecKeepsLog, NusecReadsOnlyTold, PTL

(* The small boards serve the game: replies, texts and presses arrive once,
   where its properties say so, and its graphics objects are counted.      *)
THEOREM BoardsServe ==
  LedSpec /\ VfdSpec /\ AmexSpec /\ GfxSpec => []BoardsServed
<1>1. LedRepliesDue /\ VfdShowsTexts /\ AmexPressesOnce /\ GfxObjectsKept => BoardsServed
  BY DEF BoardsServed
<1>2. QED
  BY <1>1, LedAnswers, VfdShowsEachOnce, AmexCountsPresses, GfxKeepsObjects, PTL
=============================================================================
