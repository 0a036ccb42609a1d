------------------------------ MODULE HookTables ------------------------------
(***************************************************************************)
(* Two tables of the hook library: libraries whose loading is redirected   *)
(* to a hook (hooklib/dll.c), and devices that do not exist but are listed *)
(* among those of their class (hooklib/setupapi.c).                        *)
(*                                                                         *)
(* Each call of the program looks at its table under a lock and gives the  *)
(* lock up before it calls Windows; several threads call at the same time. *)
(* A set of devices is known by the handle that Windows gave it, and a     *)
(* handle is given out again once its set is destroyed.                    *)
(***************************************************************************)
EXTENDS Naturals, Sequences

CONSTANTS
    HookThreads,
    LibNames,     \* libraries that hooks stand in for
    LibOthers,    \* libraries that they do not
    LibMaxHeld,   \* bound: libraries that a thread holds at a time
    DevClasses,   \* classes with a device that a hook makes up
    DevOthers,    \* classes without
    DevSets,      \* handles of sets of devices
    DevNone,      \* NULL
    DevReal       \* real devices of each class

ASSUME DevNoneAssumption == DevNone \notin DevSets \cup DevClasses \cup DevOthers
ASSUME LibNamesAssumption == LibNames \cap LibOthers = {} /\ "hook" \notin LibNames \cup LibOthers
ASSUME DevClassesAssumption == DevClasses \cap DevOthers = {}
ASSUME HookNumbersAssumption == LibMaxHeld \in Nat /\ DevReal \in Nat

VARIABLES
    libTable,    \* dll_hook_list: the names that lead to the hook's module
    libCount,    \* Windows' count of references to each module
    libHeld,     \* the modules that a thread has loaded (the program's)
    libFreeing,  \* FreeLibrary calls that are past the lock
    devCur,      \* cur_handle of each class
    devAdded,    \* setupapi_classes
    devKernel,   \* the class of each set of Windows
    devAt,       \* the call of a thread that is outside the lock
    devMine,     \* a thread's set and its class (the program's)
    devList,     \* what it has been told of so far (the program's)
    devSole      \* nobody else listed the class since (not in the code)

libVars == <<libTable, libCount, libHeld, libFreeing>>
devVars == <<devCur, devAdded, devKernel, devAt, devMine, devList, devSole>>
hookVars == <<libVars, devVars>>

LibModules == LibNames \cup LibOthers \cup {"hook"}
DevPhantom == <<>>    \* in a list; a real device is <<its index>>
DevNoSet   == [set |-> DevNone, class |-> DevNone, phantom |-> FALSE]

HookTypeOK ==
    /\ libTable \subseteq LibNames
    /\ libCount \in [LibModules -> Nat]
    /\ devCur \in [DevClasses -> DevSets \cup {DevNone}]
    /\ devAdded \subseteq DevClasses
    /\ devAt \in [HookThreads -> {"idle", "record", "listed", "destroy"}]

LibInit ==
    /\ libTable = {}
    /\ libCount = [m \in LibModules |-> IF m = "hook" THEN 1 ELSE 0]
    /\ libHeld = [t \in HookThreads |-> <<>>]
    /\ libFreeing = [t \in HookThreads |-> <<>>]

DevInit ==
    /\ devCur = [c \in DevClasses |-> DevNone]
    /\ devAdded = {}
    /\ devKernel = [s \in DevSets |-> DevNone]
    /\ devAt = [t \in HookThreads |-> "idle"]
    /\ devMine = [t \in HookThreads |-> DevNoSet]
    /\ devList = [t \in HookThreads |-> <<>>]
    /\ devSole = [t \in HookThreads |-> FALSE]

HookInit == LibInit /\ DevInit

-----------------------------------------------------------------------------
(* Seeded faults: what a definition below might have been by mistake; each one
   breaks a property, and none is part of the specification.               *)

(* Modules that stand in for others are freed like the rest. *)
LibFree_Unchecked(t) ==
    /\ libHeld[t] # <<>> /\ libFreeing[t] = <<>>
    /\ libHeld' = [libHeld EXCEPT ![t] = Tail(@)]
    /\ libFreeing' = [libFreeing EXCEPT ![t] = <<Head(libHeld[t])>>]
    /\ UNCHANGED <<libTable, libCount, devVars>>

(* Windows destroys the set before the table forgets it. *)
DevForget_Later(t) ==
    /\ devAt[t] = "listed" /\ devAt' = [devAt EXCEPT ![t] = "destroy"]
    /\ devKernel' = [devKernel EXCEPT ![devMine[t].set] = DevNone]
    /\ UNCHANGED <<libVars, devCur, devAdded, devMine, devList, devSole>>

(* The index is passed on as it is. *)
DevIndex_NotShifted(i) == i

-----------------------------------------------------------------------------
(* Libraries *)

(* dll_hook_push *)
LibPush(name) ==
    /\ name \notin libTable
    /\ libTable' = libTable \cup {name}
    /\ UNCHANGED <<libCount, libHeld, libFreeing, devVars>>

(* LoadLibrary, A, W and Ex: dll_hook_search_dll, or Windows. *)
LibLoad(t, name) ==
    /\ Len(libHeld[t]) < LibMaxHeld
    /\ LET module == IF name \in libTable THEN "hook" ELSE name
       IN  /\ libHeld' = [libHeld EXCEPT ![t] = <<module>> \o @]
           /\ libCount' = IF name \in libTable THEN libCount
                          ELSE [libCount EXCEPT ![name] = @ + 1]
    /\ UNCHANGED <<libTable, libFreeing, devVars>>

(* FreeLibrary does not let go of a module that stands in for another. *)
LibFree(t) ==
    /\ libHeld[t] # <<>> /\ libFreeing[t] = <<>>
    /\ libHeld' = [libHeld EXCEPT ![t] = Tail(@)]
    /\ libFreeing' = IF Head(libHeld[t]) = "hook" /\ libTable # {}
                     THEN libFreeing
                     ELSE [libFreeing EXCEPT ![t] = <<Head(libHeld[t])>>]
    /\ UNCHANGED <<libTable, libCount, devVars>>

LibFreeNext(t) ==
    /\ libFreeing[t] # <<>>
    /\ libCount' = [libCount EXCEPT ![Head(libFreeing[t])] = @ - 1]
    /\ libFreeing' = [libFreeing EXCEPT ![t] = <<>>]
    /\ UNCHANGED <<libTable, libHeld, devVars>>

LibNext ==
    \/ \E n \in LibNames : LibPush(n)
    \/ \E t \in HookThreads :
          \/ \E n \in LibNames \cup LibOthers : LibLoad(t, n)
          \/ LibFree(t) \/ LibFreeNext(t)

-----------------------------------------------------------------------------
(* Devices *)

(* setupapi_add_phantom_dev: realloc leaves cur_handle as it finds it. *)
DevAdd(c) ==
    /\ c \in DevClasses \ devAdded
    /\ devAdded' = devAdded \cup {c}
    /\ \E s \in DevSets \cup {DevNone} :
          /\ devCur' = [devCur EXCEPT ![c] = s]
          /\ devSole' = [t \in HookThreads |-> devSole[t] /\ devMine[t].set # s]
    /\ UNCHANGED <<libVars, devKernel, devAt, devMine, devList>>

(* A class that is in the table, whose handle is this set *)
DevMatch(s) == \E c \in devAdded : devCur[c] = s

(* my_SetupDiGetClassDevsW: Windows makes the set ... *)
DevGetClass(t, c) ==
    /\ devAt[t] = "idle" /\ devAt' = [devAt EXCEPT ![t] = "record"]
    /\ \E s \in DevSets :
          /\ devKernel[s] = DevNone
          /\ devKernel' = [devKernel EXCEPT ![s] = c]
          /\ devMine' = [devMine EXCEPT ![t] =
                            [set |-> s, class |-> c, phantom |-> FALSE]]
    /\ UNCHANGED <<libVars, devCur, devAdded, devList, devSole>>

(* ... and the class takes its handle, from whichever set it had before. *)
DevRecord(t) ==
    LET s == devMine[t].set
        c == devMine[t].class
    IN  /\ devAt[t] = "record" /\ devAt' = [devAt EXCEPT ![t] = "listed"]
        /\ devCur' = IF c \in devAdded THEN [devCur EXCEPT ![c] = s] ELSE devCur
        /\ devMine' = [devMine EXCEPT ![t].phantom = c \in devAdded]
        /\ devSole' = [u \in HookThreads |->
              IF u = t THEN \A d \in devAdded \ {c} : devCur[d] # s
              ELSE devSole[u] /\ devMine[u].class # c]
        /\ UNCHANGED <<libVars, devAdded, devKernel, devList>>

(* The index that Windows is asked for; every set is taken to begin with a
   made-up device, whether it has one or not.                              *)
DevIndex(i) == IF i > 0 THEN i - 1 ELSE i

(* my_SetupDiEnumDeviceInterfaces, for one index after the other *)
DevEnum(t) ==
    LET i == Len(devList[t])
        s == devMine[t].set
    IN  /\ devAt[t] = "listed"
        /\ \/ /\ i = 0 /\ DevMatch(s)
              /\ devList' = [devList EXCEPT ![t] = <<DevPhantom>>]
           \/ /\ ~(i = 0 /\ DevMatch(s)) /\ DevIndex(i) < DevReal
              /\ devList' = [devList EXCEPT ![t] = Append(@, <<DevIndex(i)>>)]
        /\ UNCHANGED <<libVars, devCur, devAdded, devKernel, devAt,
                       devMine, devSole>>

(* No device has the index any more. *)
DevListEnds(t) ==
    LET i == Len(devList[t])
    IN  /\ devAt[t] = "listed" /\ DevIndex(i) >= DevReal
        /\ ~(i = 0 /\ DevMatch(devMine[t].set))

(* my_SetupDiGetDeviceInterfaceDetailW: only for the set the class has now *)
DevDetail(t) == \E c \in devAdded : devCur[c] = devMine[t].set /\ devMine[t].class = c

(* my_SetupDiDestroyDeviceInfoList: the table forgets the set, ... *)
DevForget(t) ==
    LET s == devMine[t].set
    IN  /\ devAt[t] = "listed" /\ devAt' = [devAt EXCEPT ![t] = "destroy"]
        /\ devCur' = [c \in DevClasses |-> IF c \in devAdded /\ devCur[c] = s
                                           THEN DevNone ELSE devCur[c]]
        /\ UNCHANGED <<libVars, devAdded, devKernel, devMine, devList,
                       devSole>>

(* ... and Windows destroys it. *)
DevDestroy(t) ==
    /\ devAt[t] = "destroy" /\ devAt' = [devAt EXCEPT ![t] = "idle"]
    /\ devKernel' = [devKernel EXCEPT ![devMine[t].set] = DevNone]
    /\ devMine' = [devMine EXCEPT ![t] = DevNoSet]
    /\ devList' = [devList EXCEPT ![t] = <<>>]
    /\ devSole' = [devSole EXCEPT ![t] = FALSE]
    /\ UNCHANGED <<libVars, devCur, devAdded>>

DevNext ==
    \/ \E c \in DevClasses : DevAdd(c)
    \/ \E t \in HookThreads :
          \/ \E c \in DevClasses \cup DevOthers : DevGetClass(t, c)
          \/ DevRecord(t) \/ DevEnum(t) \/ DevForget(t) \/ DevDestroy(t)

HookNext == LibNext \/ DevNext

HookSpec == HookInit /\ [][HookNext]_hookVars

-----------------------------------------------------------------------------
(* Properties *)

(* A hook's own module stays loaded, however often the program loads and frees
   the libraries that it stands in for: its loads are not counted, so a free
   that went through would take the hook away.                             *)
LibStaysLoaded == libCount["hook"] >= 1

(* A program that lists the devices of a class is told of a made-up device
   first, which then has a path, and of every real device once; where no hook
   has a device, it is told of the real ones only, though of the first one
   twice, since the index is shifted there too.  This is so unless another
   thread lists the class in the meantime, or the handle is one that a new
   class has by accident.                                                  *)
DevListsDevices ==
    \A t \in HookThreads : devSole[t] /\ DevListEnds(t) =>
       IF devMine[t].phantom
       THEN /\ devList[t] = <<DevPhantom>> \o [i \in 1 .. DevReal |-> <<i - 1>>]
            /\ DevDetail(t)
       ELSE {devList[t][i] : i \in DOMAIN devList[t]} = {<<i>> : i \in 0 .. DevReal - 1}
=============================================================================
