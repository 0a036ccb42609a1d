------------------------------- MODULE Platform -------------------------------
(***************************************************************************)
(* The parts that stand in for Windows and for the small boards, together: *)
(* the registry, files, hook tables, names and network calls, the clock,   *)
(* the security device, the Amex devices, LED boards, the display, the     *)
(* graphics hooks, start-up and the serial frames.  They share no state    *)
(* and call each other only at start-up (StartUp).                         *)
(***************************************************************************)
EXTENDS Registry, Paths, HookTables, Names, Network, Clock, Nusec, Amex, LedBoards,
        StartUp, Vfd, Gfx, Frames

-----------------------------------------------------------------------------
(* Properties of more than one part *)

(* Type correctness of every part; that of Frames is part of FramesArrive.  No
   more is taken out of a bounded buffer, a reference count or a log than was
   put in, and no more put in than there is room for.                      *)
PlatformTypeOK ==
    /\ RegTypeOK /\ PathTypeOK /\ HookTypeOK /\ DnsTypeOK /\ NetTypeOK /\ ClockTypeOK
    /\ NusecTypeOK /\ AmexTypeOK /\ LedTypeOK /\ VfdTypeOK /\ StartTypeOK /\ GfxTypeOK

(* Files: every process finds the directories of vfs.c made before it goes on,
   and a file under one of them is the same file by whatever name.         *)
FilesFound == VfsDirsWhole /\ PathOneFile

(* The hooks' tables lead somewhere: a library that a hook stands in for stays
   loaded, a list of devices has each of them, and a graphics function that
   the game reaches has the system's behind it.                            *)
HooksLead == LibStaysLoaded /\ DevListsDevices /\ GfxHooksLead

(* What the game is told fits together: the network's calls with each other, a
   name only with this machine's hosts, an answer with the event that announces
   it, a size of the registry or of a store with what is then read, and the
   log's records, none of which is overwritten, with the state that was asked
   for.                                                                    *)
ToldAgrees ==
    /\ NetOneStory /\ DnsNeverLeaves /\ NetReplyWhole
    /\ RegSizeSuffices /\ AmexStoresSized /\ NusecLogWhole /\ NusecReadsTold

(* The small boards' replies, texts and button presses arrive, each once and in
   order, and the graphics objects are counted and come out as configured.  *)
BoardsServed == LedRepliesDue /\ VfdShowsTexts /\ AmexPressesOnce /\ GfxObjectsKept

(* A game that runs has all the parts that its start-up lists, and every
   function of an input DLL that it calls is one that start-up has bound in a
   library that is still loaded.                                           *)
StartedWhole == StartRunsWhole /\ StartCallsLive
=============================================================================
