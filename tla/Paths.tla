-------------------------------- MODULE Paths --------------------------------
(***************************************************************************)
(* The path hooks (hooklib/path.c) and the drives behind them              *)
(* (platform/vfs.c): at start-up every process of the game makes the       *)
(* directories of the drives and pushes four hooks; from then on the file  *)
(* calls of the game have their paths translated.                          *)
(*                                                                         *)
(* Several processes with the hooks start at the same time and share the   *)
(* disk; one may be killed while it starts, and be started again.  A path  *)
(* is [head, end, tail]: the drive or directory that it begins with, what  *)
(* follows that, and the rest.                                             *)
(***************************************************************************)
EXTENDS Naturals, Sequences, FiniteSets

CONSTANTS
    PathProcs,
    PathTails,     \* names below a drive
    VfsDirs,       \* the directory of each drive, as a sequence of names
    VfsOptions,    \* whether the configuration names an option directory
    PathMaxKills,  \* bound: starts that are cut short
    PathMaxFiles   \* bound: files that exist at a time

ASSUME PathProcsAssumption == PathProcs # {}
ASSUME VfsOptionsAssumption == VfsOptions \subseteq BOOLEAN

(* The names are those that may be missing when the game starts.  Two
   directories have at most the first of them in common: with two, one process
   may make a name on its way to one directory and so make another, which is
   about to, give up the other directory.                                  *)
ASSUME VfsDirsAssumption ==
    /\ DOMAIN VfsDirs = {"amfs", "appdata", "nthome"}
    /\ \A d \in DOMAIN VfsDirs : VfsDirs[d] \in Seq(STRING) /\ Len(VfsDirs[d]) > 0
    /\ \A d, e \in DOMAIN VfsDirs : d # e =>
          \A n \in 1 .. Len(VfsDirs[d]) :
             n <= Len(VfsDirs[e]) /\ SubSeq(VfsDirs[d], 1, n) = SubSeq(VfsDirs[e], 1, n)
                => n = 1
ASSUME PathBoundsAssumption == PathMaxKills \in Nat /\ PathMaxFiles \in Nat

VARIABLES
    vfsOption,   \* vfs_config.option is not empty
    vfsAt,       \* how far a process is with vfs_hook_init
    vfsDisk,     \* the directories that exist on the real disk
    pathHooks,   \* path_hook_list of each process
    pathFiles,   \* what the games have made, at its place on the real disk
    pathMade,    \* the same, as the games named it (not in the code)
    pathKills    \* starts that were cut short (not in the code)

pathVars == <<vfsOption, vfsAt, vfsDisk, pathHooks, pathFiles, pathMade, pathKills>>

PathHeads == {"E:", "e:", "Y:", "nthome", "NTHOME", "modern", "option", "C:"}
PathEnds  == {"separator", "end", "more"}
Paths     == [head : PathHeads, end : PathEnds, tail : PathTails]

(* The order in which vfs_hook_init makes directories *)
VfsOrder == <<"amfs", "appdata", "nthome">>

VfsBegin == [dir |-> 1, name |-> 1, step |-> "check"]
VfsDone  == [dir |-> 4, name |-> 1, step |-> "done"]

PathTypeOK ==
    /\ vfsOption \in BOOLEAN
    /\ \A p \in PathProcs : vfsAt[p].step \in {"check", "create", "push", "done"}
    /\ pathHooks \in [PathProcs -> Seq({"drives", "nthome", "modern", "option"})]
    /\ pathKills \in 0 .. PathMaxKills

PathInit ==
    /\ vfsOption \in VfsOptions
    /\ vfsAt = [p \in PathProcs |-> VfsBegin]
    /\ vfsDisk = {}
    /\ pathHooks = [p \in PathProcs |-> <<>>]
    /\ pathFiles = {} /\ pathMade = {} /\ pathKills = 0

-----------------------------------------------------------------------------
(* Seeded faults: what a definition below might have been by mistake; each one
   breaks a property, and none is part of the specification.               *)

(* A directory whose first name exists is not looked at again. *)
VfsCheck_Top(p) ==
    LET at   == vfsAt[p]
        path == VfsDirs[VfsOrder[at.dir]]
    IN  /\ at.step = "check"
        /\ vfsAt' = [vfsAt EXCEPT ![p] =
              IF SubSeq(path, 1, at.name) \notin vfsDisk
              THEN [at EXCEPT !.step = "create"]
              ELSE [dir |-> at.dir + 1, name |-> 1,
                    step |-> IF at.dir = 3 THEN "push" ELSE "check"]]
        /\ UNCHANGED <<vfsOption, vfsDisk, pathHooks, pathFiles, pathMade, pathKills>>

(* Drive letters are compared as they are. *)
VfsFold_CaseMatters(head) == head

(* What follows the directory's name is not looked at. *)
PathMatches_Prefix(hook, src) ==
    hook = (CASE src.head \in {"E:", "e:", "Y:"} -> "drives"
              [] src.head \in {"nthome", "NTHOME"} -> "nthome"
              [] OTHER -> src.head)

-----------------------------------------------------------------------------
(* vfs_hook_init *)

(* vfs_mkdir_rec goes on to the next name of a path, or gives the path up;
   vfs_hook_init then goes on to the next directory all the same.          *)
VfsAfter(at, ok) ==
    IF ok /\ at.name < Len(VfsDirs[VfsOrder[at.dir]])
    THEN [at EXCEPT !.name = @ + 1, !.step = "check"]
    ELSE [dir |-> at.dir + 1, name |-> 1,
          step |-> IF at.dir = 3 THEN "push" ELSE "check"]

(* GetFileAttributesW *)
VfsCheck(p) ==
    LET at   == vfsAt[p]
        path == VfsDirs[VfsOrder[at.dir]]
    IN  /\ at.step = "check"
        /\ vfsAt' = [vfsAt EXCEPT ![p] =
              IF SubSeq(path, 1, at.name) \notin vfsDisk
              THEN [at EXCEPT !.step = "create"]
              ELSE VfsAfter(at, TRUE)]
        /\ UNCHANGED <<vfsOption, vfsDisk, pathHooks, pathFiles, pathMade, pathKills>>

(* CreateDirectoryW, which fails if another process was faster. *)
VfsCreate(p) ==
    LET at  == vfsAt[p]
        dir == SubSeq(VfsDirs[VfsOrder[at.dir]], 1, at.name)
    IN  /\ at.step = "create"
        /\ vfsDisk' = vfsDisk \cup {dir}
        /\ vfsAt' = [vfsAt EXCEPT ![p] = VfsAfter(at, dir \notin vfsDisk)]
        /\ UNCHANGED <<vfsOption, pathHooks, pathFiles, pathMade, pathKills>>

(* path_hook_push, four times or three, and the key of the mount points *)
VfsPush(p) ==
    /\ vfsAt[p].step = "push"
    /\ pathHooks' = [pathHooks EXCEPT ![p] =
          <<"drives", "nthome", "modern">>
             \o (IF vfsOption THEN <<"option">> ELSE <<>>)]
    /\ vfsAt' = [vfsAt EXCEPT ![p] = VfsDone]
    /\ UNCHANGED <<vfsOption, vfsDisk, pathFiles, pathMade, pathKills>>

(* A process is ended in the middle, and started again. *)
VfsKill(p) ==
    /\ pathKills < PathMaxKills /\ pathKills' = pathKills + 1
    /\ vfsAt' = [vfsAt EXCEPT ![p] = VfsBegin]
    /\ pathHooks' = [pathHooks EXCEPT ![p] = <<>>]
    /\ UNCHANGED <<vfsOption, vfsDisk, pathFiles, pathMade>>

-----------------------------------------------------------------------------
(* Translation *)

(* path_compare_w, and the two cases of vfs_path_hook's switch *)
VfsFold(head) == CASE head = "e:"     -> "E:"
                   [] head = "NTHOME" -> "nthome"
                   [] OTHER           -> head

(* vfs_path_hook *)
VfsPathHook(src) ==
    /\ VfsFold(src.head) \in {"E:", "Y:"}
    /\ src.end = "separator"

(* vfs_path_hook_nthome, _nthome_modern, _option: a separator or nothing may
   follow the name.                                                        *)
VfsPathHookNthome(src) == VfsFold(src.head) = "nthome" /\ src.end # "more"
VfsPathHookModern(src) == VfsFold(src.head) = "modern" /\ src.end # "more"
VfsPathHookOption(src) == VfsFold(src.head) = "option" /\ src.end # "more"

PathMatches(hook, src) ==
    CASE hook = "drives" -> VfsPathHook(src)
      [] hook = "nthome" -> VfsPathHookNthome(src)
      [] hook = "modern" -> VfsPathHookModern(src)
      [] hook = "option" -> VfsPathHookOption(src)

(* Both names of the home directory lead to %USERPROFILE%. *)
VfsTarget(head) == CASE head = "E:" -> "amfs"
                     [] head = "Y:" -> "appdata"
                     [] head \in {"nthome", "modern"} -> "nthome"
                     [] OTHER -> head

(* The real disk does not tell case apart either. *)
PathOnDisk(head) == CASE head = "e:"     -> "E: of the disk"
                      [] head = "E:"     -> "E: of the disk"
                      [] head = "NTHOME" -> "nthome of the disk"
                      [] head = "nthome" -> "nthome of the disk"
                      [] OTHER           -> head

(* path_transform_w, and path_transform_a around it: the first hook that
   knows the path replaces its head.                                       *)
PathTransform(p, src) ==
    IF \E i \in DOMAIN pathHooks[p] : PathMatches(pathHooks[p][i], src)
    THEN [root |-> VfsTarget(VfsFold(src.head)),
          tail |-> IF src.end = "end" THEN <<>> ELSE <<src.tail>>]
    ELSE [root |-> PathOnDisk(src.head),
          tail |-> <<src.end, IF src.end = "end" THEN {} ELSE {src.tail}>>]

-----------------------------------------------------------------------------
(* The file calls, A and W alike *)

PathCalls(p) == vfsAt[p] = VfsDone

PathUnchanged == UNCHANGED <<vfsOption, vfsAt, vfsDisk, pathHooks, pathKills>>

(* The file that a path means to the game, under one name: Windows does not
   tell case apart, and a home directory has two names.                    *)
PathMeaning(src) ==
    [head |-> CASE src.head = "e:" -> "E:"
                [] src.head = "NTHOME" -> "nthome"
                [] src.head = "modern" /\ src.end # "more" -> "nthome"
                [] OTHER -> src.head,
     end |-> src.end, tail |-> IF src.end = "end" THEN <<>> ELSE <<src.tail>>]

(* hook_GetFileAttributes and hook_FindFirstFile change nothing; this is what
   they answer.                                                            *)
PathExists(p, src) == PathTransform(p, src) \in pathFiles

PathRoom == Cardinality(pathFiles) < PathMaxFiles

(* hook_CreateDirectory: of a name that is taken, nothing *)
PathCreateDirectory(p, src) ==
    /\ PathCalls(p)
    /\ PathTransform(p, src) \notin pathFiles /\ PathRoom
    /\ pathFiles' = pathFiles \cup {PathTransform(p, src)}
    /\ pathMade' = pathMade \cup {PathMeaning(src)}
    /\ PathUnchanged

(* hook_CreateFile, which opens what is there *)
PathCreateFile(p, src) ==
    /\ PathCalls(p) /\ (PathExists(p, src) \/ PathRoom)
    /\ pathFiles' = pathFiles \cup {PathTransform(p, src)}
    /\ pathMade' = pathMade \cup {PathMeaning(src)}
    /\ PathUnchanged

(* hook_RemoveDirectory *)
PathRemoveDirectory(p, src) ==
    /\ PathCalls(p)
    /\ PathTransform(p, src) \in pathFiles
    /\ pathFiles' = pathFiles \ {PathTransform(p, src)}
    /\ pathMade' = pathMade \ {PathMeaning(src)}
    /\ PathUnchanged

PathNext == \E p \in PathProcs :
    \/ VfsCheck(p) \/ VfsCreate(p) \/ VfsPush(p) \/ VfsKill(p)
    \/ \E src \in Paths :
          \/ PathCreateDirectory(p, src) \/ PathCreateFile(p, src)
          \/ PathRemoveDirectory(p, src)

PathSpec == PathInit /\ [][PathNext]_pathVars

-----------------------------------------------------------------------------
(* Properties *)

(* Once every process has started, the directories of the drives exist, also
   those below a name on which two processes met, and those that a process
   was making when it was ended.                                           *)
VfsDirsWhole ==
    (\A p \in PathProcs : vfsAt[p] = VfsDone) =>
       \A d \in DOMAIN VfsDirs : VfsDirs[d] \in vfsDisk

(* What one process of the game has made under a name, and only that, exists
   for every other under every spelling of the name: no call goes around the
   translation, and no two files of the game share a place.                *)
PathOneFile ==
    \A p \in PathProcs : PathCalls(p) =>
       \A src \in Paths : PathExists(p, src) <=> PathMeaning(src) \in pathMade
=============================================================================
