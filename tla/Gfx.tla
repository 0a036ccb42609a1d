---------------------------------- MODULE Gfx ----------------------------------
(***************************************************************************)
(* The graphics hooks: hooklib/gfx.c, which most games use, and gfxhook/   *)
(* (d3d9.c, d3d11.c, dxgi.c).  How they find the functions that they stand *)
(* in front of, and how they wrap or patch the objects that those return,  *)
(* so that the game's devices come out as configured.                      *)
(*                                                                         *)
(* The libraries, their objects and com_proxy are external: a library has  *)
(* the functions of some version of Windows, an object is its references,  *)
(* a proxy releases its object when the game releases the proxy, and the   *)
(* objects of a library may share their table of methods.                  *)
(***************************************************************************)
EXTENDS Integers, FiniteSets

CONSTANTS GfxHooks   \* the sources whose hooks may be installed

ASSUME GfxHooksAssumption == GfxHooks \subseteq {"hooklib", "d3d9", "d3d11", "dxgi"}

VARIABLES
    gfxHook,      \* the one that this game's hook installs
    gfxConfig,    \* enable, windowed
    gfxShared,    \* the library's objects share their table of methods
    gfxImports,   \* the functions in the game's import table
    gfxExports,   \* the functions that the system's library has
    gfxOffers,    \* the functions that the game's hook exports itself (its .def)
    gfxTried,     \* the hook is initialised
    gfxNext,      \* the next_ pointers that are set
    gfxLoaded,    \* the hook has loaded the library
    gfxPushed,    \* dll_hook_push has put the hook in the library's place
    gfxOriginal,  \* D3D9CreateDeviceEx_Original
    gfxCall,      \* what the game's call has come to
    gfxHeld,      \* what the game holds: nothing, an object or its proxy
    gfxRefs,      \* references to the object
    gfxDevice,    \* the device or swap chain that was made of it
    gfxBy         \* the call that made it (not in the code)

gfxFixed == <<gfxHook, gfxConfig, gfxShared, gfxImports, gfxExports, gfxOffers>>
gfxLinks == <<gfxTried, gfxNext, gfxLoaded, gfxPushed>>
gfxVars == <<gfxFixed, gfxLinks, gfxOriginal, gfxCall, gfxHeld, gfxRefs,
             gfxDevice, gfxBy>>

GfxFunctions ==
    IF gfxHook \in {"hooklib", "d3d9"} THEN {"Direct3DCreate9", "Direct3DCreate9Ex"}
    ELSE IF gfxHook = "d3d11" THEN {"D3D11CreateDevice", "D3D11CreateDeviceAndSwapChain"}
    ELSE {"CreateDXGIFactory", "CreateDXGIFactory1", "CreateDXGIFactory2"}

(* CreateDXGIFactory2 came with Windows 8.1: it is not required. *)
GfxRequired == GfxFunctions \ {"CreateDXGIFactory2"}

GfxNoCall == [at |-> "idle", riid |-> "none"]

GfxTypeOK ==
    /\ gfxHook \in GfxHooks
    /\ gfxImports \cup gfxOffers \cup gfxNext \subseteq GfxFunctions
    /\ gfxTried \in BOOLEAN /\ gfxLoaded \in BOOLEAN /\ gfxPushed \in BOOLEAN
    /\ gfxRefs \in Nat

GfxInit ==
    /\ gfxHook \in GfxHooks
    /\ gfxConfig \in [enable : BOOLEAN, windowed : BOOLEAN] /\ gfxShared \in BOOLEAN
    /\ gfxExports \in SUBSET GfxFunctions /\ gfxImports \in SUBSET gfxExports
    /\ gfxOffers \in SUBSET GfxFunctions
    /\ gfxTried = FALSE /\ gfxNext = {} /\ gfxLoaded = FALSE /\ gfxPushed = FALSE
    /\ gfxOriginal = "none" /\ gfxCall = GfxNoCall
    /\ gfxHeld = "none" /\ gfxRefs = 0 /\ gfxDevice = "none"
    /\ gfxBy = "none"

-----------------------------------------------------------------------------
(* Seeded faults: what a definition below might have been by mistake; each one
   breaks a property, and none is part of the specification.               *)

(* The library is looked into only if none of its functions is linked. *)
GfxMustLoad_NoneLinked == GfxRequired \cap gfxImports = {}

(* The object is kept when no proxy can be made of it. *)
GfxReleased_Kept == gfxRefs

(* hook_factory has no branch for the newest interface. *)
GfxWrapped_NotTheNewest(riid) == riid \in {"d3d9", "d3d9ex", "factory", "factory1"}

-----------------------------------------------------------------------------
(* gfx_hook_init, gfx_d3d9_hook_init, gfx_d3d11_hook_init, gfx_dxgi_hook_init *)

GfxMustLoad ==
    IF gfxHook = "hooklib" THEN "Direct3DCreate9" \notin gfxImports
    ELSE ~(GfxRequired \subseteq gfxImports)

(* hook_table_apply has patched the imports and set their next_ pointers;
   GetProcAddress finds what the library has.                              *)
GfxLinked == GfxFunctions \cap gfxImports
GfxFound == GfxFunctions \cap gfxExports

GfxInstalls(found, loaded) ==
    gfxNext' = GfxLinked \cup found /\ gfxLoaded' = loaded /\ gfxPushed' = TRUE

(* The library is freed, and the pointers into it stay. *)
GfxGivesUp(found) ==
    gfxNext' = GfxLinked \cup found /\ UNCHANGED <<gfxLoaded, gfxPushed>>

GfxHookInit ==
    /\ ~gfxTried /\ gfxTried' = TRUE
    /\ \/ ~gfxConfig.enable /\ UNCHANGED <<gfxNext, gfxLoaded, gfxPushed>>
       \/ gfxConfig.enable /\ ~GfxMustLoad /\ GfxInstalls({}, FALSE)
       \/ gfxConfig.enable /\ GfxMustLoad
          /\ \/ GfxRequired \subseteq GfxFound /\ GfxInstalls(GfxFound, TRUE)
             \/ ~(GfxRequired \subseteq GfxFound) /\ GfxGivesUp(GfxFound)
             \/ GfxGivesUp({})   \* LoadLibraryW fails
    /\ UNCHANGED <<gfxFixed, gfxOriginal, gfxCall, gfxHeld, gfxRefs, gfxDevice, gfxBy>>

-----------------------------------------------------------------------------
(* The game's calls *)

(* Through its import table, or by asking for the library by name *)
GfxReaches(f) ==
    /\ gfxConfig.enable /\ gfxTried /\ f \in GfxFunctions
    /\ f \in gfxImports \/ (gfxPushed /\ f \in gfxOffers)

(* CreateDXGIFactory2 forwards to CreateDXGIFactory1 where it has no next. *)
GfxForward(f) ==
    IF f = "CreateDXGIFactory2" /\ f \notin gfxNext THEN "CreateDXGIFactory1" ELSE f

(* The interface that a call asks for; "newer" is one that came later. *)
GfxInterfaces(f) ==
    IF gfxHook = "dxgi" THEN {"factory", "factory1", "factory2", "newer"}
    ELSE IF f = "Direct3DCreate9" THEN {"d3d9"}
    ELSE IF gfxHook = "hooklib" THEN {"patched"} ELSE {"d3d9ex"}

(* hook_Direct3DCreate9, hook_Direct3DCreate9Ex, Direct3DCreate9,
   Direct3DCreate9Ex, CreateDXGIFactory, CreateDXGIFactory1,
   CreateDXGIFactory2: the next function makes an object.                  *)
GfxCreate(f) ==
    /\ gfxHook # "d3d11" /\ GfxReaches(f) /\ GfxForward(f) \in gfxNext
    /\ gfxCall = GfxNoCall /\ gfxHeld = "none" /\ gfxDevice = "none"
    /\ \E riid \in GfxInterfaces(f) : gfxCall' = [at |-> "made", riid |-> riid]
    /\ gfxRefs' = 1
    /\ UNCHANGED <<gfxFixed, gfxLinks, gfxOriginal, gfxHeld, gfxDevice, gfxBy>>

(* EXHOOK reads the method that it replaces: of a table that it has been in
   before, its own.                                                        *)
GfxExhook ==
    /\ gfxCall = [at |-> "made", riid |-> "patched"]
    /\ gfxOriginal' = IF gfxShared /\ gfxOriginal # "none" THEN "override" ELSE "system"
    /\ gfxCall' = [gfxCall EXCEPT !.at = "idle"] /\ gfxHeld' = "real"
    /\ UNCHANGED <<gfxFixed, gfxLinks, gfxRefs, gfxDevice, gfxBy>>

(* hook_factory knows three interfaces, the d3d9 functions theirs. *)
GfxWrapped(riid) == riid \in {"d3d9", "d3d9ex", "factory", "factory1", "factory2"}

(* The fail path of either *)
GfxReleased == gfxRefs - 1

GfxWrap ==
    /\ gfxCall.at = "made" /\ gfxCall.riid # "patched"
    /\ \/ /\ gfxHeld' = IF GfxWrapped(gfxCall.riid) THEN "proxy" ELSE "real"
          /\ gfxCall' = [gfxCall EXCEPT !.at = "idle"] /\ UNCHANGED gfxRefs
       \/ /\ GfxWrapped(gfxCall.riid) /\ gfxRefs' = GfxReleased
          /\ gfxCall' = GfxNoCall /\ UNCHANGED gfxHeld
    /\ UNCHANGED <<gfxFixed, gfxLinks, gfxOriginal, gfxDevice, gfxBy>>

(* What the game can have an object make: a device, or a swap chain. *)
GfxMethods(riid) ==
    CASE riid = "d3d9"                  -> {"CreateDevice"}
      [] riid \in {"d3d9ex", "patched"} -> {"CreateDevice", "CreateDeviceEx"}
      [] riid \in {"factory", "factory1"} -> {"CreateSwapChain"}
      [] OTHER -> {"CreateSwapChain", "CreateSwapChainForHwnd"}

(* The one method that is replaced, in a proxy or in the object's own table;
   the others of these, and the objects that are not wrapped, make what they
   are asked for.                                                          *)
GfxReplaced ==
    CASE gfxHeld = "proxy"           -> {"CreateDevice", "CreateSwapChain"}
      [] gfxCall.riid = "patched"    -> {"CreateDeviceEx"}
      [] OTHER                       -> {}

(* my_IDirect3D9_CreateDevice, and my_CreateDevice and
   D3D9CreateDeviceEx_Override of hooklib                                  *)
GfxParameters(asked) == IF gfxConfig.windowed THEN "window" ELSE asked

(* my_IDXGIFactory_CreateSwapChain sets it in either case. *)
GfxSwapChain == IF gfxConfig.windowed THEN "window" ELSE "screen"

(* D3D9CreateDeviceEx_Override calls what it has replaced, and if that is
   itself, without end.                                                    *)
GfxMode(method, asked) ==
    CASE method \notin GfxReplaced -> asked
      [] method \in GfxReplaced /\ method = "CreateSwapChain" -> GfxSwapChain
      [] method \in GfxReplaced /\ method = "CreateDevice"    -> GfxParameters(asked)
      [] OTHER -> IF gfxOriginal = "override" THEN "endless" ELSE GfxParameters(asked)

GfxCreateDevice(method, asked) ==
    /\ gfxCall.at = "idle" /\ gfxHeld # "none" /\ gfxDevice = "none"
    /\ method \in GfxMethods(gfxCall.riid)
    /\ gfxDevice' = GfxMode(method, asked) /\ gfxBy' = method
    /\ UNCHANGED <<gfxFixed, gfxLinks, gfxOriginal, gfxCall, gfxHeld, gfxRefs>>

(* D3D11CreateDeviceAndSwapChain *)
GfxCreateBoth ==
    /\ LET f == "D3D11CreateDeviceAndSwapChain" IN GfxReaches(f) /\ f \in gfxNext
    /\ gfxDevice = "none"
    /\ gfxDevice' = GfxSwapChain /\ gfxBy' = "D3D11CreateDeviceAndSwapChain"
    /\ UNCHANGED <<gfxFixed, gfxLinks, gfxOriginal, gfxCall, gfxHeld, gfxRefs>>

(* The game releases what it holds. *)
GfxRelease ==
    /\ gfxCall.at = "idle" /\ (gfxHeld # "none" \/ gfxDevice # "none")
    /\ gfxDevice # "endless"
    /\ gfxRefs' = IF gfxHeld = "none" THEN gfxRefs ELSE gfxRefs - 1
    /\ gfxHeld' = "none" /\ gfxDevice' = "none" /\ gfxBy' = "none"
    /\ gfxCall' = GfxNoCall
    /\ UNCHANGED <<gfxFixed, gfxLinks, gfxOriginal>>

GfxNext ==
    \/ GfxHookInit \/ GfxExhook \/ GfxWrap \/ GfxCreateBoth \/ GfxRelease
    \/ \E f \in GfxFunctions : GfxCreate(f)
    \/ \E method \in GfxMethods(gfxCall.riid), asked \in {"window", "screen"} :
          GfxCreateDevice(method, asked)

GfxSpec == GfxInit /\ [][GfxNext]_gfxVars

-----------------------------------------------------------------------------
(* Properties *)

(* Each hook that the game can reach has a function behind it, in a library
   that is loaded: one that the game links to, or one that the hook has loaded
   and not freed, whatever the version of Windows and wherever it failed.
   hook_Direct3DCreate9Ex alone may have none, and then refuses.           *)
GfxHooksLead ==
    \A f \in GfxFunctions :
       GfxReaches(f) =>
          /\ GfxForward(f) \in gfxNext \/ (gfxHook = "hooklib" /\ f = "Direct3DCreate9Ex")
          /\ gfxLoaded \/ GfxLinked # {}

(* The calls that are meant to obey the configuration: CreateDevice, or for the
   object that hooklib patches CreateDeviceEx, and CreateSwapChain of the
   interfaces that hook_factory knows.  CreateDeviceEx of gfxhook's, CreateDevice
   of the patched and CreateSwapChainForHwnd are hooked by nobody.         *)
GfxObeys(riid, method) ==
    CASE method = "CreateDevice"           -> riid # "patched"
      [] method = "CreateDeviceEx"         -> riid = "patched"
      [] method = "CreateSwapChain"        -> riid # "newer"
      [] method = "CreateSwapChainForHwnd" -> FALSE
      [] OTHER                             -> method # "none"

(* An object has the reference that the game holds and no other, also where a
   proxy could not be made; and what one of those calls makes comes out in a
   window if that is configured, unless a shared table of methods was patched
   twice.                                                                  *)
GfxObjectsKept ==
    gfxCall.at = "idle" =>
       /\ gfxRefs = IF gfxHeld = "none" THEN 0 ELSE 1
       /\ gfxConfig.windowed /\ GfxObeys(gfxCall.riid, gfxBy)
             => gfxDevice = "window" \/ gfxOriginal = "override"
=============================================================================
