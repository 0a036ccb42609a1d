--------------------------------- MODULE Jvs ---------------------------------
(***************************************************************************)
(* The JVS port: the driver the game opens as $jvs (amex/jvs.c), the bus   *)
(* that passes each packet down a daisy chain of boards (jvs/jvs-bus.c),   *)
(* the request cracker (jvs/jvs-util.c) and the Type 3 I/O board           *)
(* (board/io3.c), which answers its own address, and 0xFF with everybody.  *)
(*                                                                         *)
(* One game thread uses the port.  A transact ioctl visits the boards one  *)
(* after the other and the commands of the packet one after the other; each *)
(* visit is an action.  Node 1 is the head of the chain.                   *)
(*                                                                         *)
(* The bytes of a frame, and the sizes of requests and reports, are those  *)
(* of another abstraction level: a request is a command, a report the name *)
(* of the command it answers, and the 128-byte buffer holds Room reports.  *)
(***************************************************************************)
EXTENDS Naturals, Sequences

CONSTANTS
    Length,      \* boards in the chain
    Room,        \* reports that fit into resp_bytes
    MaxCommands  \* bound: commands in a packet to one board

ASSUME LengthAssumption == Length \in Nat \ {0}
ASSUME RoomAssumption == Room \in Nat /\ MaxCommands \in Nat

Nodes      == 1 .. Length
Addresses  == 1 .. Length   \* as many as the master hands out
Unassigned == Length + 1    \* 0xFF: of a board, that it has no address
Broadcast  == Unassigned    \* 0xFF: of a packet, that it is for everybody

(* Commands: those answered by a report, those that fail (an unknown code, a
   count that is out of range), and the two that are sent to everybody.    *)
Queries  == {"READ", "WRITE_GPIO"}
Requests == Queries \cup {"BAD"}
Commands == Requests \cup {"RESET", "ASSIGN"}

VARIABLES
    fd,      \* jvs_fd is not NULL
    root,    \* jvs_root is not NULL
    addr,    \* io3->addr of each board
    dest,    \* the packet on the bus: whom it is for
    cmds,    \* and its commands
    at,      \* the board being visited; 0 when the port is idle
    pos,     \* the next command of the packet; 0 before the address is compared
    out,     \* the reports in resp_bytes
    hr,      \* what the last command returned
    resp,    \* the frames in irp->read
    given    \* addresses handed out since the last reset (kept by the master)

portVars  == <<fd, root>>
crackVars == <<pos, out, hr>>
busVars   == <<dest, cmds, at, resp>>
vars == <<portVars, addr, busVars, crackVars, given>>

Frames == [from : Nodes, status : {"success"}, reports : Seq(Commands)]
          \cup [from : Nodes, status : {"error"}, reports : {<<>>}]

TypeOK ==
    /\ fd \in BOOLEAN /\ root \in BOOLEAN
    /\ addr \in [Nodes -> Addresses \cup {Unassigned}]
    /\ dest \in Addresses \cup {Broadcast} /\ cmds \in Seq(Commands)
    /\ at \in 0 .. Length + 1
    /\ pos \in 0 .. Len(cmds) + 1
    /\ out \in Seq(Commands) /\ Len(out) <= Room
    /\ hr \in {"S_OK", "failed"}
    /\ resp \in Seq(Frames)
    /\ given \in 0 .. Length

Init ==
    /\ fd = FALSE /\ root = FALSE
    /\ addr = [n \in Nodes |-> Unassigned]
    /\ dest = Broadcast /\ cmds = <<>> /\ at = 0 /\ resp = <<>>
    /\ pos = 0 /\ out = <<>> /\ hr = "S_OK"
    /\ given = 0

(* io3_sense; jvs_node_sense is false past the end of the chain. *)
Sense(n) == n \in Nodes /\ addr[n] = Unassigned

Command == cmds[pos]
Ask(c)  == /\ at \in Nodes /\ pos \in 1 .. Len(cmds) /\ hr = "S_OK"
           /\ Command = c

Idle == fd /\ at = 0

-----------------------------------------------------------------------------
(* Seeded faults: what a definition below might have been by mistake. *)

(* A board takes every address that it sees. *)
AssignAddr_Always ==
    /\ Ask("ASSIGN") /\ Len(out) < Room
    /\ addr' = [addr EXCEPT ![at] = given]
    /\ out' = Append(out, "ASSIGN")
    /\ pos' = pos + 1
    /\ UNCHANGED <<portVars, busVars, hr, given>>

(* A failed command does not end the loop. *)
Reject_Continues ==
    /\ Ask("BAD")
    /\ pos' = pos + 1
    /\ UNCHANGED <<portVars, addr, busVars, out, hr, given>>

(* The report is written without a look at the room that is left. *)
Query_Unchecked(c) ==
    /\ Ask(c)
    /\ out' = Append(out, c)
    /\ pos' = pos + 1
    /\ UNCHANGED <<portVars, addr, busVars, hr, given>>

-----------------------------------------------------------------------------
(* jvs_handle_open, jvs_handle_close; a second open is refused.  The game's
   provider builds the chain anew (io3_init); where it fails, the port opens
   with the root it had before.                                            *)
OpenOk ==
    /\ ~fd /\ fd' = TRUE
    /\ root' = TRUE
    /\ addr' = [n \in Nodes |-> Unassigned]
    /\ given' = 0
    /\ UNCHANGED <<busVars, crackVars>>

OpenNoBoards ==
    /\ ~fd /\ fd' = TRUE
    /\ UNCHANGED <<root, addr, busVars, crackVars, given>>

Close ==
    /\ Idle /\ fd' = FALSE
    /\ UNCHANGED <<root, addr, busVars, crackVars, given>>

-----------------------------------------------------------------------------
(* jvs_ioctl_transact begins: the packet goes to the head of the chain, if
   there is one.                                                           *)
Send(d, cs) ==
    /\ Idle
    /\ dest' = d /\ cmds' = cs
    /\ at' = IF root THEN 1 ELSE Length + 1
    /\ resp' = <<>>
    /\ UNCHANGED <<portVars, addr, crackVars>>

(* The master resets the chain, hands out the next address while the sense
   line says that a board has none, and talks to one board at a time.      *)
SendReset == Send(Broadcast, <<"RESET">>) /\ given' = IF root THEN 0 ELSE given

SendAssign == /\ root /\ Sense(1)
              /\ Send(Broadcast, <<"ASSIGN">>)
              /\ given' = given + 1

SendRequests == \E a \in 1 .. given, k \in 1 .. MaxCommands :
                   \E cs \in [1 .. k -> Requests] : Send(a, cs)
                /\ UNCHANGED given

-----------------------------------------------------------------------------
(* jvs_crack_request, on the board at which the packet is *)

NextBoard == /\ at' = at + 1
             /\ pos' = 0 /\ out' = <<>> /\ hr' = "S_OK"

(* The packet is for another board. *)
Ignore ==
    /\ at \in Nodes /\ pos = 0
    /\ dest \notin {addr[at], Broadcast}
    /\ NextBoard
    /\ UNCHANGED <<portVars, addr, dest, cmds, resp, given>>

Accept ==
    /\ at \in Nodes /\ pos = 0
    /\ dest \in {addr[at], Broadcast}
    /\ pos' = 1
    /\ UNCHANGED <<portVars, addr, busVars, out, hr, given>>

(* A command that is answered, or fails when its report does not fit. *)
Query(c) ==
    /\ Ask(c)
    /\ IF Len(out) < Room THEN out' = Append(out, c) /\ UNCHANGED hr
                          ELSE hr' = "failed" /\ UNCHANGED out
    /\ pos' = pos + 1
    /\ UNCHANGED <<portVars, addr, busVars, given>>

Reject ==
    /\ Ask("BAD")
    /\ hr' = "failed"
    /\ pos' = pos + 1
    /\ UNCHANGED <<portVars, addr, busVars, out, given>>

(* io3_cmd_reset: no ack. *)
Reset ==
    /\ Ask("RESET")
    /\ addr' = [addr EXCEPT ![at] = Unassigned]
    /\ pos' = pos + 1
    /\ UNCHANGED <<portVars, busVars, out, hr, given>>

(* io3_cmd_assign_addr: "That address is for somebody else" while the next
   board has none; otherwise it is for this one.                           *)
AssignOther ==
    /\ Ask("ASSIGN") /\ Sense(at + 1)
    /\ pos' = pos + 1
    /\ UNCHANGED <<portVars, addr, busVars, out, hr, given>>

AssignAddr ==
    /\ Ask("ASSIGN") /\ ~Sense(at + 1)
    /\ addr' = [addr EXCEPT ![at] = given]
    /\ IF Len(out) < Room THEN out' = Append(out, "ASSIGN") /\ UNCHANGED hr
                          ELSE hr' = "failed" /\ UNCHANGED out
    /\ pos' = pos + 1
    /\ UNCHANGED <<portVars, busVars, given>>

(* An error frame, no frame, or the reports. *)
Reply == CASE hr = "failed" ->
                 <<[from |-> at, status |-> "error", reports |-> <<>>]>>
           [] hr # "failed" /\ out = <<>> -> <<>>
           [] OTHER ->
                 <<[from |-> at, status |-> "success", reports |-> out]>>

(* All commands are done, or one has failed; then the next board. *)
Answer ==
    /\ at \in Nodes /\ pos > 0
    /\ hr = "failed" \/ pos > Len(cmds)
    /\ resp' = resp \o Reply
    /\ NextBoard
    /\ UNCHANGED <<portVars, addr, dest, cmds, given>>

(* The ioctl returns the frames in irp->read, or ERROR_NO_DATA_DETECTED. *)
Return ==
    /\ at = Length + 1
    /\ at' = 0
    /\ dest' = Broadcast /\ cmds' = <<>> /\ resp' = <<>>
    /\ UNCHANGED <<portVars, addr, crackVars, given>>

-----------------------------------------------------------------------------
Next == \/ OpenOk \/ OpenNoBoards \/ Close
        \/ SendReset \/ SendAssign \/ SendRequests
        \/ Ignore \/ Accept
        \/ \E c \in Queries : Query(c)
        \/ Reject \/ Reset \/ AssignOther \/ AssignAddr
        \/ Answer \/ Return

Spec == Init /\ [][Next]_vars

-----------------------------------------------------------------------------
(* Properties *)

(* The chain is addressed from its tail, one board per address handed out:
   the sense line of the head, which ends the master's enumeration, says that
   every board has an address, after exactly Length of them.               *)
AssignedFromTail ==
    at = 0 => \A n \in Nodes : addr[n] # Unassigned <=> n > Length - given

(* A success frame answers all the commands of the packet, in their order;
   an error frame is sent when a command failed or did not fit, and then no
   report goes with it.                                                    *)
RepliesComplete ==
    \A i \in 1 .. Len(resp) :
        IF resp[i].status = "success"
        THEN resp[i].reports = cmds
        ELSE Len(cmds) > Room \/ \E j \in 1 .. Len(cmds) : cmds[j] = "BAD"

(* Type correctness, the bound of resp_bytes among it, and whole replies: what
   reaches the master in a buffer is the answer to what it sent.           *)
ChainServed == TypeOK /\ RepliesComplete

(* "That address is for somebody else": an address is for one board. *)
AddressesDistinct ==
    at = 0 => \A m, n \in Nodes :
                 m # n /\ addr[m] # Unassigned => addr[m] # addr[n]
=============================================================================
