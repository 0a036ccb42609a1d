------------------------------ MODULE JvsProofs ------------------------------
(***************************************************************************)
(* Theorems about Jvs, for a chain of any length.                          *)
(***************************************************************************)
EXTENDS Jvs, SequenceTheorems, TLAPS

(* What the master puts on the bus. *)
NoPacket      == dest = Broadcast /\ Len(cmds) = 0
ResetPacket   == dest = Broadcast /\ Len(cmds) = 1 /\ cmds[1] = "RESET"
AssignPacket  == dest = Broadcast /\ Len(cmds) = 1 /\ cmds[1] = "ASSIGN"
RequestPacket == \A i \in 1 .. Len(cmds) : cmds[i] \in Requests

(* What the pieces of the cracker's state say of one another. *)
CrackInv ==
    /\ at = 0 => NoPacket /\ resp = <<>>
    /\ at # 0 => fd /\ (ResetPacket \/ AssignPacket \/ RequestPacket)
    /\ at \notin Nodes => pos = 0
    /\ pos = 0 => out = <<>>
    /\ pos \in {0, 1} => hr = "S_OK"
    /\ ~root => given = 0

(* The board n has dealt with the packet. *)
Handled(n) == n < at \/ (n = at /\ pos > 1)

(* Which boards have an address while each kind of packet goes down the
   chain.  During an ASSIGN the boards that have dealt with it are one
   address ahead of the others.                                            *)
AddrInv ==
    /\ at = 0 \/ RequestPacket =>
          \A n \in Nodes : addr[n] # Unassigned <=> n > Length - given
    /\ at # 0 /\ ResetPacket =>
          /\ given = 0
          /\ \A n \in Nodes : Handled(n) => addr[n] = Unassigned
    /\ at # 0 /\ AssignPacket =>
          /\ given > 0
          /\ \A n \in Nodes :
                addr[n] # Unassigned <=>
                   n > (IF Handled(n) THEN Length - given ELSE Length - given + 1)

IInv == TypeOK /\ CrackInv /\ AddrInv

-----------------------------------------------------------------------------
(* Every initial state satisfies the invariant. *)
LEMMA InitIInv == Init => IInv
<1> SUFFICES ASSUME Init PROVE IInv
  OBVIOUS
<1> USE LengthAssumption, RoomAssumption DEF Init
<1>1. TypeOK
  <2>1. <<>> \in Seq(Commands) /\ <<>> \in Seq(Frames) /\ Len(<<>>) = 0
    OBVIOUS
  <2>2. /\ out \in Seq(Commands) /\ Len(out) <= Room
        /\ cmds \in Seq(Commands) /\ pos \in 0 .. Len(cmds) + 1
        /\ resp \in Seq(Frames)
    BY <2>1
  <2>3. /\ fd \in BOOLEAN /\ root \in BOOLEAN
        /\ addr \in [Nodes -> Addresses \cup {Unassigned}]
        /\ dest \in Addresses \cup {Broadcast}
        /\ hr \in {"S_OK", "failed"}
    OBVIOUS
  <2>4. at \in 0 .. Length + 1 /\ given \in 0 .. Length
    OBVIOUS
  <2>5. QED
    BY <2>2, <2>3, <2>4 DEF TypeOK
<1>2. CrackInv
  BY DEF CrackInv, NoPacket
<1>3. AddrInv
  BY DEF AddrInv, Nodes
<1>4. QED
  BY <1>1, <1>2, <1>3 DEF IInv

(* Every step preserves the invariant. *)
LEMMA Step ==
  ASSUME IInv, [Next]_vars
  PROVE  IInv'
<1> USE LengthAssumption, RoomAssumption DEF IInv
<1>1. CASE OpenOk
  <2>1. TypeOK'
    BY <1>1 DEF OpenOk, busVars, crackVars, TypeOK
  <2>2. CrackInv'
    BY <1>1 DEF OpenOk, busVars, crackVars, NoPacket, CrackInv
  <2>3. AddrInv'
    BY <1>1 DEF OpenOk, busVars, Nodes, CrackInv, AddrInv
  <2>4. QED
    BY <2>1, <2>2, <2>3
<1>2. CASE OpenNoBoards
  <2>1. TypeOK'
    BY <1>2 DEF OpenNoBoards, busVars, crackVars, TypeOK
  <2>2. CrackInv'
    BY <1>2 DEF OpenNoBoards, busVars, crackVars, NoPacket, CrackInv
  <2>3. AddrInv'
    BY <1>2 DEF OpenNoBoards, busVars, crackVars, ResetPacket, AssignPacket,
       RequestPacket, Handled, AddrInv
  <2>4. QED
    BY <2>1, <2>2, <2>3
<1>3. CASE Close
  <2>1. TypeOK'
    BY <1>3 DEF Close, busVars, crackVars, TypeOK
  <2>2. CrackInv'
    BY <1>3 DEF Close, busVars, crackVars, NoPacket, Idle, CrackInv
  <2>3. AddrInv'
    BY <1>3 DEF Close, busVars, Idle, AddrInv
  <2>4. QED
    BY <2>1, <2>2, <2>3
<1>4. CASE SendReset
  <2>1. TypeOK'
    BY <1>4 DEF SendReset, Send, portVars, crackVars, Nodes, Commands, Idle,
       TypeOK, CrackInv
  <2>2. CrackInv'
    BY <1>4 DEF SendReset, Send, portVars, crackVars, ResetPacket, Nodes,
       Idle, CrackInv
  <2>3. AddrInv'
    BY <1>4 DEF SendReset, Send, crackVars, AssignPacket, RequestPacket,
       Handled, Nodes, Requests, Queries, Idle, CrackInv, AddrInv
  <2>4. QED
    BY <2>1, <2>2, <2>3
<1>5. CASE SendAssign
  <2>1. TypeOK'
    BY <1>5 DEF SendAssign, Send, portVars, crackVars, Nodes, Commands, Idle,
       Sense, TypeOK, CrackInv, AddrInv
  <2>2. CrackInv'
    BY <1>5 DEF SendAssign, Send, portVars, crackVars, AssignPacket, Idle,
       Sense, CrackInv
  <2>3. AddrInv'
    BY <1>5 DEF SendAssign, Send, crackVars, ResetPacket, RequestPacket,
       Handled, Nodes, Requests, Queries, Idle, TypeOK, CrackInv, AddrInv
  <2>4. QED
    BY <2>1, <2>2, <2>3
<1>6. CASE SendRequests
  <2>1. TypeOK'
    BY <1>6 DEF SendRequests, Send, portVars, crackVars, Nodes, Addresses,
       Commands, Idle, TypeOK, CrackInv
  <2>2. CrackInv'
    BY <1>6 DEF SendRequests, Send, portVars, crackVars, RequestPacket,
       Nodes, Idle, CrackInv
  <2>3. AddrInv'
    BY <1>6 DEF SendRequests, Send, ResetPacket, AssignPacket, Requests,
       Queries, Idle, AddrInv
  <2>4. QED
    BY <2>1, <2>2, <2>3
<1>7. CASE Ignore
  <2>1. TypeOK'
    BY <1>7 DEF Ignore, portVars, Nodes, NextBoard, TypeOK
  <2>2. CrackInv'
    BY <1>7 DEF Ignore, portVars, ResetPacket, AssignPacket, RequestPacket,
       Nodes, NextBoard, CrackInv
  <2>3. AddrInv'
    BY <1>7 DEF Ignore, ResetPacket, AssignPacket, RequestPacket, Nodes,
       NextBoard, AddrInv
  <2>4. QED
    BY <2>1, <2>2, <2>3
<1>8. CASE Accept
  <2>1. TypeOK'
    BY <1>8 DEF Accept, portVars, busVars, TypeOK
  <2>2. CrackInv'
    BY <1>8 DEF Accept, portVars, busVars, ResetPacket, AssignPacket,
       RequestPacket, Nodes, CrackInv
  <2>3. AddrInv'
    BY <1>8 DEF Accept, busVars, ResetPacket, AssignPacket, RequestPacket,
       Handled, AddrInv
  <2>4. QED
    BY <2>1, <2>2, <2>3
<1>9. ASSUME NEW c \in Queries, Query(c) PROVE IInv'
  <2>1. TypeOK'
    <3>1. out' \in Seq(Commands) /\ Len(out') <= Room
      <4>1. c \in Commands /\ out \in Seq(Commands) /\ Len(out) <= Room
        BY <1>9 DEF TypeOK, Commands, Requests
      <4>2. Append(out, c) \in Seq(Commands) /\ Len(Append(out, c)) = Len(out) + 1
        BY <4>1
      <4>3. out' = out \/ (out' = Append(out, c) /\ Len(out) < Room)
        BY <1>9 DEF Query
      <4>4. Len(out) \in Nat
        BY <4>1
      <4>5. QED
        BY <4>1, <4>2, <4>3, <4>4
    <3>2. (pos \in 0 .. Len(cmds) + 1)'
      BY <1>9 DEF Query, Ask, busVars
    <3>3. QED
      BY <1>9, <3>1, <3>2 DEF Query, TypeOK, portVars, busVars
  <2>2. CrackInv'
    BY <1>9 DEF Query, portVars, busVars, ResetPacket, AssignPacket,
       RequestPacket, Nodes, Ask, CrackInv
  <2>3. AddrInv'
    BY <1>9 DEF Query, busVars, ResetPacket, AssignPacket, RequestPacket,
       Queries, Ask, Command, AddrInv
  <2>4. QED
    BY <2>1, <2>2, <2>3
<1>10. CASE Reject
  <2>1. TypeOK'
    BY <1>10 DEF Reject, portVars, busVars, Ask, TypeOK
  <2>2. CrackInv'
    BY <1>10 DEF Reject, portVars, busVars, ResetPacket, AssignPacket,
       RequestPacket, Nodes, Ask, CrackInv
  <2>3. AddrInv'
    BY <1>10 DEF Reject, busVars, ResetPacket, AssignPacket, RequestPacket,
       Ask, Command, AddrInv
  <2>4. QED
    BY <2>1, <2>2, <2>3
<1>11. CASE Reset
  <2>1. TypeOK'
    BY <1>11 DEF Reset, portVars, busVars, Ask, TypeOK
  <2>2. CrackInv'
    BY <1>11 DEF Reset, portVars, busVars, ResetPacket, AssignPacket,
       RequestPacket, Nodes, Ask, CrackInv
  <2>3. AddrInv'
    <3>1. at \in Nodes /\ at # 0 /\ pos \in 1 .. Len(cmds) /\ cmds[pos] = "RESET"
      BY <1>11 DEF Reset, Ask, Command, Nodes
    <3>2. ResetPacket /\ ~AssignPacket /\ ~RequestPacket
      BY <3>1 DEF CrackInv, ResetPacket, AssignPacket, RequestPacket,
         Requests, Queries
    <3>3. given = 0 /\ pos = 1 /\ \A n \in Nodes : n < at => addr[n] = Unassigned
      BY <3>1, <3>2 DEF AddrInv, Handled, ResetPacket
    <3>4. /\ addr' = [addr EXCEPT ![at] = Unassigned]
          /\ at' = at /\ pos' = 2 /\ given' = 0 /\ cmds' = cmds /\ dest' = dest
      BY <1>11, <3>3 DEF Reset, busVars
    <3>5. \A n \in Nodes : Handled(n)' => addr'[n] = Unassigned
      BY <3>1, <3>3, <3>4 DEF Handled, TypeOK, Nodes
    <3>6. QED
      BY <3>1, <3>2, <3>4, <3>5 DEF AddrInv, ResetPacket, AssignPacket,
         RequestPacket
  <2>4. QED
    BY <2>1, <2>2, <2>3
<1>12. CASE AssignOther
  <2>1. TypeOK'
    BY <1>12 DEF AssignOther, portVars, busVars, Ask, TypeOK
  <2>2. CrackInv'
    BY <1>12 DEF AssignOther, portVars, busVars, ResetPacket, AssignPacket,
       RequestPacket, Nodes, Ask, CrackInv
  <2>3. AddrInv'
    BY <1>12 DEF AssignOther, busVars, ResetPacket, AssignPacket,
       RequestPacket, Handled, Ask, Command, Sense, TypeOK, AddrInv
  <2>4. QED
    BY <2>1, <2>2, <2>3
<1>13. CASE AssignAddr
  <2>1. TypeOK'
    <3>1. out' \in Seq(Commands) /\ Len(out') <= Room
      <4>1. "ASSIGN" \in Commands /\ out \in Seq(Commands) /\ Len(out) <= Room
        BY <1>13 DEF TypeOK, Commands
      <4>2. Append(out, "ASSIGN") \in Seq(Commands) /\ Len(Append(out, "ASSIGN")) = Len(out) + 1
        BY <4>1
      <4>3. out' = out \/ (out' = Append(out, "ASSIGN") /\ Len(out) < Room)
        BY <1>13 DEF AssignAddr
      <4>4. Len(out) \in Nat
        BY <4>1
      <4>5. QED
        BY <4>1, <4>2, <4>3, <4>4
    <3>2. (pos \in 0 .. Len(cmds) + 1)'
      BY <1>13 DEF AssignAddr, Ask, busVars
    <3>3. QED
      <4>1. given \in Addresses
        <5>1. at # 0 /\ pos \in 1 .. Len(cmds) /\ cmds[pos] = "ASSIGN"
          BY <1>13 DEF AssignAddr, Ask, Command, Nodes
        <5>2. AssignPacket
          BY <5>1 DEF CrackInv, ResetPacket, RequestPacket, Requests, Queries
        <5>3. QED
          BY <5>1, <5>2 DEF AddrInv, TypeOK, Addresses
      <4>2. QED
        BY <1>13, <3>1, <3>2, <4>1 DEF AssignAddr, TypeOK, portVars, busVars
  <2>2. CrackInv'
    BY <1>13 DEF AssignAddr, portVars, busVars, ResetPacket, AssignPacket,
       RequestPacket, Nodes, Ask, CrackInv
  <2>3. AddrInv'
    <3>1. at \in Nodes /\ at # 0 /\ pos \in 1 .. Len(cmds) /\ cmds[pos] = "ASSIGN"
      BY <1>13 DEF AssignAddr, Ask, Command, Nodes
    <3>2. AssignPacket /\ ~ResetPacket /\ ~RequestPacket
      BY <3>1 DEF CrackInv, ResetPacket, AssignPacket, RequestPacket,
         Requests, Queries
    <3>3. /\ pos = 1 /\ given > 0 /\ given \in Addresses
          /\ \A n \in Nodes :
                addr[n] # Unassigned <=>
                   n > (IF n < at THEN Length - given ELSE Length - given + 1)
      BY <3>1, <3>2 DEF AddrInv, Handled, AssignPacket, TypeOK, Addresses
    <3>4. /\ addr' = [addr EXCEPT ![at] = given]
          /\ at' = at /\ pos' = 2 /\ given' = given /\ cmds' = cmds /\ dest' = dest
      BY <1>13, <3>3 DEF AssignAddr, busVars
    <3>5. at > Length - given
      <4>1. ~(at + 1 \in Nodes /\ addr[at + 1] = Unassigned)
        BY <1>13 DEF AssignAddr, Sense
      <4>2. at = Length \/ (at + 1 \in Nodes /\ addr[at + 1] # Unassigned)
        BY <3>1, <4>1 DEF Nodes
      <4>3. CASE at = Length
        BY <3>3, <4>3 DEF Addresses
      <4>4. CASE at + 1 \in Nodes /\ addr[at + 1] # Unassigned
        <5>1. at + 1 > Length - given + 1
          BY <3>1, <3>3, <4>4 DEF Nodes
        <5>2. QED
          BY <3>1, <3>3, <5>1 DEF Nodes, Addresses
      <4>5. QED
        BY <4>2, <4>3, <4>4
    <3>6. given # Unassigned
      BY <3>3 DEF Addresses, Unassigned
    <3>7. \A n \in Nodes :
             addr'[n] # Unassigned <=>
                n > (IF Handled(n)' THEN Length - given ELSE Length - given + 1)
      BY <3>1, <3>3, <3>4, <3>5, <3>6 DEF Handled, TypeOK, Nodes
    <3>8. QED
      BY <3>1, <3>2, <3>3, <3>4, <3>7 DEF AddrInv, ResetPacket, AssignPacket,
         RequestPacket
  <2>4. QED
    BY <2>1, <2>2, <2>3
<1>14. CASE Answer
  <2>1. TypeOK'
    <3>1. Reply \in Seq(Frames)
      <4>1. [from |-> at, status |-> "error", reports |-> <<>>] \in Frames
        BY <1>14 DEF Answer, Frames
      <4>2. [from |-> at, status |-> "success", reports |-> out] \in Frames
        BY <1>14 DEF Answer, Frames, TypeOK
      <4>3. CASE hr = "failed"
        BY <4>1, <4>3 DEF Reply
      <4>4. CASE hr # "failed" /\ out = <<>>
        BY <4>4 DEF Reply
      <4>5. CASE hr # "failed" /\ out # <<>>
        BY <4>2, <4>5 DEF Reply
      <4>6. QED
        BY <4>3, <4>4, <4>5
    <3>2. resp' \in Seq(Frames)
      BY <1>14, <3>1 DEF Answer, TypeOK
    <3>3. QED
      BY <1>14, <3>2 DEF Answer, NextBoard, TypeOK, portVars, Nodes
  <2>2. CrackInv'
    BY <1>14 DEF Answer, portVars, ResetPacket, AssignPacket, RequestPacket,
       Nodes, NextBoard, CrackInv
  <2>3. AddrInv'
    BY <1>14 DEF Answer, ResetPacket, AssignPacket, RequestPacket, Handled,
       Nodes, NextBoard, TypeOK, CrackInv, AddrInv
  <2>4. QED
    BY <2>1, <2>2, <2>3
<1>15. CASE Return
  <2>1. TypeOK'
    BY <1>15 DEF Return, portVars, crackVars, Nodes, TypeOK, CrackInv
  <2>2. CrackInv'
    BY <1>15 DEF Return, portVars, crackVars, NoPacket, Nodes, CrackInv
  <2>3. AddrInv'
    BY <1>15 DEF Return, Handled, Nodes, CrackInv, AddrInv
  <2>4. QED
    BY <2>1, <2>2, <2>3
<1>16. CASE UNCHANGED vars
  <2>1. TypeOK'
    BY <1>16 DEF vars, portVars, busVars, crackVars, TypeOK
  <2>2. CrackInv'
    BY <1>16 DEF vars, portVars, busVars, crackVars, NoPacket, ResetPacket,
       AssignPacket, RequestPacket, CrackInv
  <2>3. AddrInv'
    BY <1>16 DEF vars, busVars, crackVars, ResetPacket, AssignPacket,
       RequestPacket, Handled, AddrInv
  <2>4. QED
    BY <2>1, <2>2, <2>3
<1>17. QED
  BY <1>1, <1>2, <1>3, <1>4, <1>5, <1>6, <1>7, <1>8, <1>9, <1>10, <1>11,
     <1>12, <1>13, <1>14, <1>15, <1>16 DEF Next

-----------------------------------------------------------------------------
(* What has been reported, or why nothing will be. *)
OutInv ==
    /\ hr = "S_OK" /\ pos > 0 /\ (RequestPacket \/ out # <<>>) =>
          /\ Len(out) = pos - 1
          /\ \A i \in 1 .. Len(out) : out[i] = cmds[i]
    /\ hr = "failed" =>
          Len(cmds) > Room \/ \E j \in 1 .. Len(cmds) : cmds[j] = "BAD"

ReplyInv == OutInv /\ RepliesComplete

(* Every initial state satisfies it. *)
LEMMA InitReplyInv == Init => ReplyInv
  BY DEF Init, ReplyInv, OutInv, RepliesComplete

(* Appending a report keeps what has been reported. *)
LEMMA AppendReport ==
  ASSUME TypeOK, CrackInv, OutInv, at \in Nodes, hr = "S_OK",
         pos \in 1 .. Len(cmds), out = <<>> => pos = 1,
         out' = Append(out, cmds[pos]), pos' = pos + 1, UNCHANGED <<cmds, hr>>
  PROVE  OutInv'
<1>1. out \in Seq(Commands) /\ cmds[pos] \in Commands
  BY DEF TypeOK
<1>2. Len(out) = pos - 1 /\ \A i \in 1 .. Len(out) : out[i] = cmds[i]
  BY DEF OutInv
<1>3. /\ Len(out') = pos
      /\ \A i \in 1 .. Len(out) : out'[i] = out[i]
      /\ out'[pos] = cmds[pos]
  BY <1>1, <1>2
<1>4. QED
  BY <1>2, <1>3 DEF OutInv

(* Every step preserves it. *)
LEMMA ReplyStep ==
  ASSUME IInv, ReplyInv, [Next]_vars
  PROVE  ReplyInv'
<1> USE LengthAssumption, RoomAssumption DEF IInv, ReplyInv
<1>1. CASE OpenOk \/ OpenNoBoards \/ Close \/ UNCHANGED vars
  BY <1>1 DEF OpenOk, OpenNoBoards, Close, vars, busVars, crackVars, OutInv,
     RepliesComplete, RequestPacket
<1>2. CASE SendReset \/ SendAssign \/ SendRequests
  BY <1>2 DEF SendReset, SendAssign, SendRequests, Send, Idle, crackVars,
     CrackInv, Nodes, OutInv, RepliesComplete
<1>3. CASE Ignore \/ Accept
  BY <1>3 DEF Ignore, Accept, NextBoard, busVars, CrackInv, OutInv,
     RepliesComplete
<1>4. ASSUME NEW c \in Queries, Query(c) PROVE ReplyInv'
  <2>1. at \in Nodes /\ pos \in 1 .. Len(cmds) /\ hr = "S_OK" /\ cmds[pos] = c
    BY <1>4 DEF Query, Ask, Command
  <2>2. RequestPacket
    BY <2>1 DEF CrackInv, ResetPacket, AssignPacket, Queries, Nodes
  <2>3. Len(out) = pos - 1
    BY <2>1, <2>2 DEF OutInv
  <2>4. OutInv'
    <3>1. CASE Len(out) < Room
      BY <1>4, <2>1, <2>3, <3>1, AppendReport DEF Query, busVars
    <3>2. CASE ~(Len(out) < Room)
      BY <1>4, <2>1, <2>3, <3>2 DEF Query, busVars, OutInv
    <3>3. QED
      BY <3>1, <3>2
  <2>5. RepliesComplete'
    BY <1>4 DEF Query, busVars, RepliesComplete
  <2>6. QED
    BY <2>4, <2>5
<1>5. CASE Reject
  BY <1>5 DEF Reject, Ask, Command, busVars, OutInv, RepliesComplete
<1>6. CASE Reset \/ AssignOther
  <2>1. at \in Nodes /\ pos \in 1 .. Len(cmds) /\ cmds[pos] \notin Requests
    BY <1>6 DEF Reset, AssignOther, Ask, Command, Requests, Queries
  <2>2. ~RequestPacket /\ Len(cmds) = 1
    BY <2>1 DEF CrackInv, RequestPacket, ResetPacket, AssignPacket, Nodes
  <2>3. out = <<>>
    BY <1>6, <2>1, <2>2 DEF Reset, AssignOther, Ask, OutInv
  <2>4. QED
    BY <1>6, <2>2, <2>3 DEF Reset, AssignOther, busVars, OutInv,
       RepliesComplete, RequestPacket
<1>7. CASE AssignAddr
  <2>1. /\ at \in Nodes /\ pos \in 1 .. Len(cmds) /\ hr = "S_OK"
        /\ cmds[pos] = "ASSIGN"
    BY <1>7 DEF AssignAddr, Ask, Command
  <2>2. Len(cmds) = 1 /\ ~RequestPacket
    BY <2>1 DEF CrackInv, RequestPacket, ResetPacket, AssignPacket, Nodes,
       Requests, Queries
  <2>3. pos = 1
    BY <2>1, <2>2
  <2>4. out = <<>>
    BY <2>1, <2>3 DEF OutInv
  <2>5. OutInv'
    <3>1. CASE Len(out) < Room
      BY <1>7, <2>1, <2>3, <3>1, AppendReport DEF AssignAddr, busVars
    <3>2. CASE ~(Len(out) < Room)
      BY <1>7, <2>2, <2>4, <3>2 DEF AssignAddr, busVars, OutInv
    <3>3. QED
      BY <3>1, <3>2
  <2>6. RepliesComplete'
    BY <1>7 DEF AssignAddr, busVars, RepliesComplete
  <2>7. QED
    BY <2>5, <2>6
<1>8. CASE Answer
  <2>1. OutInv'
    BY <1>8 DEF Answer, NextBoard, OutInv
  <2>2. /\ resp \in Seq(Frames) /\ cmds' = cmds
        /\ \A i \in 1 .. Len(resp) :
              IF resp[i].status = "success"
              THEN resp[i].reports = cmds
              ELSE Len(cmds) > Room \/ \E j \in 1 .. Len(cmds) : cmds[j] = "BAD"
    BY <1>8 DEF Answer, TypeOK, RepliesComplete
  <2>3. CASE hr = "failed"
    <3>1. resp' = resp \o <<[from |-> at, status |-> "error", reports |-> <<>>]>>
      BY <1>8, <2>3 DEF Answer, Reply
    <3>2. QED
      BY <2>1, <2>2, <2>3, <3>1 DEF OutInv, RepliesComplete
  <2>4. CASE hr # "failed" /\ out = <<>>
    <3>1. resp' = resp
      BY <1>8, <2>2, <2>4 DEF Answer, Reply
    <3>2. QED
      BY <2>1, <2>2, <3>1 DEF RepliesComplete
  <2>5. CASE hr # "failed" /\ out # <<>>
    <3>1. resp' = resp \o <<[from |-> at, status |-> "success", reports |-> out]>>
      BY <1>8, <2>5 DEF Answer, Reply
    <3>2. out = cmds
      <4>1. out \in Seq(Commands) /\ cmds \in Seq(Commands)
        BY DEF TypeOK
      <4>2. Len(out) = Len(cmds) /\ \A i \in 1 .. Len(out) : out[i] = cmds[i]
        BY <1>8, <2>5 DEF Answer, OutInv, TypeOK
      <4>3. QED
        BY <4>1, <4>2, SeqEqual
    <3>3. QED
      BY <2>1, <2>2, <3>1, <3>2 DEF RepliesComplete
  <2>6. QED
    BY <2>3, <2>4, <2>5
<1>9. CASE Return
  BY <1>9 DEF Return, crackVars, CrackInv, Nodes, OutInv, RepliesComplete
<1>10. QED
  BY <1>1, <1>2, <1>3, <1>4, <1>5, <1>6, <1>7, <1>8, <1>9 DEF Next

-----------------------------------------------------------------------------
(* Both invariants hold in every reachable state. *)
THEOREM Invariance == Spec => [](IInv /\ ReplyInv)
<1>1. Init => IInv /\ ReplyInv
  BY InitIInv, InitReplyInv
<1>2. IInv /\ ReplyInv /\ [Next]_vars => (IInv /\ ReplyInv)'
  BY Step, ReplyStep
<1>3. QED
  BY <1>1, <1>2, PTL DEF Spec

(* The variables keep their types: no report is written past the end of
   resp_bytes, and no address is handed out that is not a board's.         *)
THEOREM TypeCorrect == Spec => []TypeOK
<1>1. IInv => TypeOK
  BY DEF IInv
<1>2. QED
  BY <1>1, Invariance, PTL

(* io3_cmd_assign_addr gives addresses from the tail of the chain, one board
   for each, so that the sense line is right about when to stop.           *)
THEOREM TailFirst == Spec => []AssignedFromTail
<1>1. IInv => AssignedFromTail
  BY DEF IInv, AddrInv, AssignedFromTail
<1>2. QED
  BY <1>1, Invariance, PTL

(* jvs_crack_request answers all the commands of a packet or none of them. *)
THEOREM AllOrError == Spec => []RepliesComplete
<1>1. ReplyInv => RepliesComplete
  BY DEF ReplyInv
<1>2. QED
  BY <1>1, Invariance, PTL

(* The chain serves the master: nothing is written past a buffer, and every
   answer is whole or an error, for chains and buffers of any size.        *)
THEOREM ChainIsServed == Spec => []ChainServed
<1>1. TypeOK /\ RepliesComplete => ChainServed
  BY DEF ChainServed
<1>2. QED
  BY <1>1, TypeCorrect, AllOrError, PTL
=============================================================================
