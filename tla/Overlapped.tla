----------------------------- MODULE Overlapped -----------------------------
(***************************************************************************)
(* What a hooked driver promises the game about overlapped I/O, with no    *)
(* mention of how: a request is pending from the moment the call returns   *)
(* ERROR_IO_PENDING until its final status is published, requests reach    *)
(* their final status in the order in which they were accepted, and the    *)
(* game takes a request back only once it has one.                         *)
(***************************************************************************)
EXTENDS Sequences

CONSTANTS Clients,   \* game threads, each with one OVERLAPPED of its own
          Final      \* the final NTSTATUS values

VARIABLES io,        \* io[c]: what c's OVERLAPPED says
          queue      \* the pending requests, oldest first

vars == <<io, queue>>

Init == /\ io = [c \in Clients |-> "idle"]
        /\ queue = <<>>

(* The driver accepts c's request. *)
Accept(c) == /\ io[c] = "idle"
             /\ io' = [io EXCEPT ![c] = "pending"]
             /\ queue' = Append(queue, c)

(* The oldest pending request gets its final status. *)
Complete(c, s) == /\ queue # <<>>
                  /\ c = Head(queue)
                  /\ io' = [io EXCEPT ![c] = s]
                  /\ queue' = Tail(queue)

(* The game takes a finished request back. *)
Retire(c) == /\ io[c] \in Final
             /\ io' = [io EXCEPT ![c] = "idle"]
             /\ UNCHANGED queue

Next == \E c \in Clients : \/ Accept(c)
                           \/ \E s \in Final : Complete(c, s)
                           \/ Retire(c)

Spec == Init /\ [][Next]_vars
=============================================================================
