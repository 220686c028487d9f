--------------------------- MODULE ActuatorHandlers ---------------------------
(****************************************************************************)
(* How a client executes operations: the receive thread of the connection   *)
(* reads each payload into Session::recv_payload_buffer and starts a        *)
(* detached thread of Controller::handle_message, with a pointer to that    *)
(* one buffer; when the connection is lost, main() registers again and      *)
(* reads the server's answer into the same buffer.                          *)
(*                                                                          *)
(* A byte of the buffer is known by the request it was written for, and the *)
(* later of two has the higher number.  Of the bytes after DEVICE_TYPE two  *)
(* are kept: the first, and one that stands for the last.  That messages    *)
(* arrive whole and in step is Framing's matter; that the server's answer   *)
(* comes before any operation is assumed (SessionServer and Framing reach   *)
(* states in which it does not).                                            *)
(****************************************************************************)
EXTENDS Naturals, Sequences

CONSTANTS MaxMessages,  \* bound: messages the server sends
          MaxLosses     \* bound: connections lost

ASSUME BoundAssumption == MaxMessages \in Nat /\ MaxLosses \in Nat

Msg == 1..MaxMessages
Cell == 1..2

(* What is in the buffer: the payload of message r, or the answer to the    *)
(* registration before which n messages were sent.                          *)
Payload(r) == 2 * r
Answer(n) == 2 * n + 1

(* REQ_ACTUATOR_OPERATION for a device of each type, and for one that the   *)
(* client does not have; DONE is REGISTER_DONE for a device.                *)
Kinds == {"BINARY", "NUMBER", "TEXT", "UNKNOWN", "DONE"}

VARIABLES kind,        \* what the server has sent so far, on all connections
          inbox,       \* the messages on their way
          connection,  \* "up"; "lost" by the server; "down" once noticed
          losses,      \* losses counted against MaxLosses
          alive,       \* the client process lives
          receiver,    \* the receive thread, or main() in register_init_info
          buffer,      \* recv_payload_buffer after its first byte
          handler,     \* the handler thread of each message
          fetched      \* what it read from the buffer so far

vars == <<kind, inbox, connection, losses, alive, receiver, buffer, handler, fetched>>

Init == /\ kind = <<>>
        /\ inbox = <<>>
        /\ connection = "up"
        /\ losses = 0
        /\ alive = TRUE
        /\ receiver = [at |-> "reading", msg |-> 0, cell |-> 1]
        /\ buffer = [k \in Cell |-> Answer(0)]
        /\ handler = [r \in Msg |-> "none"]
        /\ fetched = [r \in Msg |-> <<>>]

(* Bytes of the payload after DEVICE_TYPE, as announced. *)
Sends(r) == CASE kind[r] \in {"NUMBER", "TEXT"}    -> 2
              [] kind[r] \in {"BINARY", "UNKNOWN"} -> 1
              [] kind[r] = "DONE"                  -> 0

(* Byte k of the payload of r.  A text is announced one byte longer than it *)
(* is sent (ipc.py), and the server forwards the announced length (ipc.cpp) *)
(* with a byte that an earlier request, of any client, left in its buffer.  *)
Stale == 0
Written(r, k) == IF kind[r] = "TEXT" /\ k = 2 THEN Stale ELSE Payload(r)

(* Bytes handle_message uses: a number is taken from one byte, and nothing  *)
(* of a message about another device, or other than an operation.           *)
Uses(r) == CASE kind[r] = "TEXT"               -> 2
             [] kind[r] \in {"BINARY", "NUMBER"} -> 1
             [] kind[r] \in {"UNKNOWN", "DONE"}  -> 0

-----------------------------------------------------------------------------
(* The server, and what it takes from the client when it goes. *)

Send == /\ connection = "up" /\ receiver.at # "registering" /\ Len(kind) < MaxMessages
        /\ \E t \in Kinds : kind' = Append(kind, t)
        /\ inbox' = Append(inbox, Len(kind'))
        /\ UNCHANGED <<connection, losses, alive, receiver, buffer, handler, fetched>>

(* The connection ends: what has not been read may be lost, and with it the *)
(* payload of a message whose header was read.                              *)
Lose == /\ connection = "up" /\ losses < MaxLosses
        /\ connection' = "lost"
        /\ losses' = losses + 1
        /\ \/ inbox' \in {inbox, <<>>} /\ UNCHANGED receiver
           \/ /\ receiver.at = "filling" /\ receiver.cell = 1
              /\ receiver' = [receiver EXCEPT !.at = "cut"]
              /\ inbox' = <<>>
        /\ UNCHANGED <<kind, alive, buffer, handler, fetched>>

(* With the server away the main thread may die of SIGPIPE or end main()    *)
(* (ClientLink), and all threads with it.                                   *)
End == /\ alive /\ connection # "up"
       /\ alive' = FALSE
       /\ UNCHANGED <<kind, inbox, connection, losses, receiver, buffer, handler, fetched>>

-----------------------------------------------------------------------------
(* Session::receive. *)

(* Mutant: the handler is started before the payload is read. *)
AtOnce(r) == [at |-> "spawning", msg |-> r, cell |-> 1]

AfterHeader(r) == [at |-> IF Sends(r) > 0 THEN "filling" ELSE "spawning",
                   msg |-> r, cell |-> 1]

ReadHeader == /\ alive /\ receiver.at = "reading" /\ inbox # <<>>
              /\ receiver' = AfterHeader(Head(inbox))
              /\ inbox' = Tail(inbox)
              /\ UNCHANGED <<kind, connection, losses, alive, buffer, handler, fetched>>

(* Mutant: one byte too many is read. *)
FillPast == /\ alive /\ receiver.at = "filling"
            /\ buffer' = [buffer EXCEPT ![receiver.cell] = Written(receiver.msg, receiver.cell)]
            /\ receiver' = IF receiver.cell > Sends(receiver.msg)
                           THEN [receiver EXCEPT !.at = "spawning", !.cell = 1]
                           ELSE [receiver EXCEPT !.cell = @ + 1]
            /\ UNCHANGED <<kind, inbox, connection, losses, alive, handler, fetched>>

(* The kernel copies the payload, byte after byte, beside the handlers.     *)
Fill == /\ alive /\ receiver.at = "filling"
        /\ buffer' = [buffer EXCEPT ![receiver.cell] = Written(receiver.msg, receiver.cell)]
        /\ receiver' = IF receiver.cell = Sends(receiver.msg)
                       THEN [receiver EXCEPT !.at = "spawning", !.cell = 1]
                       ELSE [receiver EXCEPT !.cell = @ + 1]
        /\ UNCHANGED <<kind, inbox, connection, losses, alive, handler, fetched>>

Spawn == /\ alive /\ receiver.at = "spawning"
         /\ handler' = [handler EXCEPT ![receiver.msg] = "running"]
         /\ receiver' = [receiver EXCEPT !.at = "reading"]
         /\ UNCHANGED <<kind, inbox, connection, losses, alive, buffer, fetched>>

(* The read() of a header, or that of a payload, returns 0 or -1. *)
AtEnd == /\ connection = "lost" /\ inbox = <<>>
         /\ receiver.at \in {"reading", "cut"}

(* Mutant: the handlers end with the thread that started them. *)
NoticeAndEnd == /\ alive /\ AtEnd
                /\ connection' = "down"
                /\ receiver' = [receiver EXCEPT !.at = "reading"]
                /\ handler' = [r \in Msg |-> "none"]
                /\ UNCHANGED <<kind, inbox, losses, alive, buffer, fetched>>

(* session_connected becomes false; no handler is started. *)
Notice == /\ alive /\ AtEnd
          /\ connection' = "down"
          /\ receiver' = [receiver EXCEPT !.at = "reading"]
          /\ UNCHANGED <<kind, inbox, losses, alive, buffer, handler, fetched>>

(* main() connects again, and register_init_info reads TRASH; if the server *)
(* goes meanwhile, the receive thread of that connection starts and ends.   *)
Reconnect == /\ alive /\ connection = "down"
             /\ connection' = "up"
             /\ receiver' = [at |-> "registering", msg |-> 0, cell |-> 1]
             /\ UNCHANGED <<kind, inbox, losses, alive, buffer, handler, fetched>>

ReadTrash == /\ alive /\ receiver.at = "registering"
             /\ IF connection = "up"
                THEN buffer' = [buffer EXCEPT ![receiver.cell] = Answer(Len(kind))]
                ELSE UNCHANGED buffer
             /\ receiver' = IF receiver.cell = 2
                            THEN [receiver EXCEPT !.at = "reading", !.cell = 1]
                            ELSE [receiver EXCEPT !.cell = @ + 1]
             /\ UNCHANGED <<kind, inbox, connection, losses, alive, handler, fetched>>

Receiver == ReadHeader \/ Fill \/ Spawn \/ Notice \/ Reconnect \/ ReadTrash

-----------------------------------------------------------------------------
(* Controller::handle_message: the thread reads from the buffer what its    *)
(* device needs, byte after byte, and then operates it, if it has one.      *)

Fetch(r) == /\ alive /\ handler[r] = "running" /\ Len(fetched[r]) < Uses(r)
            /\ fetched' = [fetched EXCEPT ![r] = Append(@, buffer[Len(@) + 1])]
            /\ UNCHANGED <<kind, inbox, connection, losses, alive, receiver, buffer, handler>>

Operate(r) == /\ alive /\ handler[r] = "running" /\ Len(fetched[r]) = Uses(r)
              /\ handler' = [handler EXCEPT ![r] = "done"]
              /\ UNCHANGED <<kind, inbox, connection, losses, alive, receiver, buffer, fetched>>

Handler(r) == Fetch(r) \/ Operate(r)

Next == Send \/ Lose \/ End \/ Receiver \/ \E r \in Msg : Handler(r)

(* The threads of the process run when they can. *)
Fairness == WF_vars(Receiver) /\ \A r \in Msg : WF_vars(Handler(r))

Spec == Init /\ [][Next]_vars
FairSpec == Spec /\ Fairness

-----------------------------------------------------------------------------
(* Properties. *)

(* Every variable has its type; the receive thread is within the payload it *)
(* reads, and a handler takes no more than it needs.                        *)
TypeOK ==
  /\ kind \in Seq(Kinds) /\ Len(kind) <= MaxMessages
  /\ \A k \in DOMAIN inbox : inbox[k] \in DOMAIN kind
  /\ connection \in {"up", "lost", "down"}
  /\ losses \in 0..MaxLosses /\ alive \in BOOLEAN
  /\ receiver.at \in {"reading", "filling", "cut", "spawning", "registering"}
  /\ receiver.at \in {"filling", "spawning"} => receiver.msg \in DOMAIN kind
  /\ receiver.at = "filling" => receiver.cell \in 1..Sends(receiver.msg)
  /\ receiver.at = "registering" => receiver.cell \in Cell
  /\ receiver.at = "cut" => connection = "lost"
  /\ buffer \in [Cell -> 0..Answer(Len(kind))]
  /\ \A r \in Msg : /\ handler[r] \in {"none", "running", "done"}
                    /\ handler[r] = "none" => fetched[r] = <<>>
                    /\ handler[r] # "none" => r \in DOMAIN kind
                    /\ handler[r] = "done" => Len(fetched[r]) = Uses(r)

(* A device is never switched, and never set, to what was asked before: the *)
(* pointer to the one buffer (session.cpp:151) and its many readers let a   *)
(* handler operate with a later request, one of any device, or with bytes   *)
(* of the answer to a later registration (session.cpp:65, 67).  The value   *)
(* of a BINARY or a NUMBER is the first byte it takes; of a text this holds *)
(* of all bytes but the last, which nobody sent (Written).                  *)
NeverOlder == \A r \in Msg : fetched[r] # <<>> => fetched[r][1] >= Payload(r)

(* A request whose header was read is executed, however soon the connection *)
(* is lost after its payload was read: the thread is detached               *)
(* (session.cpp:152), and only the end of the process stops it.  Without    *)
(* its payload it is dropped, and the connection given up                   *)
(* (session.cpp:136-148).                                                   *)
Executed ==
  \A r \in Msg :
    /\ (receiver.at \in {"filling", "cut"} /\ receiver.msg = r)
         ~> \/ receiver.at = "spawning" /\ receiver.msg = r
            \/ connection = "down" \/ ~alive
    /\ (receiver.at = "spawning" /\ receiver.msg = r) ~> handler[r] = "done" \/ ~alive
=============================================================================
