------------------------------- MODULE Framing -------------------------------
(****************************************************************************)
(* The messages (SDCP) of one connection as bytes: a sender writes each     *)
(* field with a write() of its own, and the receiver, who has the lengths   *)
(* of fields only, reads as many bytes at a time as it expects, or as many  *)
(* as have come.  The link is one of the four the system has: client to     *)
(* server, server to client, server to Python, Python to server.            *)
(*                                                                          *)
(* A byte is known by its message and its position in it.  Once the bytes   *)
(* of a read() are not those of the field it is for, the receiver is lost   *)
(* and the model stops.  The connection is that of one session: what two    *)
(* sessions of one descriptor number do to each other is SessionServer's    *)
(* matter.                                                                  *)
(****************************************************************************)
EXTENDS Naturals, Sequences, FiniteSetsExt

CONSTANTS Sender,       \* threads of the sending process
          MainThread,   \* the one that sends the first message of a connection
          Depth,        \* depths of the addresses of devices
          Payload,      \* lengths of payloads, without 0
          MaxMessages,  \* bound: messages sent
          MaxUnlocked   \* the same on the link without a lock

ASSUME SenderAssumption == MainThread \in Sender
ASSUME LengthAssumption == Depth \cup Payload \subseteq Nat \ {0}

Links == {"client_server", "server_client", "server_python", "python_server"}

VARIABLES link,     \* the connection this is
          sent,     \* the messages, in the order of their first bytes
          sending,  \* the message each thread is in, and how far
          overlap,  \* a message was begun while another was under way
          gone,     \* the sending process has ended
          stream,   \* the bytes written and not yet read
          reader,   \* what the receiver reads next
          handled   \* the messages handled, and how many of their bytes were read

vars == <<link, sent, sending, overlap, gone, stream, reader, handled>>

Idle == [msg |-> 0, piece |-> 0, offset |-> 0]

Init == /\ link \in Links
        /\ sent = <<>>
        /\ sending = [s \in Sender |-> Idle]
        /\ overlap = FALSE
        /\ gone = FALSE
        /\ stream = <<>>
        /\ reader = [at |-> "reading", msg |-> 1, read |-> 1, offset |-> 0]
        /\ handled = <<>>

-----------------------------------------------------------------------------
(* Messages: the depth of the address, the length announced, the length of  *)
(* the payload, and whether PAYLOAD_LENGTH is left out.                     *)

Message(d, n) == [depth |-> d, length |-> n, payload |-> n, cut |-> FALSE]

(* REGISTER_CLIENT, the first message of a client. *)
RegisterClient == {Message(0, 0)}

(* REGISTER_DEVICE and SENSOR_DATA have a payload, PONG has none. *)
ClientMessages == {Message(d, n) : d \in Depth, n \in Payload \cup {0}}

(* REGISTER_DONE; or REGISTER_FAILED with its REASON_CODE, after which the  *)
(* server sends nothing.                                                    *)
Refusal == Message(0, 1)
RegisterAnswers == {Message(0, 0), Refusal}

(* Every other message of the server is about a device; to Python, one that *)
(* has no payload is a PONG.                                                *)
ServerMessages == {Message(d, n) : d \in Depth, n \in Payload \cup {0}}

(* ipc.py get_all_device_info *)
ListRequest == {Message(0, 0)}

(* ipc.py set_actuator_operation: a text is announced one byte longer than  *)
(* it is sent; PAYLOAD_LENGTH and the payload are left out when the device  *)
(* is no actuator, and when int(val).to_bytes() raises on the value.        *)
ActuatorOperations ==
  {Message(d, n) : d \in Depth, n \in Payload}
    \cup {[Message(d, n) EXCEPT !.length = n + 1] : d \in Depth, n \in Payload}
    \cup {[Message(d, 0) EXCEPT !.cut = TRUE] : d \in Depth}

(* The main thread answers a client; once the session is listed, which is   *)
(* before it is answered, the IPC thread may write an operation to it.      *)
Answered == \E k \in DOMAIN sent : sent[k].depth = 0

ToClient(s) == IF Answered THEN IF sent[1] = Refusal THEN {} ELSE ServerMessages
               ELSE IF s # MainThread THEN ServerMessages
               ELSE IF sent = <<>> THEN RegisterAnswers ELSE RegisterAnswers \ {Refusal}

(* What may be sent next on the link, and by whom. *)
NextMessages(s) ==
  CASE link = "client_server" ->
         IF s # MainThread THEN {}
         ELSE IF sent = <<>> THEN RegisterClient ELSE ClientMessages
    [] link = "server_client" -> ToClient(s)
    [] link = "server_python" -> ServerMessages
    [] link = "python_server" -> ListRequest \cup ActuatorOperations

(* Mutant: the payload is written one byte too long. *)
LongPieces(m) == <<2, 4, 2, 1>> \o [k \in 1..m.depth |-> 2] \o <<2, 2, m.payload + 1>>

(* The pieces send() writes: MSG_TYPE, TIMESTAMP, CLIENT_ID, ADDR_DEPTH,    *)
(* the tokens of the address, DEVICE_ID, PAYLOAD_LENGTH, the payload.       *)
Pieces(m) == <<2, 4, 2, 1>> \o [k \in 1..m.depth |-> 2] \o <<2>>
               \o (IF m.cut THEN <<>> ELSE <<2>>)
               \o (IF m.payload = 0 THEN <<>> ELSE <<m.payload>>)
HeaderSize(m) == 2 + 4 + 2 + 1 + 2 * m.depth + 2 + (IF m.cut THEN 0 ELSE 2)
Size(m) == HeaderSize(m) + m.payload

Bytes(n, offset, size) == [k \in 1..size |-> <<n, offset + k>>]

-----------------------------------------------------------------------------
(* The sending threads. *)

Busy(s) == sending[s] # Idle

(* Mutant: send() does not take send_mutex_. *)
AnyTime == TRUE

(* Session::send takes send_mutex_, in the client as in the server, and     *)
(* keeps it to the end of the message; ipc.py has no lock.                  *)
MayBegin == link = "python_server" \/ \A s \in Sender : ~Busy(s)

(* The thread writes piece p of message n, and leaves send() after the last. *)
WritePiece(s, n, m, p, offset) ==
  /\ stream' = stream \o Bytes(n, offset, Pieces(m)[p])
  /\ sending' = [sending EXCEPT ![s] =
       IF p = Len(Pieces(m)) THEN Idle
       ELSE [msg |-> n, piece |-> p + 1, offset |-> offset + Pieces(m)[p]]]

Bound == IF link = "python_server" THEN MaxUnlocked ELSE MaxMessages
Running == ~gone /\ reader.at # "lost"

Begin(s) == /\ Running /\ ~Busy(s) /\ MayBegin /\ Len(sent) < Bound
            /\ \E m \in NextMessages(s) : /\ sent' = Append(sent, m)
                                          /\ WritePiece(s, Len(sent'), m, 1, 0)
            /\ overlap' = (overlap \/ \E t \in Sender : Busy(t))
            /\ UNCHANGED <<link, gone, reader, handled>>

(* Bound: a message begun within another is written to its end first. *)
Newest(s) == \A t \in Sender : sending[t].msg <= sending[s].msg

Continue(s) == /\ Running /\ Busy(s) /\ Newest(s)
               /\ LET w == sending[s]
                  IN WritePiece(s, w.msg, sent[w.msg], w.piece, w.offset)
               /\ UNCHANGED <<link, sent, overlap, gone, reader, handled>>

(* The sending process ends, between any two pieces; a reset may destroy    *)
(* what has not been read.                                                  *)
Die == /\ Running
       /\ gone' = TRUE
       /\ stream' \in {stream, <<>>}
       /\ UNCHANGED <<link, sent, sending, overlap, reader, handled>>

-----------------------------------------------------------------------------
(* The receivers. *)

(* Server receive_init_info: the rest of the header in one read() of 5. *)
InitReads == <<2, 4, 2, 5>>

(* Mutant: the REASON_CODE is read without looking at PAYLOAD_LENGTH. *)
AlwaysReason(m) == <<2, 4, 2, 3, 2, 1>>

(* Client register_init_info: ADDR_DEPTH and DEVICE_ID in one read() of 3,  *)
(* and the REASON_CODE if there is a payload.                               *)
RegisterReads(m) == <<2, 4, 2, 3, 2>> \o (IF m.length = 0 THEN <<>> ELSE <<1>>)

(* receive() of the server's session, of the IPC, and of the client, and    *)
(* ipc.py recv: field by field, after ADDR_DEPTH and PAYLOAD_LENGTH.        *)
ReceiveReads(m) == <<2, 4, 2, 1>> \o [k \in 1..m.depth |-> 2] \o <<2, 2>>
                     \o (IF m.length = 0 THEN <<>> ELSE <<m.length>>)

Reads(n) == CASE n = 1 /\ link = "client_server" -> InitReads
              [] n = 1 /\ link = "server_client" -> RegisterReads(sent[n])
              [] OTHER -> ReceiveReads(sent[n])

(* receive_init_info sleeps for 300 ms first: the client's first message is *)
(* there as a whole, or the client has gone.                                *)
Awake == /\ reader.at = "reading"
         /\ link = "client_server" /\ reader.msg = 1
              => gone \/ (sent # <<>> /\ \A s \in Sender : sending[s].msg # 1)

(* register_init_info expects a message about no device: of any other, its  *)
(* fourth read() takes part of the address for DEVICE_ID.                   *)
Early == link = "server_client" /\ reader.msg = 1 /\ sent # <<>> /\ sent[1].depth # 0

(* read() returns what is there, up to the bytes asked for.  The last read  *)
(* of a message leads to its handler.                                       *)
Read ==
  /\ Awake /\ stream # <<>>
  /\ LET r    == reader
         want == Reads(r.msg)[r.read]
         got  == SubSeq(stream, 1, Min({want, Len(stream)}))
         due  == Min({want, Size(sent[r.msg]) - r.offset})
         done == r.offset + Len(got)
         last == r.read = Len(Reads(r.msg))
     IN /\ stream' = SubSeq(stream, Len(got) + 1, Len(stream))
        /\ IF got # Bytes(r.msg, r.offset, due) \/ (Early /\ r.read = 4)
           THEN reader' = [r EXCEPT !.at = "lost"] /\ UNCHANGED handled
           ELSE IF last
           THEN /\ handled' = Append(handled, [msg |-> r.msg, bytes |-> done])
                /\ reader' = [r EXCEPT !.msg = @ + 1, !.read = 1, !.offset = 0]
           ELSE /\ reader' = [r EXCEPT !.read = @ + 1, !.offset = done]
                /\ UNCHANGED handled
  /\ UNCHANGED <<link, sent, sending, overlap, gone>>

AtEnd == Awake /\ gone /\ stream = <<>>
Handle == handled' = Append(handled, [msg |-> reader.msg, bytes |-> reader.offset])
Stop(st) == reader' = [reader EXCEPT !.at = st]

(* Mutant: only the first read() of a message is checked. *)
EndUnchecked ==
  /\ link # "server_python" /\ AtEnd
  /\ Stop("closed")
  /\ IF reader.read > 1 THEN Handle ELSE UNCHANGED handled
  /\ UNCHANGED <<link, sent, sending, overlap, gone, stream>>

(* The C++ receivers check the first and the last read() of a message; all  *)
(* reads after the end return 0 or -1, the last one too.                    *)
End == /\ link # "server_python" /\ AtEnd
       /\ Stop("closed")
       /\ UNCHANGED <<link, sent, sending, overlap, gone, stream, handled>>

(* ipc.py recv checks nothing: csock.recv() returns b"" for ever, read as   *)
(* 0.  A PONG is handled once its type was read.  Of other messages, a      *)
(* payload that is missing altogether is None and ends the thread           *)
(* (TypeError); one that was announced is b"" and is used.                  *)
PythonEnd ==
  /\ link = "server_python" /\ AtEnd
  /\ IF reader.read = 1
     THEN UNCHANGED handled /\ Stop("spinning")
     ELSE IF sent[reader.msg].payload = 0 \/ reader.read = Len(Reads(reader.msg))
     THEN Handle /\ Stop("spinning")
     ELSE UNCHANGED handled /\ Stop("raised")
  /\ UNCHANGED <<link, sent, sending, overlap, gone, stream>>

Receiver == Read \/ End \/ PythonEnd

Next == (\E s \in Sender : Begin(s) \/ Continue(s)) \/ Die \/ Receiver

(* A thread within send() and the receiver go on when they can. *)
Fairness == (\A s \in Sender : WF_vars(Continue(s))) /\ WF_vars(Receiver)

Spec == Init /\ [][Next]_vars
FairSpec == Spec /\ Fairness

-----------------------------------------------------------------------------
(* Properties. *)

(* Every variable has its type; a thread is in a message that was begun,    *)
(* and the receiver is within the message it reads.                         *)
TypeOK ==
  /\ link \in Links
  /\ sent \in Seq([depth : Depth \cup {0}, length : Nat, payload : Nat, cut : BOOLEAN])
  /\ \A s \in Sender : Busy(s) => /\ sending[s].msg \in DOMAIN sent
                                  /\ sending[s].piece \in 2..Len(Pieces(sent[sending[s].msg]))
  /\ overlap \in BOOLEAN /\ gone \in BOOLEAN
  /\ \A k \in DOMAIN stream : /\ stream[k][1] \in DOMAIN sent
                              /\ stream[k][2] \in 1..Size(sent[stream[k][1]])
  /\ reader.at \in {"reading", "lost", "closed", "spinning", "raised"}
  /\ reader.msg \in 1..Len(sent) + 1
  /\ reader.read > 1 => /\ reader.read \in DOMAIN Reads(reader.msg)
                        /\ reader.offset \in 1..Size(sent[reader.msg])
  /\ handled \in Seq([msg : Nat, bytes : Nat])

(* The ways to lose a receiver: an operation reaches the client before the  *)
(* answer to its registration (Early), or the client reads the answer       *)
(* before the server has written both ADDR_DEPTH and DEVICE_ID; the client  *)
(* dies within its first message; threads of Python send at once, or Python *)
(* announces more, or less, than it sends.                                  *)
Hasty == /\ reader.msg = 1 /\ reader.read = 4
         /\ link = "server_client" \/ (link = "client_server" /\ gone)
Uneven(m) == m.cut \/ m.length # m.payload
Muddled == /\ link = "python_server"
           /\ overlap \/ \E k \in DOMAIN sent : Uneven(sent[k])

(* Otherwise every read() of every receiver gets its field, whole and of    *)
(* one message, however the writes of threads and the reads interleave and  *)
(* though every read() may return less than it asks for: send_mutex_        *)
(* (session.cpp:180) keeps the pieces of a message together.                *)
InStep == reader.at = "lost" => Early \/ Hasty \/ Muddled

(* No C++ receiver that is in step handles a message of which a piece is    *)
(* missing, wherever the sender dies and although the reads in the middle   *)
(* are not checked (session.cpp:114, 155).  Python handles any beginning of *)
(* a PONG (ipc.py:196-213, 248), and of a message with a payload only the   *)
(* whole, or all but the payload.                                           *)
NothingTorn ==
  \A k \in DOMAIN handled :
    LET m == sent[handled[k].msg]
    IN \/ handled[k].bytes = Size(m)
       \/ link = "server_python" /\ (m.payload = 0 \/ handled[k].bytes = HeaderSize(m))

(* Whatever is begun is handled, in order and exactly once, unless the      *)
(* sender ends or the receiver gets lost, or waits for the rest of what     *)
(* Python announced.                                                        *)
InOrder == \A k \in DOMAIN handled : handled[k].msg = k
Delivered ==
  \A n \in 1..MaxMessages :
    n \in DOMAIN sent
      ~> (InOrder /\ n \in DOMAIN handled) \/ gone \/ reader.at = "lost" \/ Muddled
=============================================================================
