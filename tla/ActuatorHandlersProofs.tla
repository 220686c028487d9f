------------------------ MODULE ActuatorHandlersProofs ------------------------
(****************************************************************************)
(* Theorems about ActuatorHandlers, for any number of messages and losses.  *)
(****************************************************************************)
EXTENDS ActuatorHandlers, SequenceTheorems, TLAPS

ReceiverAt == {"reading", "filling", "cut", "spawning", "registering"}

Shapes ==
  /\ inbox \in Seq(Nat)
  /\ receiver \in [at : ReceiverAt, msg : 0..MaxMessages, cell : Cell]
  /\ handler \in [Msg -> {"none", "running", "done"}]
  /\ fetched \in [Msg -> Seq(Nat)]

(* Messages are taken in the order they were sent: those that have a        *)
(* handler, then the one being read, then those on their way.               *)
Started(r) == handler[r] # "none"
Busy == receiver.at \in {"filling", "spawning"}
InOrder ==
  /\ \A i, j \in DOMAIN inbox : i < j => inbox[i] < inbox[j]
  /\ \A r \in Msg, i \in DOMAIN inbox : Started(r) => r < inbox[i]
  /\ Busy => /\ \A i \in DOMAIN inbox : receiver.msg < inbox[i]
             /\ \A r \in Msg : Started(r) => r < receiver.msg

(* Nothing is on its way while nobody reads requests. *)
Quiet == /\ connection = "down" \/ receiver.at = "registering" =>
              inbox = <<>> /\ receiver.at \in {"reading", "registering"}
         /\ receiver.at = "cut" => inbox = <<>>

(* The first byte of the buffer is nothing later than what was read, and    *)
(* for a request that has a handler nothing earlier.                        *)
BufferOK ==
  /\ \A i \in DOMAIN inbox : buffer[1] < Payload(inbox[i])
  /\ Busy => buffer[1] <= Payload(receiver.msg)
  /\ receiver.at = "filling" /\ receiver.cell # 1 => buffer[1] = Payload(receiver.msg)
  /\ receiver.at = "spawning" /\ Sends(receiver.msg) # 0 =>
       buffer[1] = Payload(receiver.msg)
  /\ \A r \in Msg : Started(r) /\ Sends(r) # 0 => buffer[1] >= Payload(r)

IInv == TypeOK /\ Shapes /\ InOrder /\ Quiet /\ BufferOK /\ NeverOlder

-----------------------------------------------------------------------------

(* A handler uses no more bytes than its message has. *)
LEMMA Amounts ==
  ASSUME TypeOK, NEW r \in DOMAIN kind
  PROVE  Sends(r) \in 0..2 /\ Uses(r) \in 0..Sends(r)
<1>1. kind[r] \in Kinds
  BY ElementOfSeq, LenProperties DEF TypeOK
<1> QED BY <1>1 DEF Kinds, Sends, Uses

(* The first message on its way, when it is taken. *)
LEMMA TakeFirst ==
  ASSUME IInv, inbox # <<>>, inbox' = Tail(inbox)
  PROVE  /\ Head(inbox) = inbox[1] /\ 1 \in DOMAIN inbox /\ Head(inbox) \in DOMAIN kind
         /\ inbox' \in Seq(Nat)
         /\ \A i \in DOMAIN inbox' : i + 1 \in DOMAIN inbox /\ inbox'[i] = inbox[i+1]
                                     /\ i \in Nat /\ 1 < i + 1
<1>1. /\ inbox \in Seq(Nat) /\ Len(inbox) \in Nat /\ Len(inbox) >= 1
      /\ DOMAIN inbox = 1..Len(inbox) /\ Head(inbox) = inbox[1]
      /\ inbox' \in Seq(Nat) /\ Len(inbox') = Len(inbox) - 1
      /\ DOMAIN inbox' = 1..Len(inbox')
      /\ \A k \in 1..Len(inbox)-1 : inbox'[k] = inbox[k+1]
  BY HeadTailProperties, EmptySeq, LenProperties DEF IInv, Shapes
<1> QED BY <1>1 DEF IInv, TypeOK

(* What is known of the messages the server has sent. *)
LEMMA KindFacts ==
  ASSUME TypeOK
  PROVE  /\ Len(kind) \in 0..MaxMessages /\ DOMAIN kind = 1..Len(kind)
         /\ DOMAIN kind \subseteq Msg /\ DOMAIN kind \subseteq Nat \ {0}
         /\ MaxMessages \in Nat
BY LenProperties, BoundAssumption DEF TypeOK, Msg

(* Send keeps IInv: the new message is the last. *)
LEMMA SendIInv == ASSUME IInv, Send PROVE IInv'
<1> USE DEF IInv
<1>1. PICK t \in Kinds : kind' = Append(kind, t)
  BY DEF Send
<1>2. /\ kind' \in Seq(Kinds) /\ Len(kind') = Len(kind) + 1 /\ Len(kind) < MaxMessages
      /\ DOMAIN kind' = 1..Len(kind') /\ \A r \in DOMAIN kind : kind'[r] = kind[r]
      /\ Len(kind) \in Nat /\ DOMAIN kind = 1..Len(kind) /\ Len(kind') \in Msg
  BY <1>1, AppendProperties, KindFacts, LenProperties DEF Send, TypeOK, Msg
<1>3. /\ inbox' \in Seq(Nat) /\ Len(inbox) \in Nat
      /\ DOMAIN inbox' = 1..Len(inbox)+1 /\ DOMAIN inbox = 1..Len(inbox)
      /\ \A i \in DOMAIN inbox : inbox'[i] = inbox[i] /\ inbox[i] \in DOMAIN kind
      /\ inbox'[Len(inbox)+1] = Len(kind')
  <2>1. inbox \in Seq(Nat) /\ Len(kind') \in Nat /\ inbox' = Append(inbox, Len(kind'))
    BY <1>2 DEF Send, Shapes
  <2>2. Len(inbox) \in Nat /\ DOMAIN inbox = 1..Len(inbox)
    BY <2>1, LenProperties
  <2>3. \A i \in DOMAIN inbox : inbox[i] \in DOMAIN kind
    BY DEF TypeOK
  <2>4. /\ inbox' \in Seq(Nat) /\ Len(inbox') = Len(inbox) + 1
        /\ \A i \in 1..Len(inbox) : inbox'[i] = inbox[i]
        /\ inbox'[Len(inbox)+1] = Len(kind')
    BY <2>1, AppendProperties
  <2>5. DOMAIN inbox' = 1..Len(inbox')
    BY <2>4, LenProperties
  <2> QED BY <2>2, <2>3, <2>4, <2>5
<1>4. \A r \in DOMAIN kind : Sends(r)' = Sends(r) /\ Uses(r)' = Uses(r)
  BY <1>2 DEF Sends, Uses
<1>5. \A r \in Msg : Started(r) => r \in DOMAIN kind
  BY DEF Started, TypeOK
<1>6. TypeOK'
  <2>1. \A k \in DOMAIN inbox' : inbox'[k] \in DOMAIN kind'
    BY <1>2, <1>3
  <2>2. buffer' \in [Cell -> 0..Answer(Len(kind'))]
    BY <1>2 DEF Send, TypeOK, Answer
  <2>3. receiver.at = "filling" => receiver.cell \in 1..Sends(receiver.msg)'
    BY <1>4 DEF Send, TypeOK
  <2>4. \A r \in Msg : handler[r] = "done" => Len(fetched[r]) = Uses(r)'
    BY <1>4 DEF TypeOK
  <2>5. \A r \in Msg : handler'[r] # "none" => r \in DOMAIN kind'
    BY <1>2, <1>5 DEF Send, Started
  <2>6. receiver.at \in {"filling", "spawning"} => receiver.msg \in DOMAIN kind'
    BY <1>2 DEF TypeOK
  <2>7. Len(kind') <= MaxMessages
    BY <1>2, KindFacts
  <2> QED BY <1>2, <2>1, <2>2, <2>3, <2>4, <2>5, <2>6, <2>7 DEF Send, TypeOK
<1>7. Shapes'
  BY <1>3 DEF Send, Shapes
<1>8. InOrder'
  <2>1. \A i \in DOMAIN inbox' : inbox'[i] \in DOMAIN kind \/ inbox'[i] = Len(kind) + 1
    BY <1>2, <1>3
  <2>2. \A i, j \in DOMAIN inbox' : i < j => inbox'[i] < inbox'[j]
    BY <1>2, <1>3 DEF InOrder
  <2>3. \A r \in Msg, i \in DOMAIN inbox' : Started(r) => r < inbox'[i]
    BY <1>2, <1>3, <1>5 DEF InOrder
  <2>4. Busy => \A i \in DOMAIN inbox' : receiver.msg < inbox'[i]
    BY <1>2, <1>3 DEF InOrder, TypeOK, Busy
  <2> QED BY <2>2, <2>3, <2>4 DEF Send, InOrder, Busy, Started
<1>9. Quiet'
  BY DEF Send, Quiet, TypeOK
<1>10. BufferOK'
  <2>1. \A i \in DOMAIN inbox' : buffer[1] < Payload(inbox'[i])
    <3>1. buffer[1] \in Nat /\ buffer[1] <= 2 * Len(kind) + 1
      BY <1>2 DEF TypeOK, Answer, Cell
    <3>2. buffer[1] < 2 * (Len(kind) + 1)
      BY <1>2, <3>1
    <3>3. inbox'[Len(inbox)+1] = Len(kind) + 1
      BY <1>2, <1>3
    <3> SUFFICES ASSUME NEW i \in DOMAIN inbox'
                 PROVE  buffer[1] < Payload(inbox'[i])
      OBVIOUS
    <3>4. CASE i \in DOMAIN inbox
      BY <1>3, <3>4 DEF BufferOK
    <3>5. CASE i = Len(inbox) + 1
      BY <3>2, <3>3, <3>5 DEF Payload
    <3> QED BY <1>3, <3>4, <3>5
  <2>2. receiver.at = "spawning" /\ Sends(receiver.msg)' # 0 =>
          buffer[1] = Payload(receiver.msg)
    BY <1>4 DEF Send, BufferOK, TypeOK
  <2>3. \A r \in Msg : Started(r) /\ Sends(r)' # 0 => buffer[1] >= Payload(r)
    BY <1>4, <1>5 DEF BufferOK
  <2> QED BY <2>1, <2>2, <2>3 DEF Send, BufferOK, Busy, Started
<1>11. NeverOlder'
  BY DEF Send, NeverOlder
<1> QED BY <1>6, <1>7, <1>8, <1>9, <1>10, <1>11

(* Lose keeps IInv: what was on its way is still, or is gone. *)
LEMMA LoseIInv == ASSUME IInv, Lose PROVE IInv'
<1> USE DEF IInv
<1>1. inbox' = inbox \/ (inbox' = <<>> /\ inbox' \in Seq(Nat) /\ DOMAIN inbox' = {})
  <2>1. inbox' = inbox \/ inbox' = <<>>
    BY DEF Lose
  <2>2. <<>> \in Seq(Nat) /\ DOMAIN <<>> = {}
    OBVIOUS
  <2> QED BY <2>1, <2>2
<1>2. \A r : Sends(r)' = Sends(r) /\ Uses(r)' = Uses(r)
  BY DEF Lose, Sends, Uses
<1>3. \/ receiver' = receiver
      \/ /\ receiver.at = "filling" /\ receiver'.at = "cut" /\ inbox' = <<>>
         /\ receiver' = [receiver EXCEPT !.at = "cut"]
  BY DEF Lose, Shapes
<1>4. receiver' \in [at : ReceiverAt, msg : 0..MaxMessages, cell : Cell]
  BY <1>3 DEF Shapes, ReceiverAt
<1>5. TypeOK'
  BY <1>1, <1>2, <1>3, BoundAssumption DEF Lose, TypeOK
<1>6. Shapes'
  BY <1>1, <1>4 DEF Lose, Shapes
<1>7. InOrder'
  BY <1>1, <1>3 DEF Lose, InOrder, Busy, Started
<1>8. Quiet'
  BY <1>1, <1>3 DEF Lose, Quiet
<1>9. BufferOK'
  BY <1>1, <1>2, <1>3 DEF Lose, BufferOK, Busy, Started
<1>10. NeverOlder'
  BY DEF Lose, NeverOlder
<1> QED BY <1>5, <1>6, <1>7, <1>8, <1>9, <1>10

(* End keeps IInv: a process that has ended keeps nothing up to date. *)
LEMMA EndIInv == ASSUME IInv, End PROVE IInv'
<1> USE DEF IInv
<1>1. \A r : Sends(r)' = Sends(r) /\ Uses(r)' = Uses(r)
  BY DEF End, Sends, Uses
<1> QED BY <1>1 DEF End, TypeOK, Shapes, InOrder, Busy, Started, Quiet, BufferOK, NeverOlder

(* No step but Send changes what the messages are. *)
LEMMA SameKinds ==
  ASSUME UNCHANGED kind
  PROVE  \A r : Sends(r)' = Sends(r) /\ Uses(r)' = Uses(r)
BY DEF Sends, Uses

(* ReadHeader keeps IInv: the message it takes is the earliest.             *)
LEMMA ReadHeaderIInv == ASSUME IInv, ReadHeader PROVE IInv'
<1> DEFINE h == Head(inbox)
<1> USE DEF IInv
<1>1. /\ h = inbox[1] /\ 1 \in DOMAIN inbox /\ h \in DOMAIN kind
      /\ inbox' \in Seq(Nat)
      /\ \A i \in DOMAIN inbox' : i + 1 \in DOMAIN inbox /\ inbox'[i] = inbox[i+1]
                                  /\ i \in Nat /\ 1 < i + 1
  BY TakeFirst DEF ReadHeader
<1>2. \A r : Sends(r)' = Sends(r) /\ Uses(r)' = Uses(r)
  BY SameKinds DEF ReadHeader
<1>3. h \in Nat /\ h \in 0..MaxMessages /\ Sends(h) \in 0..2
  BY <1>1, KindFacts, Amounts
<1>4. /\ receiver' = [at |-> receiver'.at, msg |-> h, cell |-> 1]
      /\ receiver'.at \in {"filling", "spawning"}
      /\ receiver'.at = "filling" <=> Sends(h) > 0
      /\ receiver'.msg = h /\ receiver'.cell = 1
  BY DEF ReadHeader, AfterHeader
<1>5. TypeOK'
  <2>1. \A k \in DOMAIN inbox' : inbox'[k] \in DOMAIN kind
    BY <1>1 DEF TypeOK
  <2>2. receiver'.at = "filling" => receiver'.cell \in 1..Sends(receiver'.msg)
    BY <1>3, <1>4
  <2> QED BY <1>1, <1>2, <1>4, <2>1, <2>2 DEF ReadHeader, TypeOK
<1>6. Shapes'
  BY <1>1, <1>3, <1>4 DEF ReadHeader, Shapes, ReceiverAt, Cell
<1>7. InOrder'
  <2>1. \A i, j \in DOMAIN inbox' : i < j => inbox'[i] < inbox'[j]
    BY <1>1 DEF InOrder
  <2>2. \A i \in DOMAIN inbox' : h < inbox'[i]
    BY <1>1 DEF InOrder
  <2>3. \A r \in Msg : Started(r) => r < h
    BY <1>1 DEF InOrder
  <2>4. \A r \in Msg, i \in DOMAIN inbox' : Started(r) => r < inbox'[i]
    BY <1>1 DEF InOrder
  <2> QED BY <1>4, <2>1, <2>2, <2>3, <2>4 DEF ReadHeader, InOrder, Started
<1>8. Quiet'
  BY <1>4 DEF ReadHeader, Quiet
<1>9. BufferOK'
  <2>1. \A i \in DOMAIN inbox' : buffer[1] < Payload(inbox'[i])
    BY <1>1 DEF BufferOK
  <2>2. buffer[1] <= Payload(h)
    <3>1. buffer[1] < Payload(h) /\ buffer[1] \in Nat
      BY <1>1, KindFacts DEF BufferOK, TypeOK, Answer, Cell
    <3> QED BY <1>3, <3>1 DEF Payload
  <2>3. receiver'.at = "spawning" => Sends(h) = 0
    BY <1>3, <1>4
  <2>4. receiver'.at = "filling" => receiver'.cell = 1
    BY <1>4
  <2> QED BY <1>2, <1>4, <2>1, <2>2, <2>3, <2>4 DEF ReadHeader, BufferOK, Started
<1>10. NeverOlder'
  BY DEF ReadHeader, NeverOlder
<1> QED BY <1>5, <1>6, <1>7, <1>8, <1>9, <1>10

(* Fill keeps IInv: it writes over what an earlier message or an answer     *)
(* left, never over a later one.                                            *)
LEMMA FillIInv == ASSUME IInv, Fill PROVE IInv'
<1> DEFINE h == receiver.msg
           c == receiver.cell
<1> USE DEF IInv
<1>1. \A r : Sends(r)' = Sends(r) /\ Uses(r)' = Uses(r)
  BY SameKinds DEF Fill
<1>2. /\ h \in DOMAIN kind /\ h \in Nat /\ h >= 1 /\ h <= Len(kind)
      /\ Sends(h) \in 0..2 /\ c \in 1..Sends(h) /\ c \in Cell
      /\ receiver \in [at : ReceiverAt, msg : 0..MaxMessages, cell : Cell]
  BY KindFacts, Amounts DEF Fill, TypeOK, Shapes, Cell
<1>3. /\ buffer' = [buffer EXCEPT ![c] = Written(h, c)]
      /\ buffer \in [Cell -> 0..Answer(Len(kind))]
      /\ buffer[1] \in Nat /\ buffer[1] <= Payload(h)
  BY KindFacts DEF Fill, BufferOK, Busy, TypeOK, Answer, Cell
<1>4. /\ Payload(h) \in 0..Answer(Len(kind)) /\ Payload(h) \in Nat
      /\ 0 \in 0..Answer(Len(kind))
      /\ \A r \in Nat : r < h => Payload(r) < Payload(h)
      /\ \A r \in Nat : h < r => Payload(h) < Payload(r)
  BY <1>2, KindFacts DEF Payload, Answer
<1>5. /\ receiver'.msg = h /\ receiver' \in [at : ReceiverAt, msg : 0..MaxMessages, cell : Cell]
      /\ receiver'.at \in {"filling", "spawning"}
      /\ receiver'.at = "spawning" <=> c = Sends(h)
      /\ receiver'.at = "filling" => receiver'.cell = c + 1 /\ c + 1 \in 1..Sends(h)
  <2>1. CASE c = Sends(h)
    <3>1. receiver' = [receiver EXCEPT !.at = "spawning", !.cell = 1]
      BY <2>1 DEF Fill
    <3>2. receiver' = [at |-> "spawning", msg |-> h, cell |-> 1]
      BY <1>2, <3>1
    <3>3. h \in 0..MaxMessages /\ "spawning" \in ReceiverAt /\ 1 \in Cell
      BY <1>2 DEF ReceiverAt, Cell
    <3> QED BY <2>1, <3>2, <3>3
  <2>2. CASE c # Sends(h)
    <3>1. receiver' = [receiver EXCEPT !.cell = @ + 1] /\ c + 1 \in Cell /\ c + 1 \in 1..Sends(h)
      BY <1>2, <2>2 DEF Fill, Cell
    <3> QED BY <1>2, <2>2, <3>1 DEF Fill
  <2> QED BY <2>1, <2>2
<1>6. buffer'[1] >= buffer[1] /\ buffer'[1] = Payload(h)
  <2>1. CASE c = 1
    BY <1>3, <1>4, <2>1 DEF Written, Cell
  <2>2. CASE c # 1
    BY <1>2, <1>3, <1>4, <2>2 DEF Fill, BufferOK, Cell
  <2> QED BY <2>1, <2>2
<1>7. TypeOK'
  <2>1. buffer' \in [Cell -> 0..Answer(Len(kind))]
    BY <1>3, <1>4 DEF Written, Stale
  <2> QED BY <1>1, <1>2, <1>5, <2>1 DEF Fill, TypeOK
<1>8. Shapes' /\ InOrder' /\ Quiet'
  BY <1>5 DEF Fill, Shapes, InOrder, Busy, Started, Quiet
<1>9. BufferOK'
  <2>1. \A i \in DOMAIN inbox : buffer'[1] < Payload(inbox[i])
    <3>1. \A i \in DOMAIN inbox : inbox[i] \in Nat /\ h < inbox[i]
      BY KindFacts DEF Fill, InOrder, Busy, TypeOK
    <3> QED BY <1>4, <1>6, <3>1
  <2>2. \A r \in Msg : Started(r) /\ Sends(r) # 0 => buffer'[1] >= Payload(r)
    <3> SUFFICES ASSUME NEW r \in Msg, Started(r), Sends(r) # 0
                 PROVE  buffer'[1] >= Payload(r)
      OBVIOUS
    <3>1. r \in Nat /\ r < h
      BY KindFacts DEF Fill, InOrder, Busy, Started, TypeOK
    <3>2. Payload(r) < Payload(h) /\ Payload(r) \in Nat
      BY <1>4, <3>1 DEF Payload
    <3> QED BY <1>4, <1>6, <3>2
  <2>3. buffer'[1] <= Payload(h)
    BY <1>4, <1>6
  <2> QED BY <1>1, <1>5, <1>6, <2>1, <2>2, <2>3 DEF Fill, BufferOK, Started
<1>10. NeverOlder'
  BY DEF Fill, NeverOlder
<1> QED BY <1>7, <1>8, <1>9, <1>10

(* Spawn keeps IInv: the whole payload of the request is in the buffer.     *)
LEMMA SpawnIInv == ASSUME IInv, Spawn PROVE IInv'
<1> DEFINE h == receiver.msg
<1> USE DEF IInv
<1>1. \A r : Sends(r)' = Sends(r) /\ Uses(r)' = Uses(r)
  BY SameKinds DEF Spawn
<1>2. /\ h \in DOMAIN kind /\ h \in Nat /\ h \in Msg /\ Busy
      /\ receiver \in [at : ReceiverAt, msg : 0..MaxMessages, cell : Cell]
  BY KindFacts DEF Spawn, TypeOK, Shapes, Busy
<1>3. ~Started(h)
  BY <1>2 DEF InOrder
<1>4. /\ handler' = [handler EXCEPT ![h] = "running"]
      /\ handler \in [Msg -> {"none", "running", "done"}]
      /\ \A r \in Msg : Started(r)' <=> Started(r) \/ r = h
  BY <1>2 DEF Spawn, Shapes, Started
<1>5. /\ receiver'.at = "reading" /\ receiver' = [receiver EXCEPT !.at = "reading"]
      /\ receiver' \in [at : ReceiverAt, msg : 0..MaxMessages, cell : Cell]
  BY <1>2 DEF Spawn, ReceiverAt
<1>6. TypeOK'
  <2>1. \A r \in Msg : /\ handler'[r] \in {"none", "running", "done"}
                       /\ handler'[r] = "none" => fetched[r] = <<>>
                       /\ handler'[r] # "none" => r \in DOMAIN kind
                       /\ handler'[r] = "done" => Len(fetched[r]) = Uses(r)
    BY <1>2, <1>4 DEF TypeOK
  <2> QED BY <1>1, <1>5, <2>1 DEF Spawn, TypeOK
<1>7. Shapes'
  BY <1>2, <1>4, <1>5 DEF Spawn, Shapes
<1>8. InOrder' /\ Quiet'
  BY <1>2, <1>4, <1>5 DEF Spawn, InOrder, Busy, Quiet
<1>9. BufferOK'
  <2>1. Sends(h) # 0 => buffer[1] >= Payload(h)
    BY <1>2 DEF Spawn, BufferOK, Payload
  <2> QED BY <1>1, <1>4, <1>5, <2>1 DEF Spawn, BufferOK, Busy
<1>10. NeverOlder'
  BY DEF Spawn, NeverOlder
<1> QED BY <1>6, <1>7, <1>8, <1>9, <1>10

(* Notice keeps IInv: nothing is on its way. *)
LEMMA NoticeIInv == ASSUME IInv, Notice PROVE IInv'
<1> USE DEF IInv
<1>1. \A r : Sends(r)' = Sends(r) /\ Uses(r)' = Uses(r)
  BY SameKinds DEF Notice
<1>2. /\ receiver' \in [at : ReceiverAt, msg : 0..MaxMessages, cell : Cell]
      /\ receiver'.at = "reading" /\ inbox = <<>>
  BY DEF Notice, AtEnd, Shapes, ReceiverAt
<1> QED BY <1>1, <1>2 DEF Notice, TypeOK, Shapes, InOrder, Busy, Started, Quiet, BufferOK,
                          NeverOlder

(* Reconnect keeps IInv: nothing is on its way, and none is being read.     *)
LEMMA ReconnectIInv == ASSUME IInv, Reconnect PROVE IInv'
<1> USE DEF IInv
<1>1. \A r : Sends(r)' = Sends(r) /\ Uses(r)' = Uses(r)
  BY SameKinds DEF Reconnect
<1>2. /\ receiver' \in [at : ReceiverAt, msg : 0..MaxMessages, cell : Cell]
      /\ receiver'.at = "registering" /\ receiver'.cell \in Cell
  BY KindFacts DEF Reconnect, ReceiverAt, Cell
<1> QED BY <1>1, <1>2 DEF Reconnect, TypeOK, Shapes, InOrder, Busy, Started, Quiet,
                          BufferOK, NeverOlder

(* ReadTrash keeps IInv: the answer is later than every request, and none   *)
(* is on its way.                                                           *)
LEMMA ReadTrashIInv == ASSUME IInv, ReadTrash PROVE IInv'
<1> USE DEF IInv
<1>1. \A r : Sends(r)' = Sends(r) /\ Uses(r)' = Uses(r)
  BY SameKinds DEF ReadTrash
<1>2. /\ receiver \in [at : ReceiverAt, msg : 0..MaxMessages, cell : Cell]
      /\ receiver.cell \in Cell /\ inbox = <<>> /\ DOMAIN inbox = {}
  BY DEF ReadTrash, TypeOK, Shapes, Quiet
<1>3. /\ receiver' \in [at : ReceiverAt, msg : 0..MaxMessages, cell : Cell]
      /\ receiver'.at \in {"reading", "registering"}
  <2>1. CASE receiver.cell = 2
    <3>1. receiver' = [receiver EXCEPT !.at = "reading", !.cell = 1]
      BY <2>1 DEF ReadTrash
    <3>2. receiver' = [at |-> "reading", msg |-> receiver.msg, cell |-> 1]
      BY <1>2, <3>1
    <3>3. receiver.msg \in 0..MaxMessages /\ "reading" \in ReceiverAt /\ 1 \in Cell
      BY <1>2 DEF ReceiverAt, Cell
    <3> QED BY <3>2, <3>3
  <2>2. CASE receiver.cell # 2
    <3>1. receiver' = [receiver EXCEPT !.cell = @ + 1] /\ receiver.cell + 1 \in Cell
      BY <1>2, <2>2 DEF ReadTrash, Cell
    <3> QED BY <1>2, <3>1 DEF ReadTrash
  <2> QED BY <2>1, <2>2
<1>4. /\ buffer' \in [Cell -> 0..Answer(Len(kind))]
      /\ buffer'[1] >= buffer[1] /\ buffer[1] \in Nat /\ buffer'[1] \in Nat
  <2>1. Answer(Len(kind)) \in Nat
    BY KindFacts DEF Answer
  <2>2. buffer' = buffer \/ buffer' = [buffer EXCEPT ![receiver.cell] = Answer(Len(kind))]
    BY DEF ReadTrash
  <2> QED BY <1>2, <2>1, <2>2 DEF TypeOK, Cell
<1>5. TypeOK'
  BY <1>1, <1>3, <1>4 DEF ReadTrash, TypeOK
<1>6. Shapes' /\ InOrder' /\ Quiet'
  BY <1>2, <1>3 DEF ReadTrash, Shapes, InOrder, Busy, Started, Quiet
<1>7. BufferOK'
  <2>1. \A r \in Msg : Started(r) /\ Sends(r) # 0 => buffer'[1] >= Payload(r)
    <3> SUFFICES ASSUME NEW r \in Msg, Started(r), Sends(r) # 0
                 PROVE  buffer'[1] >= Payload(r)
      OBVIOUS
    <3>1. r \in Nat
      BY DEF Msg
    <3>2. buffer[1] >= Payload(r) /\ Payload(r) \in Nat
      BY <3>1 DEF BufferOK, Payload
    <3> QED BY <1>4, <3>2
  <2> QED BY <1>1, <1>2, <1>3, <2>1 DEF ReadTrash, BufferOK, Busy, Started
<1>8. NeverOlder'
  BY DEF ReadTrash, NeverOlder
<1> QED BY <1>5, <1>6, <1>7, <1>8

(* Fetch keeps IInv: its first byte is one of its request or later.         *)
LEMMA FetchIInv == ASSUME IInv, NEW r \in Msg, Fetch(r) PROVE IInv'
<1> DEFINE n == Len(fetched[r]) + 1
<1> USE DEF IInv
<1>1. \A q : Sends(q)' = Sends(q) /\ Uses(q)' = Uses(q)
  BY SameKinds DEF Fetch
<1>2. /\ r \in DOMAIN kind /\ r \in Nat /\ Started(r) /\ handler[r] = "running"
      /\ fetched[r] \in Seq(Nat) /\ n \in Nat
      /\ n \in 1..Sends(r) /\ n \in Cell
  <2>1. /\ r \in DOMAIN kind /\ r \in Nat /\ Started(r) /\ handler[r] = "running"
        /\ fetched[r] \in Seq(Nat) /\ Len(fetched[r]) \in Nat
    BY KindFacts, LenProperties DEF Fetch, Started, TypeOK, Shapes
  <2>2. Sends(r) \in 0..2 /\ Uses(r) \in 0..Sends(r) /\ Len(fetched[r]) < Uses(r)
    BY <2>1, Amounts DEF Fetch
  <2> QED BY <2>1, <2>2 DEF Cell
<1>3. buffer[n] \in Nat /\ (n = 1 => buffer[n] >= Payload(r))
  BY <1>2, KindFacts DEF TypeOK, BufferOK, Answer
<1>4. /\ fetched' = [fetched EXCEPT ![r] = Append(fetched[r], buffer[n])]
      /\ fetched \in [Msg -> Seq(Nat)]
  BY DEF Fetch, Shapes
<1>5. /\ Append(fetched[r], buffer[n]) \in Seq(Nat)
      /\ IF n = 1 THEN Append(fetched[r], buffer[n])[1] = buffer[1]
                  ELSE fetched[r] # <<>> /\ Append(fetched[r], buffer[n])[1] = fetched[r][1]
  BY <1>2, <1>3, AppendProperties, LenProperties
<1>6. TypeOK'
  BY <1>1, <1>2, <1>4 DEF Fetch, TypeOK
<1>7. Shapes' /\ InOrder' /\ Quiet' /\ BufferOK'
  BY <1>1, <1>4, <1>5 DEF Fetch, Shapes, InOrder, Busy, Started, Quiet, BufferOK
<1>8. NeverOlder'
  BY <1>3, <1>4, <1>5 DEF Fetch, NeverOlder
<1> QED BY <1>6, <1>7, <1>8

(* Operate keeps IInv. *)
LEMMA OperateIInv == ASSUME IInv, NEW r \in Msg, Operate(r) PROVE IInv'
<1> USE DEF IInv
<1>1. \A q : Sends(q)' = Sends(q) /\ Uses(q)' = Uses(q)
  BY SameKinds DEF Operate
<1>2. /\ handler' = [handler EXCEPT ![r] = "done"]
      /\ handler \in [Msg -> {"none", "running", "done"}]
      /\ handler' \in [Msg -> {"none", "running", "done"}]
      /\ \A q \in Msg : Started(q)' <=> Started(q)
  BY DEF Operate, Shapes, Started
<1>3. TypeOK'
  BY <1>1, <1>2 DEF Operate, TypeOK
<1>4. Shapes' /\ InOrder' /\ Quiet'
  BY <1>2 DEF Operate, Shapes, InOrder, Busy, Quiet
<1>5. BufferOK' /\ NeverOlder'
  BY <1>1, <1>2 DEF Operate, BufferOK, Busy, NeverOlder
<1> QED BY <1>3, <1>4, <1>5

(* IInv holds initially and every step keeps it. *)
LEMMA Inductive == Spec => []IInv
<1>1. Init => IInv
  <2> SUFFICES ASSUME Init PROVE IInv
    OBVIOUS
  <2>1. /\ kind \in Seq(Kinds) /\ Len(kind) = 0 /\ inbox \in Seq(Nat) /\ DOMAIN inbox = {}
        /\ \A r \in Msg : fetched[r] = <<>> /\ DOMAIN fetched[r] = {} /\ handler[r] = "none"
    BY DEF Init
  <2>2. TypeOK
    <3>1. buffer \in [Cell -> 0..Answer(Len(kind))]
      BY <2>1 DEF Init, Answer
    <3>2. losses \in 0..MaxLosses /\ Len(kind) <= MaxMessages
      BY <2>1, BoundAssumption DEF Init
    <3> QED BY <2>1, <3>1, <3>2 DEF Init, TypeOK
  <2>3. Shapes
    <3>1. fetched \in [Msg -> Seq(Nat)]
      BY DEF Init
    <3>2. receiver \in [at : ReceiverAt, msg : 0..MaxMessages, cell : Cell]
      BY BoundAssumption DEF Init, ReceiverAt, Cell
    <3> QED BY <2>1, <3>1, <3>2 DEF Init, Shapes
  <2>4. InOrder /\ Quiet /\ BufferOK /\ NeverOlder
    BY <2>1 DEF Init, InOrder, Busy, Started, Quiet, BufferOK, NeverOlder
  <2> QED BY <2>2, <2>3, <2>4 DEF IInv
<1>2. IInv /\ [Next]_vars => IInv'
  <2> SUFFICES ASSUME IInv, [Next]_vars PROVE IInv'
    OBVIOUS
  <2>1. CASE UNCHANGED vars
    <3>1. \A r : Sends(r)' = Sends(r) /\ Uses(r)' = Uses(r)
      BY <2>1, SameKinds DEF vars
    <3> QED BY <2>1, <3>1 DEF vars, IInv, TypeOK, Shapes, InOrder, Busy, Started, Quiet,
                              BufferOK, NeverOlder
  <2>2. CASE Receiver
    BY <2>2, ReadHeaderIInv, FillIInv, SpawnIInv, NoticeIInv, ReconnectIInv, ReadTrashIInv
    DEF Receiver
  <2>3. ASSUME NEW r \in Msg, Handler(r) PROVE IInv'
    BY <2>3, FetchIInv, OperateIInv DEF Handler
  <2> QED BY <2>1, <2>2, <2>3, SendIInv, LoseIInv, EndIInv DEF Next
<1> QED BY <1>1, <1>2, PTL DEF Spec

-----------------------------------------------------------------------------

(* Every variable keeps its type; the receive thread stays within the       *)
(* payload it reads, and a handler takes no more than it needs.             *)
THEOREM TypeCorrect == Spec => []TypeOK
<1>1. IInv => TypeOK
  BY DEF IInv
<1> QED BY <1>1, Inductive, PTL

(* However many handlers share the one receive buffer (session.cpp:151),    *)
(* and however often the client registers again, none switches a device, or *)
(* sets it, to what was asked before its own request.                       *)
THEOREM OperatesWithNothingOlder == Spec => []NeverOlder
<1>1. IInv => NeverOlder
  BY DEF IInv
<1> QED BY <1>1, Inductive, PTL
=============================================================================
