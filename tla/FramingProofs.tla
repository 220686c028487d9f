---------------------------- MODULE FramingProofs ----------------------------
(****************************************************************************)
(* Theorems about Framing, for any threads, depths of addresses, lengths of *)
(* payloads and numbers of messages, on all four links.                     *)
(****************************************************************************)
EXTENDS Framing, SequenceTheorems, WellFoundedInduction, TLAPS

(* Field i is F(i) bytes long, and begins at Start(i), but for the payload, *)
(* which ends a message.                                                    *)
F(i) == IF i = 2 THEN 4 ELSE IF i = 4 THEN 1 ELSE 2
Start(i) == IF i = 1 THEN 0 ELSE IF i = 2 THEN 2 ELSE IF i = 3 THEN 6
            ELSE IF i = 4 THEN 8 ELSE 2 * i - 1

(* The fields before the payload. *)
Fixed(m) == 5 + m.depth + (IF m.cut THEN 0 ELSE 1)

Msg == [depth : Depth \cup {0}, length : Nat, payload : Nat, cut : BOOLEAN]

(* A message that is not cut is announced as long as it is, or longer.      *)
MsgOK(m) == IF m.cut THEN m.payload = 0 /\ m.length = 0
            ELSE m.length >= m.payload /\ (m.payload = 0 => m.length = 0)

(* Message n of link l: only Python's may be uneven, the first of a client  *)
(* has no address, and of those to a client the first that has none is the  *)
(* answer to it.                                                            *)
GoodMsg(l, n, m) ==
  /\ m \in Msg /\ MsgOK(m)
  /\ l # "python_server" => ~Uneven(m)
  /\ n = 1 /\ l = "client_server" => m = Message(0, 0)
  /\ n = 1 /\ l = "server_client" /\ m.depth = 0 => m.payload \in {0, 1}

SentOK == /\ link \in Links
          /\ sent \in Seq(Msg)
          /\ \A n \in DOMAIN sent : GoodMsg(link, n, sent[n])

(* Where each thread is in its message, of which it is the only writer. *)
SendingOK ==
  /\ sending \in [Sender -> [msg : Nat, piece : Nat, offset : Nat]]
  /\ \A s \in Sender : Busy(s) =>
       /\ sending[s].msg \in DOMAIN sent
       /\ sending[s].piece \in 2..Len(Pieces(sent[sending[s].msg]))
       /\ sending[s].offset = Start(sending[s].piece)
       /\ \A t \in Sender : Busy(t) /\ sending[t].msg = sending[s].msg => t = s

(* What the receiver reads of message n, and where its reads begin.         *)
ReadsOf(l, n, m) == IF n = 1 /\ l = "client_server" THEN InitReads
                    ELSE IF n = 1 /\ l = "server_client" THEN RegisterReads(m)
                    ELSE ReceiveReads(m)
ReadStart(l, n, i) == IF n = 1 /\ l = "server_client" /\ i > 4 THEN 2 * i + 1 ELSE Start(i)

(* A message about a device where the client expects the answer. *)
OutOfPlace(l, n, m) == n = 1 /\ l = "server_client" /\ m.depth # 0

(* Where the receiver is in its message. *)
ReaderOK ==
  /\ reader \in [at : {"reading", "lost", "closed", "spinning", "raised"},
                 msg : Nat, read : Nat, offset : Nat]
  /\ reader.msg \in 1..Len(sent) + 1
  /\ reader.read \in Nat \ {0}
  /\ reader.read > 1 =>
       /\ reader.msg \in DOMAIN sent
       /\ reader.read <= Len(ReadsOf(link, reader.msg, sent[reader.msg]))
       /\ reader.read > 4 => ~OutOfPlace(link, reader.msg, sent[reader.msg])
  /\ reader.offset = ReadStart(link, reader.msg, reader.read)

(* Byte b comes after the first o bytes of message n. *)
Beyond(b, n, o) == b[1] > n \/ (b[1] = n /\ b[2] > o)

(* The bytes in the stream have been written, each once, and are unread;    *)
(* no thread is behind the receiver.                                        *)
Written == \A k \in DOMAIN stream :
             /\ stream[k][1] \in DOMAIN sent
             /\ stream[k][2] \in 1..Size(sent[stream[k][1]])
             /\ \A s \in Sender : Busy(s) /\ sending[s].msg = stream[k][1]
                                    => stream[k][2] <= sending[s].offset
Once == \A j \in DOMAIN stream : \A k \in DOMAIN stream : stream[j] = stream[k] => j = k
Unread == reader.at = "reading" =>
            \A k \in DOMAIN stream : Beyond(stream[k], reader.msg, reader.offset)
Ahead == reader.at = "reading" =>
           \A s \in Sender : Busy(s) =>
             \/ reader.msg < sending[s].msg
             \/ reader.msg = sending[s].msg /\ reader.offset <= sending[s].offset
StreamOK == stream \in Seq(Nat \X Nat) /\ Written /\ Once /\ Unread /\ Ahead

HandledOK == /\ handled \in Seq([msg : Nat, bytes : Nat])
             /\ \A k \in DOMAIN handled : handled[k].msg \in DOMAIN sent
             /\ NothingTorn

IInv == /\ SentOK /\ SendingOK /\ ReaderOK /\ StreamOK /\ HandledOK
        /\ overlap \in BOOLEAN /\ gone \in BOOLEAN
        /\ overlap => link = "python_server"

(* When no message was begun within another and Python's lengths are right, *)
(* the stream is the messages from where the receiver is to where the       *)
(* sender is: only the newest message can be under way, each byte is        *)
(* followed by the next of its message or the first of the next message,    *)
(* the first is the one the receiver is at, and the last the one written    *)
(* last; if nothing is in the stream, the receiver is where the sender is.  *)
Following(z, b) == IF b[2] < z THEN <<b[1], b[2] + 1>> ELSE <<b[1] + 1, 1>>
AtWriter(n, o) ==
  \/ \E s \in Sender : Busy(s) /\ n = Len(sent) /\ o = sending[s].offset
  \/ (\A s \in Sender : ~Busy(s)) /\ n = Len(sent) /\ n > 0 /\ o = Size(sent[n])

NewestOnly == \A s \in Sender : Busy(s) => sending[s].msg = Len(sent)
Contiguous == \A k \in DOMAIN stream :
                k < Len(stream) => stream[k+1] = Following(Size(sent[stream[k][1]]), stream[k])
FromReader == stream # <<>> => stream[1] = <<reader.msg, reader.offset + 1>>
ToWriter == stream # <<>> => AtWriter(stream[Len(stream)][1], stream[Len(stream)][2])
NoneLeft == stream = <<>> /\ ~gone =>
              IF \A s \in Sender : ~Busy(s) THEN reader.msg = Len(sent) + 1 /\ reader.offset = 0
              ELSE AtWriter(reader.msg, reader.offset)

Clean == ~Muddled /\ reader.at = "reading"
Straight == Clean => NewestOnly /\ Contiguous /\ FromReader /\ ToWriter /\ NoneLeft

-----------------------------------------------------------------------------
(* Fields. *)

(* A sequence of the first n fields. *)
Fields(s, n) == s \in Seq(Nat) /\ Len(s) = n /\ \A i \in 1..n : s[i] = F(i)

(* A set of numbers that is not empty has a least element. *)
LEMMA LeastExists ==
  ASSUME NEW S, S \subseteq Nat, S # {}
  PROVE  \E x \in S : \A y \in S : x <= y
<1> DEFINE Less == {p \in Nat \X Nat : p[1] < p[2]}
<1>1. IsWellFoundedOn(Less, Nat)
  BY NatLessThanWellFounded DEF OpToRel
<1>2. PICK x \in S : \A y \in S : <<y, x>> \notin Less
  <2> HIDE DEF Less
  <2> QED BY <1>1, WFMin
<1>3. \A y \in S : x <= y
  <2> TAKE y \in S
  <2>1. x \in Nat /\ y \in Nat
    OBVIOUS
  <2>2. y < x => <<y, x>> \in Less
    BY <2>1
  <2> QED BY <2>1, <2>2, <1>2
<1> QED BY <1>3

(* The smaller of two numbers. *)
LEMMA MinOfTwo ==
  ASSUME NEW a \in Nat, NEW b \in Nat
  PROVE  Min({a, b}) = IF a <= b THEN a ELSE b
<1>1. CASE a <= b
  <2>1. a \in {a, b} /\ \A y \in {a, b} : a <= y
    BY <1>1
  <2>2. \A x \in {a, b} : (\A y \in {a, b} : x <= y) => x = a
    BY <1>1
  <2> QED BY <1>1, <2>1, <2>2 DEF Min
<1>2. CASE ~ (a <= b)
  <2>1. b \in {a, b} /\ \A y \in {a, b} : b <= y
    BY <1>2
  <2>2. \A x \in {a, b} : (\A y \in {a, b} : x <= y) => x = b
    BY <1>2
  <2> QED BY <1>2, <2>1, <2>2 DEF Min
<1> QED BY <1>1, <1>2

(* The first four fields of every message. *)
LEMMA FieldsBegin == Fields(<<2, 4, 2, 1>>, 4)
BY DEF Fields, F

(* Fields of two bytes follow. *)
LEMMA FieldsGrow ==
  ASSUME NEW n \in Nat, n >= 4, NEW s, Fields(s, n),
         NEW t \in Seq(Nat), \A i \in 1..Len(t) : t[i] = 2
  PROVE  Fields(s \o t, n + Len(t))
<1>1. Len(t) \in Nat
  BY LenProperties
<1>2. /\ s \o t \in Seq(Nat) /\ Len(s \o t) = n + Len(t)
      /\ \A i \in 1..n + Len(t) : (s \o t)[i] = IF i <= n THEN s[i] ELSE t[i - n]
  BY ConcatProperties DEF Fields
<1>3. \A i \in 1..n + Len(t) : IF i <= n THEN s[i] = F(i) ELSE i - n \in 1..Len(t) /\ F(i) = 2
  BY <1>1 DEF Fields, F
<1> QED BY <1>2, <1>3 DEF Fields

(* A message ends with its payload, or without one. *)
Ending(u, n, k) ==
  /\ u \in Seq(Nat) /\ Len(u) = n + (IF k = 0 THEN 0 ELSE 1)
  /\ \A i \in 1..n : u[i] = F(i)
  /\ k # 0 => u[n + 1] = k

LEMMA FieldsEnd ==
  ASSUME NEW n \in Nat, NEW s, Fields(s, n), NEW k \in Nat
  PROVE  Ending(s \o (IF k = 0 THEN <<>> ELSE <<k>>), n, k)
<1>1. CASE k = 0
  <2>1. s \o <<>> = s
    BY ConcatEmptySeq DEF Fields
  <2>2. Ending(s, n, k)
    BY <1>1 DEF Fields, Ending
  <2> QED BY <1>1, <2>1, <2>2
<1>2. CASE k # 0
  <2> DEFINE u == s \o <<k>>
  <2>1. <<k>> \in Seq(Nat) /\ Len(<<k>>) = 1 /\ <<k>>[1] = k
    OBVIOUS
  <2>2. /\ u \in Seq(Nat) /\ Len(u) = n + 1
        /\ \A i \in 1..n + 1 : u[i] = IF i <= n THEN s[i] ELSE <<k>>[i - n]
    BY <2>1, ConcatProperties DEF Fields
  <2>3. n + 1 \in 1..n + 1 /\ ~ (n + 1 <= n) /\ n + 1 - n = 1
    OBVIOUS
  <2>4. \A i \in 1..n : i \in 1..n + 1 /\ i <= n
    OBVIOUS
  <2> HIDE DEF u
  <2>5. Ending(u, n, k)
    BY <1>2, <2>1, <2>2, <2>3, <2>4 DEF Fields, Ending
  <2> QED BY <1>2, <2>5 DEF u
<1> QED BY <1>1, <1>2

(* A function on 1..n is a sequence of length n. *)
LEMMA SeqOfLength ==
  ASSUME NEW n \in Nat, NEW S, NEW f \in [1..n -> S]
  PROVE  f \in Seq(S) /\ Len(f) = n
<1>1. f \in Seq(S)
  BY SeqDef
<1>2. Len(f) \in Nat /\ 1..Len(f) = 1..n
  BY <1>1, LenProperties
<1>3. Len(f) = n
  <2>1. n > 0 => n \in 1..Len(f)
    BY <1>2
  <2>2. Len(f) > 0 => Len(f) \in 1..n
    BY <1>2
  <2> QED BY <1>2, <2>1, <2>2
<1> QED BY <1>1, <1>3

(* The tokens of an address. *)
LEMMA Tokens ==
  ASSUME NEW d \in Nat
  PROVE  LET t == [k \in 1..d |-> 2]
         IN t \in Seq(Nat) /\ Len(t) = d /\ \A i \in 1..Len(t) : t[i] = 2
<1> DEFINE t == [k \in 1..d |-> 2]
<1>1. t \in [1..d -> Nat]
  OBVIOUS
<1>2. t \in Seq(Nat) /\ Len(t) = d
  <2> HIDE DEF t
  <2> QED BY <1>1, SeqOfLength
<1> QED BY <1>2

(* What send() writes: the fields of the message. *)
LEMMA PiecesAre ==
  ASSUME NEW m \in Msg
  PROVE  /\ Fixed(m) \in Nat /\ Fixed(m) >= 5 /\ m.payload \in Nat
         /\ Ending(Pieces(m), Fixed(m), m.payload)
<1> DEFINE t == [k \in 1..m.depth |-> 2]
           a == <<2, 4, 2, 1>> \o t
           b == a \o <<2>>
           c == IF m.cut THEN <<>> ELSE <<2>>
<1>1. m.depth \in Nat /\ m.payload \in Nat /\ m.cut \in BOOLEAN
  BY LengthAssumption DEF Msg
<1>2. Fields(a, 4 + m.depth)
  <2>1. t \in Seq(Nat) /\ Len(t) = m.depth /\ \A i \in 1..Len(t) : t[i] = 2
    BY <1>1, Tokens
  <2> HIDE DEF t
  <2>2. Fields(a, 4 + Len(t))
    BY <2>1, FieldsBegin, FieldsGrow
  <2> QED BY <2>1, <2>2
<1> HIDE DEF a
<1>3. <<2>> \in Seq(Nat) /\ Len(<<2>>) = 1 /\ \A i \in 1..Len(<<2>>) : <<2>>[i] = 2
  OBVIOUS
<1>4. Fields(b, 5 + m.depth)
  <2>1. 4 + m.depth \in Nat /\ 4 + m.depth >= 4
    BY <1>1
  <2>2. Fields(b, 4 + m.depth + Len(<<2>>))
    BY <1>2, <1>3, <2>1, FieldsGrow
  <2>3. 4 + m.depth + Len(<<2>>) = 5 + m.depth
    BY <1>1, <1>3
  <2> QED BY <2>2, <2>3
<1> HIDE DEF b
<1>5. Fields(b \o c, Fixed(m))
  <2>1. c \in Seq(Nat) /\ Len(c) = (IF m.cut THEN 0 ELSE 1) /\ \A i \in 1..Len(c) : c[i] = 2
    BY <1>3
  <2>2. 5 + m.depth \in Nat /\ 5 + m.depth >= 4
    BY <1>1
  <2> HIDE DEF c
  <2>3. Fields(b \o c, 5 + m.depth + Len(c))
    BY <1>4, <2>1, <2>2, FieldsGrow
  <2>4. 5 + m.depth + Len(c) = Fixed(m)
    BY <2>1 DEF Fixed
  <2> QED BY <2>3, <2>4
<1>6. Fixed(m) \in Nat /\ Fixed(m) >= 5
  BY <1>1 DEF Fixed
<1>7. Pieces(m) = (b \o c) \o (IF m.payload = 0 THEN <<>> ELSE <<m.payload>>)
  BY DEF Pieces, a, b
<1> DEFINE w == b \o c
<1> HIDE DEF c
<1>8. Ending(w \o (IF m.payload = 0 THEN <<>> ELSE <<m.payload>>), Fixed(m), m.payload)
  <2> HIDE DEF w
  <2>1. Fields(w, Fixed(m))
    BY <1>5 DEF w
  <2> QED BY <1>1, <1>6, <2>1, FieldsEnd
<1> QED BY <1>1, <1>6, <1>7, <1>8

(* What receive() reads: the fields of a message that is not cut. *)
LEMMA ReceiveReadsAre ==
  ASSUME NEW m \in Msg
  PROVE  Ending(ReceiveReads(m), 6 + m.depth, m.length)
<1> DEFINE t == [k \in 1..m.depth |-> 2]
           a == <<2, 4, 2, 1>> \o t
           b == a \o <<2, 2>>
<1>1. m.depth \in Nat /\ m.length \in Nat
  BY LengthAssumption DEF Msg
<1>2. Fields(a, 4 + m.depth)
  <2>1. t \in Seq(Nat) /\ Len(t) = m.depth /\ \A i \in 1..Len(t) : t[i] = 2
    BY <1>1, Tokens
  <2> HIDE DEF t
  <2>2. Fields(a, 4 + Len(t))
    BY <2>1, FieldsBegin, FieldsGrow
  <2> QED BY <2>1, <2>2
<1> HIDE DEF a
<1>3. <<2, 2>> \in Seq(Nat) /\ Len(<<2, 2>>) = 2 /\ \A i \in 1..Len(<<2, 2>>) : <<2, 2>>[i] = 2
  OBVIOUS
<1>4. Fields(b, 6 + m.depth)
  <2>1. 4 + m.depth \in Nat /\ 4 + m.depth >= 4
    BY <1>1
  <2>2. Fields(b, 4 + m.depth + Len(<<2, 2>>))
    BY <1>2, <1>3, <2>1, FieldsGrow
  <2>3. 4 + m.depth + Len(<<2, 2>>) = 6 + m.depth
    BY <1>1, <1>3
  <2> QED BY <2>2, <2>3
<1> HIDE DEF b
<1>5. ReceiveReads(m) = b \o (IF m.length = 0 THEN <<>> ELSE <<m.length>>)
  BY DEF ReceiveReads, a, b
<1>6. 6 + m.depth \in Nat /\ 6 + m.depth + 1 = 7 + m.depth
  BY <1>1
<1>7. Ending(b \o (IF m.length = 0 THEN <<>> ELSE <<m.length>>), 6 + m.depth, m.length)
  BY <1>1, <1>4, <1>6, FieldsEnd
<1> QED BY <1>5, <1>7

(* What register_init_info reads. *)
LEMMA RegisterReadsAre ==
  ASSUME NEW m \in Msg
  PROVE  LET r == RegisterReads(m)
         IN /\ r \in Seq(Nat) /\ Len(r) = 5 + (IF m.length = 0 THEN 0 ELSE 1)
            /\ r[1] = 2 /\ r[2] = 4 /\ r[3] = 2 /\ r[4] = 3 /\ r[5] = 2
            /\ m.length # 0 => r[6] = 1
<1> DEFINE r == RegisterReads(m)
<1>1. CASE m.length = 0
  <2>1. r = <<2, 4, 2, 3, 2>>
    BY <1>1, ConcatEmptySeq DEF RegisterReads
  <2> QED BY <1>1, <2>1
<1>2. CASE m.length # 0
  <2> DEFINE p == <<2, 4, 2, 3, 2>>
             q == <<1>>
  <2>1. r = p \o q
    BY <1>2 DEF RegisterReads
  <2>2. /\ p \in Seq(Nat) /\ Len(p) = 5
        /\ p[1] = 2 /\ p[2] = 4 /\ p[3] = 2 /\ p[4] = 3 /\ p[5] = 2
        /\ q \in Seq(Nat) /\ Len(q) = 1 /\ q[1] = 1
    OBVIOUS
  <2> HIDE DEF p, q, r
  <2>3. /\ r \in Seq(Nat) /\ Len(r) = Len(p) + Len(q)
        /\ \A i \in 1..Len(p) + Len(q) : r[i] = IF i <= Len(p) THEN p[i] ELSE q[i - Len(p)]
    BY <2>1, <2>2, ConcatProperties
  <2>4. r \in Seq(Nat) /\ Len(r) = 6 /\ \A i \in 1..6 : r[i] = IF i <= 5 THEN p[i] ELSE q[i - 5]
    BY <2>2, <2>3
  <2> QED BY <1>2, <2>2, <2>4 DEF r
<1> QED BY <1>1, <1>2

(* Where the pieces of a message lie. *)
LEMMA PieceBounds ==
  ASSUME NEW m \in Msg
  PROVE  /\ Size(m) \in Nat /\ Size(m) >= 11
         /\ Len(Pieces(m)) \in Nat /\ Len(Pieces(m)) >= 5 /\ Pieces(m)[1] = 2
         /\ \A p \in 1..Len(Pieces(m)) :
              /\ Pieces(m)[p] \in Nat /\ Pieces(m)[p] >= 1
              /\ Start(p) \in Nat
              /\ Start(p) + Pieces(m)[p] =
                   IF p = Len(Pieces(m)) THEN Size(m) ELSE Start(p + 1)
              /\ Start(p) + Pieces(m)[p] <= Size(m)
<1> DEFINE u == Pieces(m)
           f == Fixed(m)
<1>1. m.depth \in Nat /\ m.payload \in Nat /\ m.cut \in BOOLEAN
  BY LengthAssumption DEF Msg
<1>2. f \in Nat /\ f >= 5 /\ Ending(u, f, m.payload)
  BY PiecesAre
<1>3. Size(m) = 2 * f + 1 + m.payload
  BY <1>1 DEF Size, HeaderSize, Fixed
<1> HIDE DEF u, f
<1>4. Len(u) = f + (IF m.payload = 0 THEN 0 ELSE 1) /\ \A i \in 1..f : u[i] = F(i)
  BY <1>2 DEF Ending
<1>5. u[1] = 2
  BY <1>2, <1>4 DEF F
<1>6. Start(f + 1) = 2 * f + 1
  BY <1>2 DEF Start
<1>7. ASSUME NEW p \in 1..Len(u)
      PROVE  /\ u[p] \in Nat /\ u[p] >= 1 /\ Start(p) \in Nat
             /\ Start(p) + u[p] = IF p = Len(u) THEN Size(m) ELSE Start(p + 1)
             /\ Start(p) + u[p] <= Size(m)
  <2>1. p \in Nat /\ p >= 1
    BY <1>1, <1>2, <1>4
  <2>2. Start(p) \in Nat
    BY <2>1 DEF Start
  <2>3. CASE p <= f
    <3>1. u[p] = F(p) /\ F(p) \in Nat /\ F(p) >= 1
      BY <1>4, <2>1, <2>3 DEF F
    <3>2. Start(p) + F(p) = Start(p + 1)
      BY <2>1 DEF Start, F
    <3>3. p = f => Start(p + 1) = 2 * f + 1
      BY <1>6
    <3>4. p < f => Start(p + 1) <= 2 * f + 1
      BY <1>2, <2>1 DEF Start
    <3>5. p = Len(u) => p = f /\ m.payload = 0
      BY <1>1, <1>2, <1>4, <2>3
    <3> QED BY <1>1, <1>2, <1>3, <2>1, <2>2, <2>3, <3>1, <3>2, <3>3, <3>4, <3>5
  <2>4. CASE ~ (p <= f)
    <3>1. m.payload # 0 /\ p = f + 1 /\ p = Len(u)
      BY <1>1, <1>2, <1>4, <2>1, <2>4
    <3>2. u[p] = m.payload
      BY <1>2, <3>1 DEF Ending
    <3> QED BY <1>1, <1>2, <1>3, <1>6, <2>2, <3>1, <3>2
  <2> QED BY <2>3, <2>4
<1>8. Len(u) \in Nat /\ Len(u) >= 5 /\ Size(m) \in Nat /\ Size(m) >= 11
  BY <1>1, <1>2, <1>3, <1>4
<1> QED BY <1>5, <1>7, <1>8 DEF u

(* Where the reads of a message lie: each begins where the one before it    *)
(* ends, and the last ends the message.                                     *)
LEMMA ReadBounds ==
  ASSUME NEW l \in Links, NEW n \in Nat, NEW m, GoodMsg(l, n, m)
  PROVE  LET R == ReadsOf(l, n, m)
         IN /\ R \in Seq(Nat) /\ Len(R) \in Nat /\ Len(R) >= 4
            /\ \A i \in 1..Len(R) :
                 /\ R[i] \in Nat /\ R[i] >= 1
                 /\ ReadStart(l, n, i) \in Nat /\ (i > 1 => ReadStart(l, n, i) >= 1)
                 /\ ReadStart(l, n, i) <= Size(m)
                 /\ i < Len(R) => /\ ReadStart(l, n, i) + R[i] = ReadStart(l, n, i + 1)
                                  /\ ReadStart(l, n, i + 1) <= Size(m)
                 /\ i = Len(R) /\ ~OutOfPlace(l, n, m) => Size(m) <= ReadStart(l, n, i) + R[i]
                 /\ ~Uneven(m) => ReadStart(l, n, i) + R[i] <= Size(m)
<1> DEFINE R == ReadsOf(l, n, m)
<1>1. m \in Msg /\ m.depth \in Nat /\ m.payload \in Nat /\ m.length \in Nat /\ m.cut \in BOOLEAN
  BY LengthAssumption DEF GoodMsg, Msg
<1>2. Size(m) = 11 + 2 * m.depth + (IF m.cut THEN 0 ELSE 2) + m.payload
  BY <1>1 DEF Size, HeaderSize
<1>3. CASE n = 1 /\ l = "client_server"
  <2>1. R = <<2, 4, 2, 5>>
    BY <1>3 DEF ReadsOf, InitReads
  <2>2. m.depth = 0 /\ m.payload = 0 /\ m.cut = FALSE
    BY <1>3 DEF GoodMsg, Message
  <2>3. Size(m) = 13
    BY <1>2, <2>2
  <2>4. /\ R \in Seq(Nat) /\ Len(R) = 4
        /\ R[1] = 2 /\ R[2] = 4 /\ R[3] = 2 /\ R[4] = 5
    BY <2>1
  <2>5. \A i \in Nat : ReadStart(l, n, i) = Start(i)
    BY <1>3 DEF ReadStart
  <2>6. Start(1) = 0 /\ Start(2) = 2 /\ Start(3) = 6 /\ Start(4) = 8
    BY DEF Start
  <2> HIDE DEF R
  <2>7. \A i \in 1..Len(R) : i = 1 \/ i = 2 \/ i = 3 \/ i = 4
    BY <2>4
  <2>8. ReadStart(l, n, 1) = 0 /\ ReadStart(l, n, 2) = 2 /\ ReadStart(l, n, 3) = 6 /\ ReadStart(l, n, 4) = 8
    BY <2>5, <2>6
  <2> QED BY <2>3, <2>4, <2>7, <2>8 DEF R
<1>4. CASE n = 1 /\ l = "server_client" /\ m.depth = 0
  <2>1. m.depth = 0 /\ m.payload \in {0, 1} /\ m.cut = FALSE /\ m.length = m.payload
    BY <1>4, <1>1 DEF GoodMsg, Uneven
  <2>2. Size(m) = 13 + m.payload
    BY <1>2, <2>1
  <2>3. R = RegisterReads(m)
    BY <1>4 DEF ReadsOf
  <2>4. /\ R \in Seq(Nat) /\ Len(R) = 5 + m.payload
        /\ R[1] = 2 /\ R[2] = 4 /\ R[3] = 2 /\ R[4] = 3 /\ R[5] = 2
        /\ m.payload = 1 => R[6] = 1
    BY <1>1, <2>1, <2>3, RegisterReadsAre
  <2>5. \A i \in Nat : ReadStart(l, n, i) = IF i > 4 THEN 2 * i + 1 ELSE Start(i)
    BY <1>4 DEF ReadStart
  <2>6. Start(1) = 0 /\ Start(2) = 2 /\ Start(3) = 6 /\ Start(4) = 8
    BY DEF Start
  <2> HIDE DEF R
  <2>7. \A i \in 1..Len(R) : i = 1 \/ i = 2 \/ i = 3 \/ i = 4 \/ i = 5 \/ (i = 6 /\ m.payload = 1)
    BY <2>1, <2>4
  <2>8. /\ ReadStart(l, n, 1) = 0 /\ ReadStart(l, n, 2) = 2 /\ ReadStart(l, n, 3) = 6
        /\ ReadStart(l, n, 4) = 8 /\ ReadStart(l, n, 5) = 11 /\ ReadStart(l, n, 6) = 13
    BY <2>5, <2>6
  <2> DEFINE Good(i) ==
               /\ R[i] \in Nat /\ R[i] >= 1
               /\ ReadStart(l, n, i) \in Nat /\ (i > 1 => ReadStart(l, n, i) >= 1)
               /\ ReadStart(l, n, i) <= Size(m)
               /\ i < Len(R) => /\ ReadStart(l, n, i) + R[i] = ReadStart(l, n, i + 1)
                                /\ ReadStart(l, n, i + 1) <= Size(m)
               /\ i = Len(R) => Size(m) <= ReadStart(l, n, i) + R[i]
               /\ ~Uneven(m) => ReadStart(l, n, i) + R[i] <= Size(m)
  <2>9. m.payload = 0 => \A i \in 1..Len(R) : Good(i)
    <3> SUFFICES ASSUME m.payload = 0  PROVE \A i \in 1..Len(R) : Good(i)
      OBVIOUS
    <3>1. Size(m) = 13 /\ Len(R) = 5
      BY <2>2, <2>4
    <3>2. Good(1) /\ Good(2) /\ Good(3)
      BY <3>1, <2>4, <2>8
    <3>3. Good(4)
      BY <3>1, <2>4, <2>8
    <3>4. Good(5)
      BY <3>1, <2>4, <2>8
    <3> HIDE DEF Good
    <3> QED BY <2>7, <3>2, <3>3, <3>4
  <2>10. m.payload = 1 => \A i \in 1..Len(R) : Good(i)
    <3> SUFFICES ASSUME m.payload = 1  PROVE \A i \in 1..Len(R) : Good(i)
      OBVIOUS
    <3>1. Size(m) = 14 /\ Len(R) = 6 /\ R[6] = 1
      BY <2>2, <2>4
    <3>2. Good(1) /\ Good(2) /\ Good(3)
      BY <3>1, <2>4, <2>8
    <3>3. Good(4)
      BY <3>1, <2>4, <2>8
    <3>4. Good(5)
      BY <3>1, <2>4, <2>8
    <3>5. Good(6)
      BY <3>1, <2>4, <2>8
    <3> HIDE DEF Good
    <3> QED BY <2>7, <3>2, <3>3, <3>4, <3>5
  <2>12. \A i \in 1..Len(R) : Good(i)
    BY <2>1, <2>9, <2>10
  <2>13. R \in Seq(Nat) /\ Len(R) \in Nat /\ Len(R) >= 4
    BY <2>1, <2>4
  <2> QED BY <2>12, <2>13 DEF R
<1>5. CASE ~ (n = 1 /\ l = "client_server") /\ ~ (n = 1 /\ l = "server_client")
  <2> DEFINE d == 6 + m.depth
  <2>1. R = ReceiveReads(m) /\ Ending(R, d, m.length)
    BY <1>1, <1>5, ReceiveReadsAre DEF ReadsOf
  <2>2. \A i \in Nat : ReadStart(l, n, i) = Start(i)
    BY <1>5 DEF ReadStart
  <2>3. d \in Nat /\ d >= 6 /\ Size(m) = 2 * d - 1 + (IF m.cut THEN 0 ELSE 2) + m.payload
    BY <1>1, <1>2
  <2>4. MsgOK(m)
    BY DEF GoodMsg
  <2> HIDE DEF R, d
  <2>5. /\ R \in Seq(Nat) /\ Len(R) = d + (IF m.length = 0 THEN 0 ELSE 1)
        /\ \A i \in 1..d : R[i] = F(i)
    BY <2>1 DEF Ending
  <2>6. ASSUME NEW i \in 1..Len(R)
        PROVE  /\ R[i] \in Nat /\ R[i] >= 1
               /\ Start(i) \in Nat /\ (i > 1 => Start(i) >= 1)
               /\ Start(i) <= Size(m)
               /\ i < Len(R) => /\ Start(i) + R[i] = Start(i + 1)
                                /\ Start(i + 1) <= Size(m)
               /\ i = Len(R) => Size(m) <= Start(i) + R[i]
               /\ ~Uneven(m) => Start(i) + R[i] <= Size(m)
    <3>1. i \in Nat /\ i >= 1 /\ Start(i) \in Nat /\ (i > 1 => Start(i) >= 1)
      BY <1>1, <2>3, <2>5 DEF Start
    <3>2. CASE i < d
      <4>1. R[i] = F(i) /\ F(i) \in Nat /\ F(i) >= 1
        BY <2>3, <2>5, <3>1, <3>2 DEF F
      <4>2. Start(i) + F(i) = Start(i + 1)
        BY <3>1 DEF Start, F
      <4>3. Start(i + 1) <= 2 * d - 1
        BY <2>3, <3>1, <3>2 DEF Start
      <4>4. 2 * d - 1 <= Size(m) /\ Size(m) \in Nat /\ Start(i + 1) \in Nat
        BY <1>1, <2>3, <3>1 DEF Start
      <4>5. i # Len(R)
        BY <1>1, <2>3, <2>5, <3>2
      <4> QED BY <2>3, <3>1, <4>1, <4>2, <4>3, <4>4, <4>5
    <3>3. CASE i = d
      <4>1. R[i] = 2 /\ Start(i) = 2 * d - 1 /\ Start(i + 1) = 2 * d + 1
        BY <2>3, <2>5, <3>3 DEF F, Start
      <4>2. CASE m.length = 0
        <5>1. i = Len(R) /\ m.payload = 0
          BY <1>1, <2>3, <2>4, <2>5, <3>3, <4>2 DEF MsgOK
        <5>2. ~Uneven(m) => m.cut = FALSE
          BY <1>1 DEF Uneven
        <5>3. Size(m) \in {2 * d - 1, 2 * d + 1} /\ (m.cut = FALSE => Size(m) = 2 * d + 1)
          BY <1>1, <2>3, <5>1
        <5>4. ~ (i < Len(R))
          BY <3>1, <5>1
        <5> QED BY <1>1, <2>3, <3>1, <4>1, <5>1, <5>2, <5>3, <5>4
      <4>3. CASE m.length # 0
        <5>1. i < Len(R) /\ m.cut = FALSE
          BY <1>1, <2>3, <2>4, <2>5, <3>3, <4>3 DEF MsgOK
        <5> QED BY <1>1, <2>3, <3>1, <4>1, <5>1
      <4> QED BY <4>2, <4>3
    <3>4. CASE i > d
      <4>1. m.length # 0 /\ i = d + 1 /\ i = Len(R)
        BY <1>1, <2>3, <2>5, <3>1, <3>4
      <4>2. R[i] = m.length /\ Start(i) = 2 * d + 1
        BY <2>1, <2>3, <4>1 DEF Ending, Start
      <4>3. m.cut = FALSE /\ m.payload <= m.length
        BY <1>1, <2>4, <4>1 DEF MsgOK
      <4>4. ~Uneven(m) => m.length = m.payload
        BY DEF Uneven
      <4> QED BY <1>1, <2>3, <3>1, <4>1, <4>2, <4>3, <4>4
    <3> QED BY <2>3, <3>1, <3>2, <3>3, <3>4
  <2>7. Len(R) \in Nat /\ Len(R) >= 4
    BY <1>1, <2>3, <2>5
  <2>8. \A i \in 1..Len(R) : i \in Nat /\ i + 1 \in Nat
    BY <2>7
  <2> QED BY <2>2, <2>5, <2>6, <2>7, <2>8 DEF R
<1>6. CASE n = 1 /\ l = "server_client" /\ m.depth # 0
  <2>1. m.cut = FALSE /\ m.length = m.payload /\ m.depth >= 1
    BY <1>6, <1>1 DEF GoodMsg, Uneven
  <2>2. Size(m) \in Nat /\ Size(m) >= 15 /\ OutOfPlace(l, n, m)
    BY <1>1, <1>2, <1>6, <2>1 DEF OutOfPlace
  <2>3. R = RegisterReads(m)
    BY <1>6 DEF ReadsOf
  <2>4. /\ R \in Seq(Nat) /\ Len(R) = 5 + (IF m.length = 0 THEN 0 ELSE 1)
        /\ R[1] = 2 /\ R[2] = 4 /\ R[3] = 2 /\ R[4] = 3 /\ R[5] = 2
        /\ m.length # 0 => R[6] = 1
    BY <1>1, <2>3, RegisterReadsAre
  <2>5. \A i \in Nat : ReadStart(l, n, i) = IF i > 4 THEN 2 * i + 1 ELSE Start(i)
    BY <1>6 DEF ReadStart
  <2>6. Start(1) = 0 /\ Start(2) = 2 /\ Start(3) = 6 /\ Start(4) = 8
    BY DEF Start
  <2> HIDE DEF R
  <2>8. /\ ReadStart(l, n, 1) = 0 /\ ReadStart(l, n, 2) = 2 /\ ReadStart(l, n, 3) = 6
        /\ ReadStart(l, n, 4) = 8 /\ ReadStart(l, n, 5) = 11 /\ ReadStart(l, n, 6) = 13
    BY <2>5, <2>6
  <2> DEFINE z == Size(m)
             Good(i) ==
               /\ R[i] \in Nat /\ R[i] >= 1
               /\ ReadStart(l, n, i) \in Nat /\ (i > 1 => ReadStart(l, n, i) >= 1)
               /\ ReadStart(l, n, i) <= z
               /\ i < Len(R) => /\ ReadStart(l, n, i) + R[i] = ReadStart(l, n, i + 1)
                                /\ ReadStart(l, n, i + 1) <= z
               /\ ReadStart(l, n, i) + R[i] <= z
  <2>9. z \in Nat /\ z >= 15
    BY <2>2
  <2> HIDE DEF z
  <2>10. m.length = 0 => \A i \in 1..Len(R) : Good(i)
    <3> SUFFICES ASSUME m.length = 0  PROVE \A i \in 1..Len(R) : Good(i)
      OBVIOUS
    <3>1. Len(R) = 5
      BY <2>4
    <3>2. Good(1) /\ Good(2) /\ Good(3)
      BY <3>1, <2>4, <2>8, <2>9
    <3>3. Good(4)
      BY <3>1, <2>4, <2>8, <2>9
    <3>4. Good(5)
      BY <3>1, <2>4, <2>8, <2>9
    <3>5. \A i \in 1..Len(R) : i = 1 \/ i = 2 \/ i = 3 \/ i = 4 \/ i = 5
      BY <3>1
    <3> HIDE DEF Good
    <3> QED BY <3>2, <3>3, <3>4, <3>5
  <2>11. m.length # 0 => \A i \in 1..Len(R) : Good(i)
    <3> SUFFICES ASSUME m.length # 0  PROVE \A i \in 1..Len(R) : Good(i)
      OBVIOUS
    <3>1. Len(R) = 6 /\ R[6] = 1
      BY <2>4
    <3>2. Good(1) /\ Good(2) /\ Good(3)
      BY <3>1, <2>4, <2>8, <2>9
    <3>3. Good(4)
      BY <3>1, <2>4, <2>8, <2>9
    <3>4. Good(5)
      BY <3>1, <2>4, <2>8, <2>9
    <3>5. Good(6)
      BY <3>1, <2>4, <2>8, <2>9
    <3>6. \A i \in 1..Len(R) : i = 1 \/ i = 2 \/ i = 3 \/ i = 4 \/ i = 5 \/ i = 6
      BY <3>1
    <3> HIDE DEF Good
    <3> QED BY <3>2, <3>3, <3>4, <3>5, <3>6
  <2>12. \A i \in 1..Len(R) : Good(i)
    BY <2>10, <2>11
  <2>13. R \in Seq(Nat) /\ Len(R) \in Nat /\ Len(R) >= 4
    BY <2>4
  <2> QED BY <2>2, <2>12, <2>13 DEF R, z
<1> QED BY <1>3, <1>4, <1>5, <1>6

(* No piece begins within a read of an even message, but for the reads of 3 *)
(* and 5 that take ADDR_DEPTH and DEVICE_ID together.                       *)
LEMMA NoneWithin ==
  ASSUME NEW l \in Links, NEW n \in Nat, NEW m, GoodMsg(l, n, m), ~Uneven(m), ~OutOfPlace(l, n, m),
         NEW i \in 1..Len(ReadsOf(l, n, m)),
         i = 4 /\ n = 1 => l \notin {"client_server", "server_client"},
         NEW q \in 2..Len(Pieces(m))
  PROVE  \/ Start(q) <= ReadStart(l, n, i)
         \/ Start(q) >= ReadStart(l, n, i) + ReadsOf(l, n, m)[i]
<1> DEFINE R == ReadsOf(l, n, m)
<1>1. m \in Msg /\ m.depth \in Nat /\ m.payload \in Nat /\ m.length \in Nat /\ m.cut = FALSE /\ m.length = m.payload
  BY LengthAssumption DEF GoodMsg, Msg, Uneven
<1>2. Len(R) \in Nat /\ i \in Nat /\ i >= 1
  BY ReadBounds
<1>3. Len(Pieces(m)) \in Nat /\ q \in Nat /\ q >= 2
  BY <1>1, PieceBounds
<1>4. i < Len(R) => ReadStart(l, n, i) + R[i] = ReadStart(l, n, i + 1)
  BY ReadBounds
<1>5. Len(Pieces(m)) = 6 + m.depth + (IF m.payload = 0 THEN 0 ELSE 1)
  <2>1. Ending(Pieces(m), Fixed(m), m.payload) /\ Fixed(m) = 6 + m.depth
    BY <1>1, PiecesAre DEF Fixed
  <2> QED BY <2>1 DEF Ending
<1>6. \A a \in Nat : \A b \in Nat : a >= 1 /\ a <= b => Start(a) <= Start(b)
  BY DEF Start
<1>7. CASE n = 1 /\ l = "client_server"
  <2>1. Len(R) = 4 /\ i \in {1, 2, 3}
    <3>1. R = <<2, 4, 2, 5>>
      BY <1>7 DEF ReadsOf, InitReads
    <3>2. Len(R) = 4
      BY <3>1
    <3>3. i \in 1..4 /\ i # 4
      BY <1>7, <3>2
    <3> QED BY <3>2, <3>3
  <2> HIDE DEF R
  <2>2. \A k \in Nat : ReadStart(l, n, k) = Start(k)
    BY <1>7 DEF ReadStart
  <2>3. i + 1 \in Nat /\ i < Len(R)
    BY <1>2, <2>1
  <2>4. ReadStart(l, n, i) = Start(i) /\ ReadStart(l, n, i) + R[i] = Start(i + 1)
    BY <1>2, <1>4, <2>2, <2>3
  <2> QED BY <1>2, <1>3, <1>6, <2>4 DEF R
<1>8. CASE n = 1 /\ l = "server_client"
  <2>1. m.depth = 0 /\ m.payload \in {0, 1}
    BY <1>8 DEF GoodMsg, OutOfPlace
  <2>2. R = RegisterReads(m)
    BY <1>8 DEF ReadsOf
  <2>3. /\ Len(R) = 5 + m.payload /\ R[5] = 2 /\ (m.payload = 1 => R[6] = 1)
    BY <1>1, <2>1, <2>2, RegisterReadsAre
  <2>4. i \in {1, 2, 3, 5, 6} /\ (i = 6 => m.payload = 1)
    BY <1>2, <1>8, <2>1, <2>3
  <2>5. CASE i \in {1, 2, 3}
    <3>1. ReadStart(l, n, i) = Start(i) /\ ReadStart(l, n, i) + R[i] = Start(i + 1)
      BY <1>2, <1>4, <1>8, <2>1, <2>3, <2>5 DEF ReadStart
    <3> QED BY <1>2, <1>3, <1>6, <3>1
  <2>6. CASE i = 5
    <3>1. ReadStart(l, n, i) = 11 /\ R[i] = 2
      BY <1>8, <2>3, <2>6 DEF ReadStart
    <3> QED BY <1>3, <3>1 DEF Start
  <2>7. CASE i = 6
    <3>1. ReadStart(l, n, i) = 13 /\ R[i] = 1
      BY <1>8, <2>3, <2>4, <2>7 DEF ReadStart
    <3> QED BY <1>3, <3>1 DEF Start
  <2> QED BY <2>4, <2>5, <2>6, <2>7
<1>9. CASE ~ (n = 1 /\ l = "client_server") /\ ~ (n = 1 /\ l = "server_client")
  <2>1. R = ReceiveReads(m) /\ Ending(R, 6 + m.depth, m.length)
    BY <1>1, <1>9, ReceiveReadsAre DEF ReadsOf
  <2>2. Len(R) = Len(Pieces(m))
    BY <1>1, <1>5, <2>1 DEF Ending
  <2>3. \A k \in Nat : ReadStart(l, n, k) = Start(k)
    BY <1>9 DEF ReadStart
  <2>4. CASE i < Len(R)
    <3>1. ReadStart(l, n, i) = Start(i) /\ ReadStart(l, n, i) + R[i] = Start(i + 1)
      BY <1>2, <1>4, <2>3, <2>4
    <3> QED BY <1>2, <1>3, <1>6, <3>1
  <2>5. CASE ~ (i < Len(R))
    <3>1. q <= i
      BY <1>2, <1>3, <2>2, <2>5
    <3> QED BY <1>2, <1>3, <1>6, <2>3, <3>1
  <2> QED BY <2>4, <2>5
<1> QED BY <1>7, <1>8, <1>9

(* The bytes of a piece. *)
LEMMA BytesAre ==
  ASSUME NEW n \in Nat, NEW o \in Nat, NEW z \in Nat
  PROVE  /\ Bytes(n, o, z) \in Seq(Nat \X Nat) /\ Len(Bytes(n, o, z)) = z
         /\ \A k \in 1..z : Bytes(n, o, z)[k] = <<n, o + k>>
<1>1. Bytes(n, o, z) \in [1..z -> Nat \X Nat]
  BY DEF Bytes
<1>2. Bytes(n, o, z) \in Seq(Nat \X Nat) /\ Len(Bytes(n, o, z)) = z
  BY <1>1, SeqOfLength
<1>3. \A k \in 1..z : Bytes(n, o, z)[k] = <<n, o + k>>
  BY DEF Bytes
<1> QED BY <1>2, <1>3

-----------------------------------------------------------------------------
(* The inductive invariant. *)

(* The invariant has the types of TypeOK. *)
LEMMA IInvTypes == IInv => TypeOK
<1> SUFFICES ASSUME IInv  PROVE TypeOK
  OBVIOUS
<1> USE DEF IInv
<1>1. link \in Links /\ sent \in Seq(Msg) /\ overlap \in BOOLEAN /\ gone \in BOOLEAN
  BY DEF SentOK
<1>2. \A s \in Sender : Busy(s) => /\ sending[s].msg \in DOMAIN sent
                                   /\ sending[s].piece \in 2..Len(Pieces(sent[sending[s].msg]))
  BY DEF SendingOK
<1>3. \A k \in DOMAIN stream : /\ stream[k][1] \in DOMAIN sent
                               /\ stream[k][2] \in 1..Size(sent[stream[k][1]])
  BY DEF StreamOK, Written
<1>4. /\ reader.at \in {"reading", "lost", "closed", "spinning", "raised"}
      /\ reader.msg \in 1..Len(sent) + 1
  BY DEF ReaderOK
<1>5. ASSUME reader.read > 1
      PROVE  /\ reader.read \in DOMAIN Reads(reader.msg)
             /\ reader.offset \in 1..Size(sent[reader.msg])
  <2> DEFINE n == reader.msg
             m == sent[n]
             i == reader.read
             R == ReadsOf(link, n, m)
  <2>1. n \in DOMAIN sent /\ n \in Nat /\ GoodMsg(link, n, m) /\ m \in Msg
    BY <1>1, <1>5 DEF ReaderOK, SentOK
  <2>2. Reads(n) = R
    BY DEF Reads, ReadsOf
  <2>3. i \in Nat /\ i <= Len(R) /\ reader.offset = ReadStart(link, n, i)
    BY <1>5 DEF ReaderOK
  <2>4. Size(m) \in Nat
    BY <2>1, PieceBounds
  <2> HIDE DEF n, m, i, R
  <2>5. /\ R \in Seq(Nat) /\ Len(R) \in Nat
        /\ \A k \in 1..Len(R) : /\ ReadStart(link, n, k) \in Nat
                                /\ k > 1 => ReadStart(link, n, k) >= 1
                                /\ ReadStart(link, n, k) <= Size(m)
    BY <1>1, <2>1, ReadBounds DEF R
  <2>6. i \in 1..Len(R) /\ i > 1
    BY <1>5, <2>3, <2>5 DEF i
  <2>7. DOMAIN R = 1..Len(R)
    BY <2>5
  <2>8. ReadStart(link, n, i) \in 1..Size(m)
    BY <2>4, <2>5, <2>6
  <2> QED BY <2>2, <2>3, <2>6, <2>7, <2>8 DEF i, m, n
<1>6. handled \in Seq([msg : Nat, bytes : Nat])
  BY DEF HandledOK
<1> QED BY <1>1, <1>2, <1>3, <1>4, <1>5, <1>6 DEF TypeOK, Msg

(* Initially nothing was sent. *)
LEMMA IInvInit == Init => IInv
<1> SUFFICES ASSUME Init  PROVE IInv
  OBVIOUS
<1>1. SentOK
  BY DEF Init, SentOK
<1>2. SendingOK
  <2>1. \A s \in Sender : sending[s] = Idle
    BY DEF Init
  <2>2. sending \in [Sender -> [msg : Nat, piece : Nat, offset : Nat]]
    BY DEF Init, Idle
  <2> QED BY <2>1, <2>2 DEF SendingOK, Busy
<1>3. ReaderOK
  BY DEF Init, ReaderOK, ReadStart, Start
<1>4. StreamOK
  BY DEF Init, StreamOK, Written, Once, Unread, Ahead, Busy
<1>5. HandledOK
  BY DEF Init, HandledOK, NothingTorn
<1> QED BY <1>1, <1>2, <1>3, <1>4, <1>5 DEF IInv, Init

(* z bytes of message n were added, from offset o. *)
Added(n, o, z) ==
  /\ stream' \in Seq(Nat \X Nat)
  /\ Len(stream') = Len(stream) + z
  /\ \A k \in 1..Len(stream) : stream'[k] = stream[k]
  /\ \A k \in 1..z : stream'[Len(stream) + k] = <<n, o + k>>

(* Writing a piece: its bytes are added, and the thread is after it. *)
LEMMA PieceWritten ==
  ASSUME stream \in Seq(Nat \X Nat), NEW s \in Sender, NEW n \in Nat, NEW m \in Msg,
         sending \in [Sender -> [msg : Nat, piece : Nat, offset : Nat]],
         NEW p \in 1..Len(Pieces(m)), WritePiece(s, n, m, p, Start(p))
  PROVE  /\ Start(p) \in Nat /\ Pieces(m)[p] \in Nat /\ Pieces(m)[p] >= 1
         /\ Added(n, Start(p), Pieces(m)[p])
         /\ sending' \in [Sender -> [msg : Nat, piece : Nat, offset : Nat]]
         /\ \A t \in Sender \ {s} : sending'[t] = sending[t]
         /\ IF p = Len(Pieces(m)) THEN sending'[s] = Idle /\ Start(p) + Pieces(m)[p] = Size(m)
            ELSE /\ sending'[s] = [msg |-> n, piece |-> p + 1, offset |-> Start(p) + Pieces(m)[p]]
                 /\ p + 1 \in 2..Len(Pieces(m)) /\ Start(p) + Pieces(m)[p] = Start(p + 1)
                 /\ Start(p) + Pieces(m)[p] <= Size(m)
<1> DEFINE o == Start(p)
           z == Pieces(m)[p]
           b == Bytes(n, o, z)
           L == Len(Pieces(m))
<1>1. /\ o \in Nat /\ z \in Nat /\ z >= 1 /\ L \in Nat /\ p \in Nat
      /\ o + z = IF p = L THEN Size(m) ELSE Start(p + 1)
      /\ o + z <= Size(m)
  BY PieceBounds
<1>2. stream' = stream \o b
  BY DEF WritePiece
<1>3. sending' = [sending EXCEPT ![s] = IF p = L THEN Idle
                   ELSE [msg |-> n, piece |-> p + 1, offset |-> o + z]]
  BY DEF WritePiece
<1>4. b \in Seq(Nat \X Nat) /\ Len(b) = z /\ \A k \in 1..z : b[k] = <<n, o + k>>
  BY <1>1, BytesAre
<1> HIDE DEF b, z, L, o
<1>5. /\ stream' \in Seq(Nat \X Nat) /\ Len(stream') = Len(stream) + Len(b)
      /\ \A k \in 1..Len(stream) + Len(b) :
           stream'[k] = IF k <= Len(stream) THEN stream[k] ELSE b[k - Len(stream)]
  BY <1>2, <1>4, ConcatProperties
<1>6. Len(stream) \in Nat
  OBVIOUS
<1>7. \A k \in 1..Len(stream) : k \in 1..Len(stream) + Len(b) /\ k <= Len(stream)
  BY <1>1, <1>4, <1>6
<1>8. \A k \in 1..z : /\ Len(stream) + k \in 1..Len(stream) + Len(b)
                      /\ ~ (Len(stream) + k <= Len(stream))
                      /\ Len(stream) + k - Len(stream) = k
  BY <1>1, <1>4, <1>6
<1>9. sending' \in [Sender -> [msg : Nat, piece : Nat, offset : Nat]]
  BY <1>1, <1>3 DEF Idle
<1>10. IF p = L THEN sending'[s] = Idle
       ELSE sending'[s] = [msg |-> n, piece |-> p + 1, offset |-> o + z]
  BY <1>3
<1>11. \A t \in Sender \ {s} : sending'[t] = sending[t]
  BY <1>3
<1>12. p # L => p + 1 \in 2..L
  BY <1>1 DEF L
<1>13. \A k \in 1..Len(stream) : stream'[k] = stream[k]
  BY <1>5, <1>7
<1>14. \A k \in 1..z : stream'[Len(stream) + k] = <<n, o + k>>
  <2> TAKE k \in 1..z
  <2> DEFINE j == Len(stream) + k
  <2>1. j \in 1..Len(stream) + Len(b) /\ ~ (j <= Len(stream)) /\ j - Len(stream) = k
    BY <1>8
  <2> HIDE DEF j
  <2>2. stream'[j] = b[j - Len(stream)]
    BY <1>5, <2>1
  <2> QED BY <1>4, <2>1, <2>2 DEF j
<1>15. Added(n, o, z)
  BY <1>4, <1>5, <1>13, <1>14 DEF Added
<1> QED BY <1>1, <1>9, <1>10, <1>11, <1>12, <1>15 DEF z, L, o

(* The messages begun are kept. *)
Grown == /\ link' = link
         /\ \A k \in DOMAIN sent : k \in DOMAIN sent' /\ sent'[k] = sent[k]

(* A write keeps the bytes apart and the threads where they are. *)
LEMMA WriteKeeps ==
  ASSUME IInv, SentOK', Grown, reader' = reader,
         NEW s \in Sender, NEW n \in Nat, n \in DOMAIN sent',
         NEW p \in 1..Len(Pieces(sent'[n])), WritePiece(s, n, sent'[n], p, Start(p)),
         \A k \in DOMAIN stream : stream[k][1] = n => stream[k][2] <= Start(p),
         reader.at = "reading" => reader.msg < n \/ (reader.msg = n /\ reader.offset <= Start(p)),
         \A t \in Sender : Busy(t) /\ sending[t].msg = n => t = s
  PROVE  SendingOK' /\ StreamOK'
<1> DEFINE m == sent'[n]
           o == Start(p)
           z == Pieces(m)[p]
           L == Len(Pieces(m))
<1>1. m \in Msg /\ n \in DOMAIN sent'
  BY DEF SentOK
<1>2. /\ sending \in [Sender -> [msg : Nat, piece : Nat, offset : Nat]]
      /\ stream \in Seq(Nat \X Nat) /\ Len(stream) \in Nat /\ DOMAIN stream = 1..Len(stream)
  BY DEF IInv, SendingOK, StreamOK
<1>3. /\ o \in Nat /\ z \in Nat /\ z >= 1
      /\ stream' \in Seq(Nat \X Nat)
      /\ Len(stream') = Len(stream) + z
      /\ \A k \in 1..Len(stream) : stream'[k] = stream[k]
      /\ \A k \in 1..z : stream'[Len(stream) + k] = <<n, o + k>>
  <2>1. o \in Nat /\ z \in Nat /\ z >= 1
    BY <1>1, <1>2, PieceWritten
  <2>2. Added(n, o, z)
    BY <1>1, <1>2, PieceWritten
  <2> HIDE DEF o, z
  <2> QED BY <2>1, <2>2 DEF Added
<1>4. /\ sending' \in [Sender -> [msg : Nat, piece : Nat, offset : Nat]]
      /\ \A t \in Sender \ {s} : sending'[t] = sending[t]
      /\ IF p = L THEN sending'[s] = Idle /\ o + z = Size(m)
         ELSE /\ sending'[s] = [msg |-> n, piece |-> p + 1, offset |-> o + z]
              /\ p + 1 \in 2..L /\ o + z = Start(p + 1)
              /\ o + z <= Size(m)
  BY <1>1, <1>2, PieceWritten
<1>5. DOMAIN stream' = 1..Len(stream') /\ Size(m) \in Nat
  BY <1>1, <1>3, PieceBounds
<1>15. /\ \A k \in DOMAIN stream : stream[k][1] = n => stream[k][2] <= o
       /\ reader.at = "reading" => reader.msg < n \/ (reader.msg = n /\ reader.offset <= o)
  OBVIOUS
<1> HIDE DEF m, o, z, L
<1>16. o \in Nat /\ z \in Nat /\ Size(m) \in Nat
  BY <1>3, <1>5
<1>17. o + z <= Size(m)
  BY <1>4, <1>16
(* An element of the stream is an old one or one of the piece. *)
<1>6. \A k \in DOMAIN stream' :
        \/ k \in DOMAIN stream /\ stream'[k] = stream[k]
        \/ \E j \in 1..z : k = Len(stream) + j /\ stream'[k] = <<n, o + j>>
  <2> TAKE k \in DOMAIN stream'
  <2>1. CASE k <= Len(stream)
    BY <1>2, <1>3, <1>5, <2>1
  <2>2. CASE ~ (k <= Len(stream))
    <3>1. k - Len(stream) \in 1..z /\ k = Len(stream) + (k - Len(stream))
      <4>1. k \in 1..Len(stream) + z /\ Len(stream) \in Nat
        BY <1>2, <1>3, <1>5
      <4>2. \A b, c \in Nat : \A a \in 1..b + c :
              ~(a <= b) => a - b \in 1..c /\ a = b + (a - b)
        OBVIOUS
      <4> QED BY <1>16, <2>2, <4>1, <4>2
    <3> QED BY <1>3, <3>1
  <2> QED BY <2>1, <2>2
<1>7. \A t \in Sender : Busy(t)' =>
        \/ t # s /\ Busy(t) /\ sending'[t] = sending[t]
        \/ t = s /\ p # L /\ sending'[s] = [msg |-> n, piece |-> p + 1, offset |-> o + z]
  BY <1>4 DEF Busy
<1>8. SendingOK'
  <2>1. ASSUME NEW t \in Sender, Busy(t)'
        PROVE  /\ sending'[t].msg \in DOMAIN sent'
               /\ sending'[t].piece \in 2..Len(Pieces(sent'[sending'[t].msg]))
               /\ sending'[t].offset = Start(sending'[t].piece)
               /\ \A v \in Sender : Busy(v)' /\ sending'[v].msg = sending'[t].msg => v = t
    <3>1. CASE t # s /\ Busy(t) /\ sending'[t] = sending[t]
      <4>1. /\ sending[t].msg \in DOMAIN sent
            /\ sending[t].piece \in 2..Len(Pieces(sent[sending[t].msg]))
            /\ sending[t].offset = Start(sending[t].piece)
            /\ \A v \in Sender : Busy(v) /\ sending[v].msg = sending[t].msg => v = t
        BY <3>1 DEF IInv, SendingOK
      <4>2. sending[t].msg # n
        BY <3>1
      <4>3. \A v \in Sender : Busy(v)' /\ sending'[v].msg = sending'[t].msg => v = t
        BY <1>7, <3>1, <4>1, <4>2
      <4> QED BY <3>1, <4>1, <4>3 DEF Grown
    <3>2. CASE t = s /\ p # L /\ sending'[s] = [msg |-> n, piece |-> p + 1, offset |-> o + z]
      <4>1. \A v \in Sender : Busy(v)' /\ sending'[v].msg = n => v = s
        BY <1>7
      <4>2. p + 1 \in 2..L /\ o + z = Start(p + 1)
        BY <1>4, <3>2
      <4> QED BY <3>2, <4>1, <4>2 DEF L, m
    <3> QED BY <1>7, <2>1, <3>1, <3>2
  <2> QED BY <1>4, <2>1 DEF SendingOK
<1>9. Written'
  <2>1. ASSUME NEW k \in DOMAIN stream'
        PROVE  /\ stream'[k][1] \in DOMAIN sent'
               /\ stream'[k][2] \in 1..Size(sent'[stream'[k][1]])
               /\ \A t \in Sender : Busy(t)' /\ sending'[t].msg = stream'[k][1]
                                      => stream'[k][2] <= sending'[t].offset
    <3>1. CASE k \in DOMAIN stream /\ stream'[k] = stream[k]
      <4>1. /\ stream[k][1] \in DOMAIN sent
            /\ stream[k][2] \in 1..Size(sent[stream[k][1]])
            /\ \A t \in Sender : Busy(t) /\ sending[t].msg = stream[k][1]
                                   => stream[k][2] <= sending[t].offset
        BY <3>1 DEF IInv, StreamOK, Written
      <4>2. stream[k][1] \in DOMAIN sent' /\ sent'[stream[k][1]] = sent[stream[k][1]]
        BY <4>1 DEF Grown
      <4>3. ASSUME NEW t \in Sender, Busy(t)', sending'[t].msg = stream[k][1]
            PROVE  stream[k][2] <= sending'[t].offset
        <5>1. CASE t # s /\ Busy(t) /\ sending'[t] = sending[t]
          BY <4>1, <4>3, <5>1
        <5>2. CASE t = s /\ p # L /\ sending'[s] = [msg |-> n, piece |-> p + 1, offset |-> o + z]
          <6>1. stream[k][1] = n /\ sending'[t].offset = o + z
            BY <4>3, <5>2
          <6>2. stream[k][2] <= o /\ stream[k][2] \in Nat
            BY <1>2, <1>15, <3>1, <6>1
          <6>3. \A x \in Nat : x <= o => x <= o + z
            BY <1>3
          <6> QED BY <6>1, <6>2, <6>3
        <5> QED BY <1>7, <4>3, <5>1, <5>2
      <4> QED BY <3>1, <4>1, <4>2, <4>3
    <3>2. CASE \E j \in 1..z : k = Len(stream) + j /\ stream'[k] = <<n, o + j>>
      <4>1. PICK j \in 1..z : stream'[k] = <<n, o + j>>
        BY <3>2
      <4>2. o + j \in 1..Size(m) /\ o + j <= o + z
        <5>1. o + z <= Size(m)
          BY <1>17
        <5>2. o \in Nat /\ z \in Nat /\ Size(m) \in Nat
          BY <1>16
        <5>3. \A a, b, c, d \in Nat : 1 <= c /\ c <= b /\ a + b <= d
                                       => a + c \in 1..d /\ a + c <= a + b
          OBVIOUS
        <5> QED BY <5>1, <5>2, <5>3
      <4>3. ASSUME NEW t \in Sender, Busy(t)', sending'[t].msg = n
            PROVE  o + j <= sending'[t].offset
        <5>1. t = s /\ p # L /\ sending'[s] = [msg |-> n, piece |-> p + 1, offset |-> o + z]
          BY <1>7, <4>3
        <5> QED BY <4>2, <5>1
      <4>4. m = sent'[n]
        BY DEF m
      <4> QED BY <1>1, <4>1, <4>2, <4>3, <4>4
    <3> QED BY <1>6, <3>1, <3>2
  <2> QED BY <2>1 DEF Written
<1>10. Once'
  <2>1. ASSUME NEW j \in DOMAIN stream', NEW k \in DOMAIN stream', stream'[j] = stream'[k]
        PROVE  j = k
    <3>1. ASSUME NEW a \in DOMAIN stream, NEW b \in 1..z, stream[a] = <<n, o + b>>
          PROVE  FALSE
      <4>1. stream[a][1] = n /\ stream[a][2] = o + b
        BY <3>1
      <4> QED BY <1>3, <1>15, <4>1
    <3>2. CASE j \in DOMAIN stream /\ stream'[j] = stream[j]
      <4>1. k \in DOMAIN stream /\ stream'[k] = stream[k]
        BY <1>6, <2>1, <3>1, <3>2
      <4> QED BY <2>1, <3>2, <4>1 DEF IInv, StreamOK, Once
    <3>3. CASE \E b \in 1..z : j = Len(stream) + b /\ stream'[j] = <<n, o + b>>
      <4>1. PICK b \in 1..z : j = Len(stream) + b /\ stream'[j] = <<n, o + b>>
        BY <3>3
      <4>2. PICK c \in 1..z : k = Len(stream) + c /\ stream'[k] = <<n, o + c>>
        BY <1>6, <2>1, <3>1, <4>1
      <4>3. o + b = o + c
        BY <2>1, <4>1, <4>2
      <4>4. b = c
        BY <1>3, <4>3
      <4> QED BY <4>1, <4>2, <4>4
    <3> QED BY <1>6, <3>2, <3>3
  <2> QED BY <2>1 DEF Once
<1>11. Unread'
  <2>1. ASSUME reader.at = "reading", NEW k \in DOMAIN stream'
        PROVE  Beyond(stream'[k], reader.msg, reader.offset)
    <3>1. CASE k \in DOMAIN stream /\ stream'[k] = stream[k]
      BY <2>1, <3>1 DEF IInv, StreamOK, Unread
    <3>2. CASE \E j \in 1..z : k = Len(stream) + j /\ stream'[k] = <<n, o + j>>
      <4>1. PICK j \in 1..z : stream'[k] = <<n, o + j>>
        BY <3>2
      <4>2. reader.msg \in Nat /\ reader.offset \in Nat
        BY DEF IInv, ReaderOK
      <4>5. reader.msg < n \/ (reader.msg = n /\ reader.offset <= o)
        BY <1>15, <2>1
      <4>6. \A x \in Nat : x <= o => o + j > x
        BY <1>3
      <4>3. \/ n > reader.msg
            \/ n = reader.msg /\ o + j > reader.offset
        BY <4>2, <4>5, <4>6
      <4>4. <<n, o + j>>[1] = n /\ <<n, o + j>>[2] = o + j
        OBVIOUS
      <4> QED BY <4>1, <4>3, <4>4 DEF Beyond
    <3> QED BY <1>6, <3>1, <3>2
  <2> QED BY <2>1 DEF Unread
<1>12. Ahead'
  <2>1. ASSUME reader.at = "reading", NEW t \in Sender, Busy(t)'
        PROVE  \/ reader.msg < sending'[t].msg
               \/ reader.msg = sending'[t].msg /\ reader.offset <= sending'[t].offset
    <3>1. CASE t # s /\ Busy(t) /\ sending'[t] = sending[t]
      BY <2>1, <3>1 DEF IInv, StreamOK, Ahead
    <3>2. CASE t = s /\ p # L /\ sending'[s] = [msg |-> n, piece |-> p + 1, offset |-> o + z]
      <4>1. reader.offset \in Nat
        BY DEF IInv, ReaderOK
      <4>2. sending'[t].msg = n /\ sending'[t].offset = o + z
        BY <3>2
      <4> QED BY <1>3, <1>15, <2>1, <4>1, <4>2
    <3> QED BY <1>7, <2>1, <3>1, <3>2
  <2> QED BY <2>1 DEF Ahead
<1> QED BY <1>3, <1>8, <1>9, <1>10, <1>11, <1>12 DEF StreamOK

(* Every message that may be sent is one of its link. *)
LEMMA NextGood ==
  ASSUME SentOK, NEW s \in Sender, NEW m \in NextMessages(s)
  PROVE  GoodMsg(link, Len(sent) + 1, m)
<1> DEFINE n == Len(sent) + 1
<1>1. link \in Links /\ Len(sent) \in Nat /\ (sent = <<>> <=> n = 1) /\ (sent # <<>> => n # 1)
  BY DEF SentOK
<1>2. ASSUME NEW d \in Depth \cup {0}, NEW k \in Payload \cup {0}
      PROVE  Message(d, k) \in Msg /\ MsgOK(Message(d, k)) /\ ~Uneven(Message(d, k))
  BY LengthAssumption DEF Message, Msg, MsgOK, Uneven
<1>3. Message(0, 1) \in Msg /\ MsgOK(Message(0, 1)) /\ ~Uneven(Message(0, 1))
  BY DEF Message, Msg, MsgOK, Uneven
<1> HIDE DEF n
<1>4. CASE link = "client_server"
  <2>1. m \in IF sent = <<>> THEN RegisterClient ELSE ClientMessages
    BY <1>4 DEF NextMessages
  <2>2. CASE sent = <<>>
    <3>1. m = Message(0, 0)
      BY <2>1, <2>2 DEF RegisterClient
    <3> QED BY <1>2, <1>4, <3>1 DEF GoodMsg, n
  <2>3. CASE sent # <<>>
    <3>1. \E d \in Depth, k \in Payload \cup {0} : m = Message(d, k)
      BY <2>1, <2>3 DEF ClientMessages
    <3> QED BY <1>1, <1>2, <1>4, <2>3, <3>1 DEF GoodMsg, n
  <2> QED BY <2>2, <2>3
<1>5. CASE link = "server_client"
  <2>1. m \in RegisterAnswers \/ m \in ServerMessages
    BY <1>5 DEF NextMessages, ToClient
  <2>2. CASE m \in RegisterAnswers
    <3>1. m = Message(0, 0) \/ m = Message(0, 1)
      BY <2>2 DEF RegisterAnswers, Refusal
    <3>2. m.payload \in {0, 1}
      BY <3>1 DEF Message
    <3> QED BY <1>2, <1>3, <1>5, <3>1, <3>2 DEF GoodMsg, n
  <2>3. CASE m \in ServerMessages
    <3>1. PICK d \in Depth, k \in Payload \cup {0} : m = Message(d, k)
      BY <2>3 DEF ServerMessages
    <3>2. m.depth # 0
      BY <3>1, LengthAssumption DEF Message
    <3> QED BY <1>2, <1>5, <3>1, <3>2 DEF GoodMsg, n
  <2> QED BY <2>1, <2>2, <2>3
<1>6. CASE link = "server_python"
  <2>1. m \in ServerMessages
    BY <1>6 DEF NextMessages
  <2>2. \E d \in Depth, k \in Payload \cup {0} : m = Message(d, k)
    BY <2>1 DEF ServerMessages
  <2> QED BY <1>2, <1>6, <2>2 DEF GoodMsg, n
<1>7. CASE link = "python_server"
  <2>1. m \in ListRequest \cup ActuatorOperations
    BY <1>7 DEF NextMessages
  <2>2. m \in Msg /\ MsgOK(m)
    <3>1. CASE m \in ListRequest
      <4>1. m = Message(0, 0)
        BY <3>1 DEF ListRequest
      <4> QED BY <1>2, <4>1
    <3>2. CASE \E d \in Depth, k \in Payload : m = Message(d, k)
      BY <1>2, <3>2
    <3>3. CASE \E d \in Depth, k \in Payload : m = [Message(d, k) EXCEPT !.length = k + 1]
      <4>1. PICK d \in Depth, k \in Payload : m = [Message(d, k) EXCEPT !.length = k + 1]
        BY <3>3
      <4>2. d \in Nat /\ k \in Nat /\ k # 0
        BY LengthAssumption
      <4>3. m = [depth |-> d, length |-> k + 1, payload |-> k, cut |-> FALSE]
        BY <4>1 DEF Message
      <4> QED BY <4>2, <4>3 DEF Msg, MsgOK
    <3>4. CASE \E d \in Depth : m = [Message(d, 0) EXCEPT !.cut = TRUE]
      <4>1. PICK d \in Depth : m = [Message(d, 0) EXCEPT !.cut = TRUE]
        BY <3>4
      <4>2. m = [depth |-> d, length |-> 0, payload |-> 0, cut |-> TRUE]
        BY <4>1 DEF Message
      <4> QED BY <4>2 DEF Msg, MsgOK
    <3> QED BY <2>1, <3>1, <3>2, <3>3, <3>4 DEF ActuatorOperations
  <2> QED BY <1>7, <2>2 DEF GoodMsg
<1> QED BY <1>1, <1>4, <1>5, <1>6, <1>7 DEF Links, n

(* The messages handled were whole, and stay so. *)
LEMMA HandledKept ==
  ASSUME HandledOK, Grown, handled' = handled
  PROVE  HandledOK'
<1>1. \A k \in DOMAIN handled : handled[k].msg \in DOMAIN sent /\ sent'[handled[k].msg] = sent[handled[k].msg]
  BY DEF HandledOK, Grown
<1>2. NothingTorn
  BY DEF HandledOK
<1>3. NothingTorn'
  BY <1>1, <1>2 DEF NothingTorn, Grown
<1> QED BY <1>1, <1>3 DEF HandledOK, Grown

(* The receiver stays where it is in its message. *)
LEMMA ReaderKept ==
  ASSUME SentOK, ReaderOK, SentOK', Grown, reader' = reader
  PROVE  ReaderOK'
<1>1. Len(sent) \in Nat /\ Len(sent') \in Nat /\ DOMAIN sent = 1..Len(sent) /\ DOMAIN sent' = 1..Len(sent')
  BY DEF SentOK
<1>2. Len(sent) <= Len(sent')
  <2>1. Len(sent) > 0 => Len(sent) \in DOMAIN sent'
    BY <1>1 DEF Grown
  <2> QED BY <1>1, <2>1
<1>3. reader.msg \in 1..Len(sent') + 1
  BY <1>1, <1>2 DEF ReaderOK
<1>4. reader.read > 1 =>
       /\ reader.msg \in DOMAIN sent'
       /\ reader.read <= Len(ReadsOf(link', reader.msg, sent'[reader.msg]))
       /\ reader.read > 4 => ~OutOfPlace(link', reader.msg, sent'[reader.msg])
  BY DEF ReaderOK, Grown
<1>5. /\ reader \in [at : {"reading", "lost", "closed", "spinning", "raised"},
                     msg : Nat, read : Nat, offset : Nat]
      /\ reader.read \in Nat \ {0}
      /\ reader.offset = ReadStart(link', reader.msg, reader.read)
  BY DEF ReaderOK, Grown
<1> QED BY <1>3, <1>4, <1>5 DEF ReaderOK

(* A message is appended to those sent. *)
LEMMA SentGrows ==
  ASSUME SentOK, NEW m, GoodMsg(link, Len(sent) + 1, m), sent' = Append(sent, m), link' = link
  PROVE  /\ SentOK' /\ Grown /\ Len(sent) \in Nat /\ Len(sent') = Len(sent) + 1
         /\ DOMAIN sent = 1..Len(sent) /\ DOMAIN sent' = 1..Len(sent')
         /\ sent'[Len(sent')] = m
<1>1. m \in Msg /\ sent \in Seq(Msg) /\ Len(sent) \in Nat /\ DOMAIN sent = 1..Len(sent)
  BY DEF SentOK, GoodMsg
<1>2. /\ sent' \in Seq(Msg) /\ Len(sent') = Len(sent) + 1
      /\ \A k \in 1..Len(sent) : sent'[k] = sent[k]
      /\ sent'[Len(sent) + 1] = m
  BY <1>1, AppendProperties
<1>3. DOMAIN sent' = 1..Len(sent')
  BY <1>2
<1>4. Grown
  BY <1>1, <1>2, <1>3 DEF Grown
<1>5. \A k \in DOMAIN sent' : GoodMsg(link, k, sent'[k])
  <2> TAKE k \in DOMAIN sent'
  <2>1. CASE k \in DOMAIN sent
    BY <1>4, <2>1 DEF SentOK, Grown
  <2>2. CASE k = Len(sent) + 1
    BY <1>2, <2>2
  <2> QED BY <1>1, <1>2, <1>3, <2>1, <2>2
<1> QED BY <1>1, <1>2, <1>3, <1>4, <1>5 DEF SentOK

(* Beginning a message. *)
LEMMA BeginKeeps ==
  ASSUME IInv, NEW s \in Sender, Begin(s)
  PROVE  IInv'
<1>1. PICK m \in NextMessages(s) : sent' = Append(sent, m) /\ WritePiece(s, Len(sent'), m, 1, 0)
  BY DEF Begin
<1>2. SentOK /\ SendingOK /\ ReaderOK /\ StreamOK /\ HandledOK
  BY DEF IInv
<1>3. GoodMsg(link, Len(sent) + 1, m)
  BY <1>2, NextGood
<1>4. link' = link /\ reader' = reader /\ handled' = handled /\ gone' = gone
  BY DEF Begin
<1> DEFINE n == Len(sent')
<1>5. /\ SentOK' /\ Grown /\ Len(sent) \in Nat /\ n = Len(sent) + 1
      /\ DOMAIN sent = 1..Len(sent) /\ DOMAIN sent' = 1..n /\ sent'[n] = m
  BY <1>1, <1>2, <1>3, <1>4, SentGrows
<1>6. m \in Msg /\ Start(1) = 0
  BY <1>3 DEF GoodMsg, Start
<1>7. 1 \in 1..Len(Pieces(m))
  BY <1>6, PieceBounds
<1> HIDE DEF n
<1>8. n \in Nat /\ n \in DOMAIN sent' /\ n \notin DOMAIN sent
  BY <1>5
<1>9. WritePiece(s, n, sent'[n], 1, Start(1)) /\ 1 \in 1..Len(Pieces(sent'[n]))
  BY <1>1, <1>5, <1>6, <1>7 DEF n
<1>10. \A k \in DOMAIN stream : stream[k][1] = n => stream[k][2] <= Start(1)
  BY <1>2, <1>8 DEF StreamOK, Written
<1>11. reader.msg < n \/ (reader.msg = n /\ reader.offset <= Start(1))
  <2>1. reader.msg \in 1..n /\ reader.read \in Nat \ {0}
    BY <1>2, <1>5 DEF ReaderOK
  <2>2. CASE reader.msg = n
    <3>1. reader.read = 1
      BY <1>2, <1>8, <2>1, <2>2 DEF ReaderOK
    <3>2. reader.offset = 0
      BY <1>2, <3>1 DEF ReaderOK, ReadStart, Start
    <3> QED BY <1>6, <2>2, <3>2
  <2>3. CASE reader.msg # n
    BY <1>8, <2>1, <2>3
  <2> QED BY <2>2, <2>3
<1>12. \A t \in Sender : Busy(t) /\ sending[t].msg = n => t = s
  BY <1>2, <1>8 DEF SendingOK
<1>13. SendingOK' /\ StreamOK'
  BY <1>4, <1>5, <1>8, <1>9, <1>10, <1>11, <1>12, WriteKeeps
<1>14. ReaderOK'
  BY <1>2, <1>4, <1>5, ReaderKept
<1>15. HandledOK'
  BY <1>2, <1>4, <1>5, HandledKept
<1>16. overlap' \in BOOLEAN /\ (overlap' => link' = "python_server")
  <2>1. overlap' = (overlap \/ \E t \in Sender : Busy(t))
    BY DEF Begin
  <2>2. (\E t \in Sender : Busy(t)) => link = "python_server"
    BY DEF Begin, MayBegin
  <2> QED BY <1>4, <2>1, <2>2 DEF IInv
<1> QED BY <1>4, <1>5, <1>13, <1>14, <1>15, <1>16 DEF IInv

(* Going on with a message. *)
LEMMA ContinueKeeps ==
  ASSUME IInv, NEW s \in Sender, Continue(s)
  PROVE  IInv'
<1> DEFINE n == sending[s].msg
           p == sending[s].piece
<1>1. SentOK /\ SendingOK /\ ReaderOK /\ StreamOK /\ HandledOK
  BY DEF IInv
<1>2. /\ link' = link /\ sent' = sent /\ reader' = reader /\ handled' = handled
      /\ gone' = gone /\ overlap' = overlap /\ Busy(s)
  BY DEF Continue
<1>3. SentOK' /\ Grown
  BY <1>1, <1>2 DEF SentOK, Grown
<1>4. /\ n \in DOMAIN sent /\ p \in 2..Len(Pieces(sent[n])) /\ sending[s].offset = Start(p)
      /\ \A t \in Sender : Busy(t) /\ sending[t].msg = n => t = s
  BY <1>1, <1>2 DEF SendingOK
<1>5. WritePiece(s, n, sent'[n], p, Start(p))
  BY <1>2, <1>4 DEF Continue
<1>6. n \in Nat /\ n \in DOMAIN sent'
  BY <1>1, <1>2, <1>4 DEF SentOK
<1>7. p \in 1..Len(Pieces(sent'[n]))
  BY <1>2, <1>4
<1>8. \A k \in DOMAIN stream : stream[k][1] = n => stream[k][2] <= Start(p)
  BY <1>1, <1>2, <1>4 DEF StreamOK, Written
<1>9. reader.at = "reading" => reader.msg < n \/ (reader.msg = n /\ reader.offset <= Start(p))
  BY <1>1, <1>2, <1>4 DEF StreamOK, Ahead
<1> HIDE DEF n, p
<1>10. SendingOK' /\ StreamOK'
  BY <1>2, <1>3, <1>4, <1>5, <1>6, <1>7, <1>8, <1>9, WriteKeeps
<1>11. ReaderOK'
  BY <1>1, <1>2, <1>3, ReaderKept
<1>12. HandledOK'
  BY <1>1, <1>2, <1>3, HandledKept
<1> QED BY <1>2, <1>3, <1>10, <1>11, <1>12 DEF IInv

(* The end of the sending process. *)
LEMMA DieKeeps == IInv /\ Die => IInv'
<1> SUFFICES ASSUME IInv, Die  PROVE IInv'
  OBVIOUS
<1>1. /\ link' = link /\ sent' = sent /\ sending' = sending /\ reader' = reader
      /\ handled' = handled /\ overlap' = overlap /\ gone' = TRUE /\ stream' \in {stream, <<>>}
  BY DEF Die
<1>2. SentOK' /\ SendingOK' /\ ReaderOK' /\ HandledOK'
  BY <1>1 DEF IInv, SentOK, SendingOK, ReaderOK, HandledOK, NothingTorn, Busy
<1>3. CASE stream' = stream
  <2>1. StreamOK'
    BY <1>1, <1>3 DEF IInv, StreamOK, Written, Once, Unread, Ahead, Busy
  <2> QED BY <1>1, <1>2, <2>1 DEF IInv
<1>4. CASE stream' = <<>>
  <2>1. StreamOK'
    BY <1>1, <1>4 DEF IInv, StreamOK, Written, Once, Unread, Ahead, Busy
  <2> QED BY <1>1, <1>2, <2>1 DEF IInv
<1> QED BY <1>1, <1>3, <1>4

(* The parts of a read(): what is asked for, how much comes, what comes,    *)
(* what is due, and whether it came.                                        *)
Want == Reads(reader.msg)[reader.read]
Came == Min({Want, Len(stream)})
Got == SubSeq(stream, 1, Came)
Due == Min({Want, Size(sent[reader.msg]) - reader.offset})
Whole == Got = Bytes(reader.msg, reader.offset, Due) /\ ~(Early /\ reader.read = 4)

(* A read() is within a message that was begun, and takes what comes off    *)
(* the stream.                                                              *)
LEMMA ReadTakes ==
  ASSUME IInv, Read
  PROVE  /\ reader.at = "reading" /\ reader.msg \in DOMAIN sent /\ reader.msg \in Nat
         /\ GoodMsg(link, reader.msg, sent[reader.msg])
         /\ Size(sent[reader.msg]) \in Nat
         /\ reader.read \in 1..Len(ReadsOf(link, reader.msg, sent[reader.msg]))
         /\ Want = ReadsOf(link, reader.msg, sent[reader.msg])[reader.read]
         /\ Want \in Nat /\ Want >= 1
         /\ reader.offset = ReadStart(link, reader.msg, reader.read)
         /\ reader.offset \in Nat /\ reader.offset <= Size(sent[reader.msg])
         /\ Len(stream) \in Nat /\ DOMAIN stream = 1..Len(stream)
         /\ Came \in 1..Len(stream) /\ Came = (IF Want <= Len(stream) THEN Want ELSE Len(stream))
<1> DEFINE n == reader.msg
           m == sent[n]
           R == ReadsOf(link, n, m)
           i == reader.read
<1>1. SentOK /\ ReaderOK /\ StreamOK
  BY DEF IInv
<1>2. reader.at = "reading" /\ stream # <<>>
  BY DEF Read, Awake
<1>3. stream \in Seq(Nat \X Nat) /\ Len(stream) \in Nat /\ DOMAIN stream = 1..Len(stream) /\ Len(stream) >= 1
  BY <1>1, <1>2 DEF StreamOK
<1>4. n \in DOMAIN sent
  <2>1. 1 \in DOMAIN stream
    BY <1>3
  <2>2. stream[1][1] \in DOMAIN sent /\ Beyond(stream[1], n, reader.offset)
    BY <1>1, <1>2, <2>1 DEF StreamOK, Written, Unread
  <2>3. DOMAIN sent = 1..Len(sent) /\ Len(sent) \in Nat
    BY <1>1 DEF SentOK
  <2>4. n \in 1..Len(sent) + 1
    BY <1>1 DEF ReaderOK
  <2>5. n # Len(sent) + 1
    <3>1. stream[1][1] \in Nat /\ stream[1][1] <= Len(sent)
      BY <2>2, <2>3
    <3>2. stream[1][1] > n \/ stream[1][1] = n
      BY <2>2 DEF Beyond
    <3> QED BY <2>3, <2>4, <3>1, <3>2
  <2> QED BY <2>3, <2>4, <2>5
<1>5. n \in Nat /\ GoodMsg(link, n, m) /\ link \in Links
  BY <1>1, <1>4 DEF SentOK
<1>6. Size(m) \in Nat
  BY <1>5, PieceBounds DEF GoodMsg
<1>7. Want = R[i]
  BY DEF Want, Reads, ReadsOf
<1>8. i \in Nat /\ i >= 1 /\ (i > 1 => i <= Len(R)) /\ reader.offset = ReadStart(link, n, i)
  BY <1>1 DEF ReaderOK
<1> HIDE DEF n, m, R, i
<1>9. /\ Len(R) \in Nat /\ Len(R) >= 4
      /\ \A k \in 1..Len(R) : /\ R[k] \in Nat /\ R[k] >= 1
                              /\ ReadStart(link, n, k) \in Nat
                              /\ ReadStart(link, n, k) <= Size(m)
  BY <1>5, ReadBounds DEF R
<1>10. i \in 1..Len(R)
  BY <1>8, <1>9
<1>11. Want \in Nat /\ Want >= 1 /\ reader.offset \in Nat /\ reader.offset <= Size(m)
  BY <1>7, <1>8, <1>9, <1>10
<1>12. Came = IF Want <= Len(stream) THEN Want ELSE Len(stream)
  BY <1>3, <1>11, MinOfTwo DEF Came
<1>13. Came \in 1..Len(stream)
  <2> DEFINE L == Len(stream)
  <2>1. L \in Nat /\ L >= 1 /\ Came = IF Want <= L THEN Want ELSE L
    BY <1>3, <1>12
  <2> HIDE DEF L
  <2>2. Came \in 1..L
    BY <1>11, <2>1
  <2> QED BY <2>2 DEF L
<1> QED BY <1>2, <1>3, <1>4, <1>5, <1>6, <1>7, <1>8, <1>10, <1>11, <1>12, <1>13 DEF n, m, R, i

(* What is left in the stream. *)
LEMMA ReadLeaves ==
  ASSUME IInv, Read
  PROVE  /\ Got \in Seq(Nat \X Nat)
         /\ Len(Got) = Came /\ \A k \in 1..Came : Got[k] = stream[k]
         /\ stream' \in Seq(Nat \X Nat)
         /\ Len(stream') = Len(stream) - Came
         /\ DOMAIN stream' = 1..Len(stream')
         /\ \A k \in DOMAIN stream' : k + Came \in DOMAIN stream /\ stream'[k] = stream[k + Came]
<1> DEFINE L == Len(stream)
           c == Came
<1>1. L \in Nat /\ DOMAIN stream = 1..L /\ c \in 1..L
  BY ReadTakes
<1>2. \A k \in 1..L : stream[k] \in Nat \X Nat
  BY <1>1 DEF IInv, StreamOK
<1>3. stream' = SubSeq(stream, Len(Got) + 1, L)
  BY DEF Read, Got, Came, Want
<1> HIDE DEF L, c
<1>4. /\ SubSeq(stream, 1, c) \in Seq(Nat \X Nat)
      /\ Len(SubSeq(stream, 1, c)) = c /\ \A k \in 1..c : SubSeq(stream, 1, c)[k] = stream[k]
  <2>1. \A k \in 1..c : stream[k] \in Nat \X Nat
    BY <1>1, <1>2
  <2>2. c \in Int /\ 1 \in Int /\ 1 <= c /\ c - 1 + 1 = c
    BY <1>1
  <2>3. /\ SubSeq(stream, 1, c) \in Seq(Nat \X Nat)
        /\ Len(SubSeq(stream, 1, c)) = IF 1 <= c THEN c - 1 + 1 ELSE 0
        /\ \A k \in 1..c - 1 + 1 : SubSeq(stream, 1, c)[k] = stream[1 + k - 1]
    BY <2>1, <2>2, SubSeqProperties
  <2>4. \A k \in 1..c : k \in 1..c - 1 + 1 /\ 1 + k - 1 = k
    BY <1>1
  <2> QED BY <2>2, <2>3, <2>4
<1>5. Got \in Seq(Nat \X Nat) /\ Len(Got) = c /\ \A k \in 1..c : Got[k] = stream[k]
  BY <1>4 DEF Got, c
<1>6. stream' = SubSeq(stream, c + 1, L)
  BY <1>3, <1>5
<1>7. /\ stream' \in Seq(Nat \X Nat)
      /\ Len(stream') = IF c + 1 <= L THEN L - (c + 1) + 1 ELSE 0
      /\ \A k \in 1..L - (c + 1) + 1 : stream'[k] = stream[c + 1 + k - 1]
  <2>1. \A k \in c + 1..L : stream[k] \in Nat \X Nat
    BY <1>1, <1>2
  <2>2. c + 1 \in Int /\ L \in Int
    BY <1>1
  <2> QED BY <1>6, <2>1, <2>2, SubSeqProperties
<1>8. Len(stream') = L - c /\ L - (c + 1) + 1 = L - c /\ L - c \in Nat
  BY <1>1, <1>7
<1>9. DOMAIN stream' = 1..Len(stream')
  BY <1>7
<1>10. \A k \in 1..L - c : k + c \in 1..L /\ c + 1 + k - 1 = k + c
  BY <1>1
<1>11. \A k \in DOMAIN stream' : k + c \in DOMAIN stream /\ stream'[k] = stream[k + c]
  BY <1>1, <1>7, <1>8, <1>9, <1>10
<1> QED BY <1>5, <1>7, <1>8, <1>9, <1>11 DEF L, c

(* A read() that gets its field goes on to the next, or to the handler. *)
LEMMA ReadWhole ==
  ASSUME IInv, Read, Whole
  PROVE  LET n == reader.msg
             m == sent[n]
             i == reader.read
             R == ReadsOf(link, n, m)
         IN /\ \A k \in 1..Came : stream[k] = <<n, reader.offset + k>>
            /\ reader.offset + Came = IF i = Len(R) THEN Size(m) ELSE ReadStart(link, n, i + 1)
            /\ i # Len(R) => i + 1 \in 1..Len(R)
            /\ IF i = Len(R)
               THEN /\ handled' = Append(handled, [msg |-> n, bytes |-> Size(m)])
                    /\ reader' = [reader EXCEPT !.msg = n + 1, !.read = 1, !.offset = 0]
               ELSE /\ handled' = handled
                    /\ reader' = [reader EXCEPT !.read = i + 1, !.offset = reader.offset + Came]
<1> DEFINE n == reader.msg
           m == sent[n]
           i == reader.read
           R == ReadsOf(link, n, m)
           o == reader.offset
           z == Size(m)
<1>1. /\ n \in Nat /\ GoodMsg(link, n, m) /\ i \in 1..Len(R) /\ Want = R[i]
      /\ Want \in Nat /\ Want >= 1 /\ o = ReadStart(link, n, i)
      /\ o \in Nat /\ o <= z /\ z \in Nat
      /\ Len(stream) \in Nat /\ Came \in 1..Len(stream)
  BY ReadTakes
<1>2. link \in Links
  BY DEF IInv, SentOK
<1>3. R = Reads(n)
  BY DEF Reads, ReadsOf
<1> HIDE DEF n, m, R, i, o, z
<1>4. /\ Len(R) \in Nat
      /\ i < Len(R) => o + Want = ReadStart(link, n, i + 1) /\ ReadStart(link, n, i + 1) <= z
      /\ i = Len(R) => z <= o + Want
  <2>1. ~ (OutOfPlace(link, n, m) /\ i = Len(R))
    <3>1. OutOfPlace(link, n, m) => R = RegisterReads(m) /\ m \in Msg
      BY <1>1 DEF OutOfPlace, ReadsOf, R, GoodMsg
    <3>2. OutOfPlace(link, n, m) => Len(R) = 5 \/ Len(R) = 6
      BY <3>1, RegisterReadsAre
    <3>3. i > 4 => ~OutOfPlace(link, n, m)
      BY DEF IInv, ReaderOK, i, n, m
    <3>4. 5 > 4 /\ 6 > 4
      OBVIOUS
    <3> QED BY <3>2, <3>3, <3>4
  <2> QED BY <1>1, <1>2, <2>1, ReadBounds DEF R, z
<1>5. z - o \in Nat
  BY <1>1
<1>6. Due = IF Want <= z - o THEN Want ELSE z - o
  <2>1. Due = Min({Want, z - o})
    BY DEF Due, z, o, m, n
  <2> QED BY <1>1, <1>5, <2>1, MinOfTwo
<1>7. Due \in Nat
  BY <1>1, <1>5, <1>6
<1>8. /\ Len(Bytes(n, o, Due)) = Due
      /\ \A k \in 1..Due : Bytes(n, o, Due)[k] = <<n, o + k>>
  <2>1. n \in Nat /\ o \in Nat
    BY <1>1
  <2> QED BY <1>7, <2>1, BytesAre
<1>9. Got = Bytes(n, o, Due)
  BY DEF Whole, n, o
<1>10. Came = Due
  BY <1>8, <1>9, ReadLeaves
<1>11. \A k \in 1..Came : stream[k] = <<n, o + k>>
  BY <1>8, <1>9, <1>10, ReadLeaves
<1>12. o + Came = IF i = Len(R) THEN z ELSE ReadStart(link, n, i + 1)
  <2>1. CASE i = Len(R)
    <3>1. Due = z - o
      BY <1>1, <1>4, <1>5, <1>6, <2>1
    <3> QED BY <1>1, <1>10, <2>1, <3>1
  <2>2. CASE i # Len(R)
    <3>1. i < Len(R)
      BY <1>1, <1>4, <2>2
    <3>2. o + Want = ReadStart(link, n, i + 1) /\ o + Want <= z
      BY <1>4, <3>1
    <3>3. Want <= z - o
      BY <1>1, <3>2
    <3> QED BY <1>6, <1>10, <2>2, <3>2, <3>3
  <2> QED BY <2>1, <2>2
<1>13. i # Len(R) => i + 1 \in 1..Len(R)
  BY <1>1, <1>4
<1>14. o + Len(Got) = o + Came
  BY ReadLeaves
<1>15. IF i = Len(R)
       THEN /\ handled' = Append(handled, [msg |-> n, bytes |-> o + Len(Got)])
            /\ reader' = [reader EXCEPT !.msg = n + 1, !.read = 1, !.offset = 0]
       ELSE /\ handled' = handled
            /\ reader' = [reader EXCEPT !.read = i + 1, !.offset = o + Len(Got)]
  <2>1. ~ (Got # Bytes(reader.msg, reader.offset, Due) \/ (Early /\ reader.read = 4))
    BY DEF Whole
  <2>2. i = Len(R) <=> reader.read = Len(Reads(reader.msg))
    BY <1>3 DEF i, n
  <2>3. IF Got # Bytes(reader.msg, reader.offset, Due) \/ (Early /\ reader.read = 4)
        THEN reader' = [reader EXCEPT !.at = "lost"] /\ UNCHANGED handled
        ELSE IF reader.read = Len(Reads(reader.msg))
        THEN /\ handled' = Append(handled, [msg |-> reader.msg, bytes |-> reader.offset + Len(Got)])
             /\ reader' = [reader EXCEPT !.msg = @ + 1, !.read = 1, !.offset = 0]
        ELSE /\ reader' = [reader EXCEPT !.read = @ + 1, !.offset = reader.offset + Len(Got)]
             /\ UNCHANGED handled
    BY DEF Read, Got, Due, Came, Want
  <2> QED BY <2>1, <2>2, <2>3 DEF n, i, o
<1> QED BY <1>11, <1>12, <1>13, <1>14, <1>15 DEF n, m, R, i, o, z

(* A read() that does not is the last. *)
LEMMA ReadLost ==
  ASSUME Read, ~Whole
  PROVE  reader' = [reader EXCEPT !.at = "lost"] /\ handled' = handled
<1>1. Got # Bytes(reader.msg, reader.offset, Due) \/ (Early /\ reader.read = 4)
  BY DEF Whole
<1> QED BY <1>1 DEF Read, Got, Due, Came, Want

(* Reading. *)
LEMMA ReadKeeps == IInv /\ Read => IInv'
<1> SUFFICES ASSUME IInv, Read  PROVE IInv'
  OBVIOUS
<1> DEFINE n == reader.msg
           m == sent[n]
           i == reader.read
           R == ReadsOf(link, n, m)
           o == reader.offset
           c == Came
<1>1. /\ link' = link /\ sent' = sent /\ sending' = sending /\ overlap' = overlap /\ gone' = gone
  BY DEF Read
<1>2. SentOK /\ SendingOK /\ ReaderOK /\ StreamOK /\ HandledOK
  BY DEF IInv
<1>3. SentOK' /\ SendingOK' /\ Grown
  BY <1>1, <1>2 DEF SentOK, SendingOK, Busy, Grown
<1>4. /\ reader.at = "reading" /\ n \in DOMAIN sent /\ n \in Nat /\ Size(m) \in Nat
      /\ i \in 1..Len(R) /\ o = ReadStart(link, n, i) /\ o \in Nat /\ o <= Size(m)
      /\ Len(stream) \in Nat /\ DOMAIN stream = 1..Len(stream) /\ c \in 1..Len(stream)
      /\ GoodMsg(link, n, m)
  BY ReadTakes
<1>5. /\ stream' \in Seq(Nat \X Nat)
      /\ Len(stream') = Len(stream) - c
      /\ \A k \in DOMAIN stream' : k \in Nat /\ k + c \in DOMAIN stream /\ stream'[k] = stream[k + c]
  <2>1. DOMAIN stream' = 1..Len(stream') /\ stream' \in Seq(Nat \X Nat)
    BY ReadLeaves
  <2>2. \A k \in DOMAIN stream' : k \in Nat
    BY <2>1
  <2> QED BY <2>1, <2>2, ReadLeaves
<1> HIDE DEF m, R, c
<1>6. Written' /\ Once'
  <2>1. Written'
    <3>1. \A k \in DOMAIN stream' :
             /\ stream'[k][1] \in DOMAIN sent
             /\ stream'[k][2] \in 1..Size(sent[stream'[k][1]])
             /\ \A s \in Sender : Busy(s) /\ sending[s].msg = stream'[k][1]
                                    => stream'[k][2] <= sending[s].offset
      BY <1>2, <1>5 DEF StreamOK, Written
    <3> QED BY <1>1, <3>1 DEF Written, Busy
  <2>2. Once'
    <3>1. ASSUME NEW j \in DOMAIN stream', NEW k \in DOMAIN stream', stream'[j] = stream'[k]
          PROVE  j = k
      <4>1. j + c = k + c
        BY <1>2, <1>5, <3>1 DEF StreamOK, Once
      <4>2. c \in Nat /\ j \in Nat /\ k \in Nat
        BY <1>4, <1>5
      <4> QED BY <4>1, <4>2
    <3> QED BY <3>1 DEF Once
  <2> QED BY <2>1, <2>2
<1>7. CASE ~Whole
  <2>1. reader' = [reader EXCEPT !.at = "lost"] /\ handled' = handled
    BY <1>7, ReadLost
  <2>2. ReaderOK'
    <3>1. /\ reader'.at = "lost" /\ reader'.msg = reader.msg /\ reader'.read = reader.read
          /\ reader'.offset = reader.offset
      BY <1>2, <2>1 DEF ReaderOK
    <3>2. reader' \in [at : {"reading", "lost", "closed", "spinning", "raised"},
                       msg : Nat, read : Nat, offset : Nat]
      BY <1>2, <2>1 DEF ReaderOK
    <3> QED BY <1>1, <1>2, <3>1, <3>2 DEF ReaderOK
  <2>3. reader'.at = "lost"
    BY <1>2, <2>1 DEF ReaderOK
  <2>4. Unread' /\ Ahead'
    BY <2>3 DEF Unread, Ahead
  <2>5. HandledOK'
    BY <1>2, <1>3, <2>1, HandledKept
  <2> QED BY <1>1, <1>3, <1>5, <1>6, <2>2, <2>4, <2>5 DEF IInv, StreamOK
<1>8. CASE Whole
  <2>1. /\ \A k \in 1..c : stream[k] = <<n, o + k>>
        /\ o + c = IF i = Len(R) THEN Size(m) ELSE ReadStart(link, n, i + 1)
        /\ i # Len(R) => i + 1 \in 1..Len(R)
        /\ IF i = Len(R)
           THEN /\ handled' = Append(handled, [msg |-> n, bytes |-> Size(m)])
                /\ reader' = [reader EXCEPT !.msg = n + 1, !.read = 1, !.offset = 0]
           ELSE /\ handled' = handled
                /\ reader' = [reader EXCEPT !.read = i + 1, !.offset = o + c]
    BY <1>8, ReadWhole DEF c, R, m
  <2>2. c \in Nat /\ c >= 1 /\ o + c \in Nat
    BY <1>4
  (* What is left of message n is beyond the bytes taken. *)
  <2>3. \A k \in DOMAIN stream' : Beyond(stream'[k], n, o + c) /\ stream'[k][1] \in Nat
    <3> TAKE k \in DOMAIN stream'
    <3> DEFINE b == stream'[k]
    <3>1. /\ k + c \in DOMAIN stream /\ b = stream[k + c] /\ b \in Nat \X Nat
      BY <1>2, <1>5 DEF StreamOK
    <3>2. Beyond(b, n, o)
      BY <1>2, <1>4, <3>1 DEF StreamOK, Unread
    <3>3. ASSUME b[1] = n, ~ (b[2] > o + c)
          PROVE  FALSE
      <4>1. b[2] - o \in 1..c /\ o + (b[2] - o) = b[2]
        BY <1>4, <2>2, <3>1, <3>2, <3>3 DEF Beyond
      <4>2. stream[b[2] - o] = <<n, b[2]>>
        BY <2>1, <4>1
      <4>3. stream[b[2] - o] = b
        BY <3>1, <3>3, <4>2
      <4>4. b[2] - o \in DOMAIN stream
        BY <1>4, <4>1
      <4>5. b[2] - o = k + c
        BY <1>2, <3>1, <4>3, <4>4 DEF StreamOK, Once
      <4>6. k \in Nat /\ k >= 1
        <5>1. DOMAIN stream' = 1..Len(stream')
          BY <1>5
        <5> QED BY <5>1
      <4> QED BY <2>2, <4>1, <4>5, <4>6
    <3> QED BY <3>1, <3>2, <3>3 DEF Beyond
  (* The thread that writes message n has written them. *)
  <2>4. \A s \in Sender : Busy(s) => \/ n < sending[s].msg
                                     \/ n = sending[s].msg /\ o + c <= sending[s].offset
    <3> TAKE s \in Sender
    <3> HAVE Busy(s)
    <3>1. c \in DOMAIN stream /\ stream[c] = <<n, o + c>>
      BY <1>4, <2>1, <2>2
    <3>2. sending[s].msg = n => o + c <= sending[s].offset
      BY <1>2, <3>1 DEF StreamOK, Written
    <3>3. n < sending[s].msg \/ n = sending[s].msg
      BY <1>2, <1>4 DEF StreamOK, Ahead
    <3> QED BY <3>2, <3>3
  <2>5. CASE i # Len(R)
    <3>1. handled' = handled /\ reader' = [reader EXCEPT !.read = i + 1, !.offset = o + c]
      BY <2>1, <2>5
    <3>2. /\ reader'.at = reader.at /\ reader'.msg = n /\ reader'.read = i + 1 /\ reader'.offset = o + c
          /\ reader' \in [at : {"reading", "lost", "closed", "spinning", "raised"},
                          msg : Nat, read : Nat, offset : Nat]
      <4> DEFINE x == o + c
                 y == i + 1
      <4>1. x \in Nat /\ y \in Nat
        BY <1>4, <2>2
      <4>2. reader' = [reader EXCEPT !.read = y, !.offset = x]
        BY <3>1
      <4> HIDE DEF x, y
      <4>3. reader \in [at : {"reading", "lost", "closed", "spinning", "raised"},
                        msg : Nat, read : Nat, offset : Nat]
        BY <1>2 DEF ReaderOK
      <4>4. /\ reader'.at = reader.at /\ reader'.msg = n /\ reader'.read = y /\ reader'.offset = x
        BY <4>2, <4>3
      <4>5. reader' \in [at : {"reading", "lost", "closed", "spinning", "raised"},
                         msg : Nat, read : Nat, offset : Nat]
        BY <4>1, <4>2, <4>3
      <4> QED BY <4>4, <4>5 DEF x, y
    <3>3. i + 1 \in Nat \ {0} /\ i + 1 <= Len(R) /\ o + c = ReadStart(link, n, i + 1)
      BY <1>4, <2>1, <2>5
    <3>4. ReaderOK'
      <4>1. i + 1 > 4 => ~OutOfPlace(link, n, m)
        <5>1. i > 4 => ~OutOfPlace(link, n, m)
          BY <1>2 DEF ReaderOK, m
        <5>2. i = 4 => ~OutOfPlace(link, n, m)
          BY <1>4, <1>8 DEF Whole, Early, OutOfPlace, m
        <5> QED BY <1>4, <5>1, <5>2
      <4> QED BY <1>1, <1>2, <1>4, <3>2, <3>3, <4>1 DEF ReaderOK, R, m
    <3>5. Unread' /\ Ahead'
      BY <1>1, <2>3, <2>4, <3>2 DEF Unread, Ahead, Busy
    <3>6. HandledOK'
      BY <1>2, <1>3, <3>1, HandledKept
    <3> QED BY <1>1, <1>3, <1>5, <1>6, <3>4, <3>5, <3>6 DEF IInv, StreamOK
  <2>6. CASE i = Len(R)
    <3>1. /\ handled' = Append(handled, [msg |-> n, bytes |-> Size(m)])
          /\ reader' = [reader EXCEPT !.msg = n + 1, !.read = 1, !.offset = 0]
      BY <2>1, <2>6
    <3>2. /\ reader'.at = reader.at /\ reader'.msg = n + 1 /\ reader'.read = 1 /\ reader'.offset = 0
          /\ reader' \in [at : {"reading", "lost", "closed", "spinning", "raised"},
                          msg : Nat, read : Nat, offset : Nat]
      <4> DEFINE y == n + 1
      <4>1. y \in Nat
        BY <1>4
      <4>2. reader' = [reader EXCEPT !.msg = y, !.read = 1, !.offset = 0]
        BY <3>1
      <4> HIDE DEF y
      <4>3. reader \in [at : {"reading", "lost", "closed", "spinning", "raised"},
                        msg : Nat, read : Nat, offset : Nat]
        BY <1>2 DEF ReaderOK
      <4>4. /\ reader'.at = reader.at /\ reader'.msg = y /\ reader'.read = 1 /\ reader'.offset = 0
        BY <4>2, <4>3
      <4>5. reader' \in [at : {"reading", "lost", "closed", "spinning", "raised"},
                         msg : Nat, read : Nat, offset : Nat]
        BY <4>1, <4>2, <4>3
      <4> QED BY <4>4, <4>5 DEF y
    <3>3. o + c = Size(m)
      BY <2>1, <2>6
    <3>4. ReaderOK'
      <4>1. n + 1 \in 1..Len(sent) + 1
        BY <1>2, <1>4 DEF SentOK
      <4>2. ReadStart(link, n + 1, 1) = 0
        BY DEF ReadStart, Start
      <4> QED BY <1>1, <3>2, <4>1, <4>2 DEF ReaderOK
    <3>5. Unread'
      <4>1. ASSUME NEW k \in DOMAIN stream'
            PROVE  Beyond(stream'[k], n + 1, 0)
        <5>1. /\ stream'[k][1] \in Nat
              /\ stream'[k][2] \in 1..Size(sent[stream'[k][1]])
              /\ stream'[k][1] \in DOMAIN sent
              /\ Beyond(stream'[k], n, Size(m))
          BY <1>1, <1>6, <2>3, <3>3 DEF Written
        <5>2. sent[stream'[k][1]] \in Msg
          BY <1>2, <5>1 DEF SentOK
        <5>3. Size(sent[stream'[k][1]]) \in Nat
          BY <5>2, PieceBounds
        <5>4. stream'[k][2] \in Nat /\ stream'[k][2] > 0 /\ stream'[k][2] <= Size(sent[stream'[k][1]])
          BY <5>1, <5>3
        <5>5. stream'[k][1] # n
          BY <1>4, <5>1, <5>4 DEF Beyond, m
        <5>6. stream'[k][1] > n
          BY <5>1, <5>5 DEF Beyond
        <5> QED BY <1>4, <5>1, <5>4, <5>6 DEF Beyond
      <4> QED BY <3>2, <4>1 DEF Unread
    <3>6. Ahead'
      <4>1. ASSUME NEW s \in Sender, Busy(s)
            PROVE  \/ n + 1 < sending[s].msg
                   \/ n + 1 = sending[s].msg /\ 0 <= sending[s].offset
        <5> DEFINE q == sending[s].piece
        <5>1. sending[s].msg \in Nat /\ sending[s].offset \in Nat
          BY <1>2 DEF SendingOK
        <5>2. sending[s].msg # n
          <6>1. SUFFICES ASSUME sending[s].msg = n  PROVE FALSE
            OBVIOUS
          <6>2. q \in 2..Len(Pieces(m)) /\ sending[s].offset = Start(q)
            BY <1>2, <4>1, <6>1 DEF SendingOK, m
          <6>3. m \in Msg
            BY <1>4 DEF GoodMsg
          <6> HIDE DEF q
          <6>4. q \in 1..Len(Pieces(m)) /\ Len(Pieces(m)) \in Nat
            BY <6>2, <6>3, PieceBounds
          <6>5. Start(q) + Pieces(m)[q] <= Size(m) /\ Pieces(m)[q] \in Nat /\ Pieces(m)[q] >= 1 /\ Start(q) \in Nat
            BY <6>3, <6>4, PieceBounds
          <6>6. Size(m) <= Start(q)
            BY <1>4, <2>4, <3>3, <4>1, <6>1, <6>2
          <6> QED BY <1>4, <6>5, <6>6
        <5>3. n < sending[s].msg
          BY <2>4, <4>1, <5>2
        <5> QED BY <1>4, <5>1, <5>3
      <4> QED BY <1>1, <3>2, <4>1 DEF Ahead, Busy
    <3>7. HandledOK'
      <4> DEFINE h == [msg |-> n, bytes |-> Size(m)]
      <4>1. handled \in Seq([msg : Nat, bytes : Nat]) /\ h \in [msg : Nat, bytes : Nat]
        BY <1>2, <1>4 DEF HandledOK
      <4>2. h.msg = n /\ h.bytes = Size(sent[n])
        BY DEF m
      <4> HIDE DEF h
      <4>3. /\ handled' = Append(handled, h)
            /\ handled' \in Seq([msg : Nat, bytes : Nat])
            /\ Len(handled) \in Nat /\ DOMAIN handled = 1..Len(handled)
            /\ DOMAIN handled' = 1..Len(handled) + 1
            /\ \A k \in 1..Len(handled) : handled'[k] = handled[k]
            /\ handled'[Len(handled) + 1] = h
        BY <3>1, <4>1, AppendProperties DEF h
      <4>4. \A k \in DOMAIN handled' : (k \in DOMAIN handled /\ handled'[k] = handled[k]) \/ handled'[k] = h
        BY <4>3
      <4>5. \A k \in DOMAIN handled' : handled'[k].msg \in DOMAIN sent
        BY <1>2, <1>4, <4>2, <4>4 DEF HandledOK
      <4>6. \A k \in DOMAIN handled' :
              \/ handled'[k].bytes = Size(sent[handled'[k].msg])
              \/ /\ link = "server_python"
                 /\ \/ sent[handled'[k].msg].payload = 0
                    \/ handled'[k].bytes = HeaderSize(sent[handled'[k].msg])
        BY <1>2, <4>2, <4>4 DEF HandledOK, NothingTorn
      <4>7. NothingTorn'
        BY <1>1, <4>6 DEF NothingTorn
      <4> QED BY <1>1, <4>3, <4>5, <4>7 DEF HandledOK
    <3> QED BY <1>1, <1>3, <1>5, <1>6, <3>4, <3>5, <3>6, <3>7 DEF IInv, StreamOK
  <2> QED BY <2>5, <2>6
<1> QED BY <1>7, <1>8

(* The receiver stops where it is. *)
LEMMA StopKeeps ==
  ASSUME IInv, NEW x \in {"closed", "spinning", "raised"}, Stop(x), HandledOK',
         UNCHANGED <<link, sent, sending, overlap, gone, stream>>
  PROVE  IInv'
<1>1. reader' = [reader EXCEPT !.at = x]
  BY DEF Stop
<1>2. SentOK /\ SendingOK /\ ReaderOK /\ StreamOK
  BY DEF IInv
<1>3. /\ reader'.at = x /\ reader'.msg = reader.msg /\ reader'.read = reader.read
      /\ reader'.offset = reader.offset
  BY <1>1, <1>2 DEF ReaderOK
<1>4. reader' \in [at : {"reading", "lost", "closed", "spinning", "raised"},
                   msg : Nat, read : Nat, offset : Nat]
  BY <1>1, <1>2 DEF ReaderOK
<1>5. ReaderOK'
  BY <1>2, <1>3, <1>4 DEF ReaderOK
<1>6. StreamOK'
  <2>1. Unread' /\ Ahead'
    BY <1>3 DEF Unread, Ahead
  <2> QED BY <1>2, <2>1 DEF StreamOK, Written, Once, Busy
<1>7. SentOK' /\ SendingOK'
  BY <1>2 DEF SentOK, SendingOK, Busy
<1> QED BY <1>5, <1>6, <1>7 DEF IInv

(* Reading at the end of the connection, in C++. *)
LEMMA EndKeeps == IInv /\ End => IInv'
<1> SUFFICES ASSUME IInv, End  PROVE IInv'
  OBVIOUS
<1>1. HandledOK'
  BY HandledKept DEF IInv, End, Grown
<1> QED BY <1>1, StopKeeps DEF End

(* Reading at the end of the connection, in Python. *)
LEMMA PythonEndKeeps == IInv /\ PythonEnd => IInv'
<1> SUFFICES ASSUME IInv, PythonEnd  PROVE IInv'
  OBVIOUS
<1>1. UNCHANGED <<link, sent, sending, overlap, gone, stream>> /\ link = "server_python"
  BY DEF PythonEnd
<1>2. Stop("spinning") \/ Stop("raised")
  BY DEF PythonEnd
<1>3. SentOK /\ ReaderOK /\ HandledOK
  BY DEF IInv
<1>4. CASE handled' = handled
  <2>1. HandledOK'
    BY <1>1, <1>3, <1>4, HandledKept DEF Grown
  <2> QED BY <1>1, <1>2, <2>1, StopKeeps
<1>5. CASE handled' # handled
  <2> DEFINE n == reader.msg
             m == sent[n]
             h == [msg |-> n, bytes |-> reader.offset]
  <2>1. /\ reader.read # 1 /\ (m.payload = 0 \/ reader.read = Len(Reads(n)))
        /\ handled' = Append(handled, h)
    BY <1>5 DEF PythonEnd, Handle
  <2>2. n \in DOMAIN sent /\ GoodMsg(link, n, m) /\ n \in Nat /\ reader.offset \in Nat
    BY <1>3, <2>1 DEF ReaderOK, SentOK
  <2>3. m \in Msg /\ m.depth \in Nat /\ m.payload \in Nat /\ ~Uneven(m)
    BY <1>1, <2>2, LengthAssumption DEF GoodMsg, Msg
  <2>4. m.payload # 0 => reader.offset = HeaderSize(m)
    <3> SUFFICES ASSUME m.payload # 0  PROVE reader.offset = HeaderSize(m)
      OBVIOUS
    <3>1. m.cut = FALSE /\ m.length = m.payload
      BY <2>3, <2>2 DEF Uneven, GoodMsg, Msg
    <3>2. Ending(ReceiveReads(m), 6 + m.depth, m.length)
      BY <2>3, ReceiveReadsAre
    <3>3. Len(ReceiveReads(m)) = 6 + m.depth + 1
      BY <3>1, <3>2 DEF Ending
    <3>4. Reads(n) = ReceiveReads(m)
      BY <1>1 DEF Reads
    <3>5. reader.read = 7 + m.depth
      BY <2>1, <2>3, <3>3, <3>4
    <3>6. reader.offset = Start(reader.read)
      BY <1>1, <1>3 DEF ReaderOK, ReadStart
    <3>7. reader.offset = 13 + 2 * m.depth
      BY <2>3, <3>5, <3>6 DEF Start
    <3> QED BY <2>3, <3>1, <3>7 DEF HeaderSize
  <2>8. /\ h.msg = n /\ h \in [msg : Nat, bytes : Nat]
        /\ sent[n].payload = 0 \/ h.bytes = HeaderSize(sent[n])
    BY <2>2, <2>4
  <2> HIDE DEF h, m
  <2>9. /\ handled' \in Seq([msg : Nat, bytes : Nat])
        /\ Len(handled) \in Nat /\ DOMAIN handled = 1..Len(handled)
        /\ DOMAIN handled' = 1..Len(handled) + 1
        /\ \A k \in 1..Len(handled) : handled'[k] = handled[k]
        /\ handled'[Len(handled) + 1] = h
    <3>1. handled \in Seq([msg : Nat, bytes : Nat])
      BY <1>3 DEF HandledOK
    <3> QED BY <2>1, <2>8, <3>1, AppendProperties
  <2>10. \A k \in DOMAIN handled' : (k \in DOMAIN handled /\ handled'[k] = handled[k]) \/ handled'[k] = h
    BY <2>9
  <2>11. \A k \in DOMAIN handled' :
           /\ handled'[k].msg \in DOMAIN sent
           /\ \/ handled'[k].bytes = Size(sent[handled'[k].msg])
              \/ sent[handled'[k].msg].payload = 0
              \/ handled'[k].bytes = HeaderSize(sent[handled'[k].msg])
    BY <1>1, <1>3, <2>2, <2>8, <2>10 DEF HandledOK, NothingTorn
  <2>12. HandledOK'
    BY <1>1, <2>9, <2>11 DEF HandledOK, NothingTorn
  <2> QED BY <1>1, <1>2, <2>12, StopKeeps
<1> QED BY <1>4, <1>5

(* No step breaks the invariant. *)
LEMMA IInvStep == IInv /\ [Next]_vars => IInv'
<1> SUFFICES ASSUME IInv, [Next]_vars  PROVE IInv'
  OBVIOUS
<1>1. ASSUME NEW s \in Sender, Begin(s)  PROVE IInv'
  BY <1>1, BeginKeeps
<1>2. ASSUME NEW s \in Sender, Continue(s)  PROVE IInv'
  BY <1>2, ContinueKeeps
<1>3. CASE Die
  BY <1>3, DieKeeps
<1>4. CASE Read
  BY <1>4, ReadKeeps
<1>5. CASE End
  BY <1>5, EndKeeps
<1>6. CASE PythonEnd
  BY <1>6, PythonEndKeeps
<1>7. CASE UNCHANGED vars
  <2>1. Grown
    BY <1>7 DEF Grown, vars
  <2> QED BY <1>7 DEF vars, IInv, SentOK, SendingOK, ReaderOK, StreamOK, HandledOK,
                      Written, Once, Unread, Ahead, NothingTorn, Busy
<1> QED BY <1>1, <1>2, <1>3, <1>4, <1>5, <1>6, <1>7 DEF Next, Receiver

LEMMA IInvHolds == Spec => []IInv
<1> QED BY IInvInit, IInvStep, PTL DEF Spec

(* The variables have their types: a thread is within the message it sends, *)
(* the bytes between are bytes of messages, and the receiver never runs     *)
(* past the end of the message it reads, whatever was announced.            *)
THEOREM TypeCorrect == Spec => []TypeOK
<1> QED BY IInvHolds, IInvTypes, PTL

(* No receiver in step hands a torn message to its handler, though in C++   *)
(* only the first and the last read() of a message are checked; Python,     *)
(* which checks none, only a PONG, or one of which but the payload is       *)
(* missing.                                                                 *)
THEOREM NoneTorn == Spec => []NothingTorn
<1>1. IInv => NothingTorn
  BY DEF IInv, HandledOK
<1> QED BY <1>1, IInvHolds, PTL

-----------------------------------------------------------------------------
(* The receiver in step. *)

(* Where nothing is muddled, the lengths of all messages are right. *)
LEMMA AllEven ==
  ASSUME SentOK, ~Muddled, NEW n \in DOMAIN sent
  PROVE  ~Uneven(sent[n])
BY DEF SentOK, GoodMsg, Muddled

(* As far as the message goes that the receiver is in, the stream is what   *)
(* is left of it.                                                           *)
LEMMA StreamIsMessage ==
  ASSUME IInv, Contiguous, FromReader, reader.msg \in DOMAIN sent
  PROVE  \A k \in DOMAIN stream :
           reader.offset + k <= Size(sent[reader.msg]) =>
             stream[k] = <<reader.msg, reader.offset + k>>
<1> DEFINE n == reader.msg
           o == reader.offset
           z == Size(sent[n])
           Bad == {k \in DOMAIN stream : o + k <= z /\ stream[k] # <<n, o + k>>}
<1>1. n \in Nat /\ o \in Nat /\ sent[n] \in Msg
  BY DEF IInv, ReaderOK, SentOK
<1>2. z \in Nat
  BY <1>1, PieceBounds
<1>3. DOMAIN stream = 1..Len(stream) /\ Len(stream) \in Nat
  BY DEF IInv, StreamOK
<1>4. \A k \in DOMAIN stream :
        k < Len(stream) => stream[k+1] = Following(Size(sent[stream[k][1]]), stream[k])
  BY DEF Contiguous
<1>5. 1 \in DOMAIN stream => stream[1] = <<n, o + 1>>
  BY <1>3 DEF FromReader
<1>6. SUFFICES ASSUME Bad # {}  PROVE FALSE
  OBVIOUS
<1> HIDE DEF n, o, z
<1>7. Bad \subseteq Nat
  BY <1>3
<1> HIDE DEF Bad
<1>8. PICK k \in Bad : \A j \in Bad : k <= j
  BY <1>6, <1>7, LeastExists
<1>9. k \in 1..Len(stream) /\ k \in Nat /\ o + k <= z /\ stream[k] # <<n, o + k>> /\ k # 1
  BY <1>3, <1>5, <1>8 DEF Bad
<1> DEFINE j == k - 1
<1>10. j \in DOMAIN stream /\ j < Len(stream) /\ j + 1 = k /\ j \in Nat /\ j < k
  BY <1>3, <1>9
<1> HIDE DEF j
<1>11. j \notin Bad
  BY <1>8, <1>9, <1>10
<1>12. o + j < z /\ o + j <= z /\ o + j + 1 = o + k
  BY <1>1, <1>2, <1>9, <1>10
<1>13. stream[j] = <<n, o + j>>
  BY <1>10, <1>11, <1>12 DEF Bad
<1>14. stream[k] = Following(z, <<n, o + j>>)
  BY <1>4, <1>10, <1>13 DEF z
<1>15. stream[k] = <<n, o + k>>
  BY <1>12, <1>14 DEF Following
<1> QED BY <1>9, <1>15

(* A read() gets its field. *)
LEMMA ReadInStep ==
  ASSUME IInv, Straight, Read, ~Early, ~Hasty, ~Muddled
  PROVE  Whole
<1> DEFINE n == reader.msg
           m == sent[n]
           i == reader.read
           R == ReadsOf(link, n, m)
           o == reader.offset
           z == Size(m)
           L == Len(stream)
<1>1. /\ n \in DOMAIN sent /\ n \in Nat /\ GoodMsg(link, n, m) /\ z \in Nat
      /\ i \in 1..Len(R) /\ Want = R[i] /\ Want \in Nat /\ Want >= 1
      /\ o = ReadStart(link, n, i) /\ o \in Nat /\ o <= z
      /\ L \in Nat /\ DOMAIN stream = 1..L
      /\ Came \in 1..L /\ Came = (IF Want <= L THEN Want ELSE L)
  BY ReadTakes
<1>2. link \in Links /\ SentOK /\ SendingOK
  BY DEF IInv, SentOK
<1>3. Contiguous /\ FromReader /\ ToWriter /\ NewestOnly
  BY ReadTakes DEF Straight, Clean
<1>4. \A k \in DOMAIN stream : o + k <= z => stream[k] = <<n, o + k>>
  BY <1>1, <1>3, StreamIsMessage
<1>5. ~Uneven(m)
  BY <1>1, <1>2, AllEven
<1>6. stream # <<>>
  BY DEF Read
<1>7. AtWriter(stream[L][1], stream[L][2])
  BY <1>3, <1>6 DEF ToWriter
<1>8. Due = Min({Want, z - o})
  BY DEF Due
<1>9. i = 4 /\ n = 1 => /\ link # "server_client"
                        /\ link = "client_server" => \A s \in Sender : sending[s].msg # n
  BY DEF Hasty, Read, Awake
<1> HIDE DEF n, m, i, R, o, z, L
<1>10. o + Want <= z
  BY <1>1, <1>2, <1>5, ReadBounds DEF R, z
<1>11. Due = Want
  <2>1. z - o \in Nat /\ Want <= z - o
    BY <1>1, <1>10
  <2> QED BY <1>1, <1>8, <2>1, MinOfTwo
<1>12. Want <= L
  <2>1. SUFFICES ASSUME L < Want  PROVE FALSE
    BY <1>1
  <2>2. L \in DOMAIN stream /\ o + L < o + Want /\ o + L < z /\ o + L <= z /\ o < o + L
    BY <1>1, <1>10, <2>1
  <2>3. stream[L] = <<n, o + L>>
    BY <1>4, <2>2
  <2>4. AtWriter(n, o + L)
    BY <1>7, <2>3
  <2>5. PICK s \in Sender : Busy(s) /\ n = Len(sent) /\ o + L = sending[s].offset
    <3>1. o + L # Size(sent[n])
      BY <1>1, <2>2 DEF z, m
    <3> QED BY <2>4, <3>1 DEF AtWriter
  <2> DEFINE q == sending[s].piece
  <2>6. sending[s].msg = n
    BY <1>3, <2>5 DEF NewestOnly
  <2>7. q \in 2..Len(Pieces(m)) /\ o + L = Start(q)
    BY <1>2, <2>5, <2>6 DEF SendingOK, m
  <2> HIDE DEF q
  <2>8. i = 4 /\ n = 1 => link \notin {"client_server", "server_client"}
    BY <1>9, <2>6
  <2>11. ~OutOfPlace(link, n, m)
    <3>1. sent # <<>>
      BY <1>1
    <3> QED BY <3>1 DEF Early, OutOfPlace, n, m
  <2>9. Start(q) <= ReadStart(link, n, i) \/ Start(q) >= ReadStart(link, n, i) + R[i]
    BY <1>1, <1>2, <1>5, <2>7, <2>8, <2>11, NoneWithin DEF R
  <2>10. o + L <= o \/ o + L >= o + Want
    BY <1>1, <2>7, <2>9
  <2> QED BY <1>1, <2>2, <2>10
<1>13. Came = Want
  BY <1>1, <1>12
<1> DEFINE b == Bytes(n, o, Want)
<1>14. b \in Seq(Nat \X Nat) /\ Len(b) = Want /\ \A k \in 1..Want : b[k] = <<n, o + k>>
  <2>1. n \in Nat /\ o \in Nat /\ Want \in Nat
    BY <1>1
  <2> QED BY <2>1, BytesAre
<1>15. Got \in Seq(Nat \X Nat) /\ Len(Got) = Want /\ \A k \in 1..Want : Got[k] = stream[k]
  BY <1>13, ReadLeaves
<1>16. \A k \in 1..Want : k \in DOMAIN stream /\ o + k <= z
  BY <1>1, <1>10, <1>12
<1> HIDE DEF b
<1>17. \A k \in 1..Want : Got[k] = b[k]
  BY <1>4, <1>14, <1>15, <1>16
<1>18. Got = b
  BY <1>14, <1>15, <1>17, SeqEqual
<1> QED BY <1>11, <1>18 DEF Whole, b, n, o

(* What is clean after a step was clean before. *)
LEMMA CleanBefore ==
  ASSUME Grown, overlap => overlap', reader'.at = "reading" => reader.at = "reading", Clean'
  PROVE  Clean
<1>1. reader.at = "reading"
  BY DEF Clean
<1>2. ~Muddled
  <2>1. SUFFICES ASSUME Muddled  PROVE FALSE
    OBVIOUS
  <2>2. link' = "python_server"
    BY <2>1 DEF Muddled, Grown
  <2>3. ~overlap' /\ ~ \E k \in DOMAIN sent' : Uneven(sent'[k])
    BY <2>2 DEF Clean, Muddled
  <2>4. PICK k \in DOMAIN sent : Uneven(sent[k])
    BY <2>1, <2>3 DEF Muddled
  <2>5. k \in DOMAIN sent' /\ sent'[k] = sent[k]
    BY DEF Grown
  <2> QED BY <2>3, <2>4, <2>5
<1> QED BY <1>1, <1>2 DEF Clean

(* A write, by the only thread that is in a message, of the piece that      *)
(* comes next. *)
LEMMA WriteInOrder ==
  ASSUME IInv, SentOK', Grown, reader' = reader, Contiguous, FromReader,
         NEW s \in Sender, NEW n \in Nat, n \in DOMAIN sent', n = Len(sent'),
         NEW p \in 1..Len(Pieces(sent'[n])), WritePiece(s, n, sent'[n], p, Start(p)),
         \A t \in Sender \ {s} : ~Busy(t),
         stream # <<>> =>
           Following(Size(sent'[stream[Len(stream)][1]]), stream[Len(stream)]) = <<n, Start(p) + 1>>,
         stream = <<>> => reader.msg = n /\ reader.offset = Start(p)
  PROVE  NewestOnly' /\ Contiguous' /\ FromReader' /\ ToWriter' /\ NoneLeft'
<1> DEFINE m == sent'[n]
           o == Start(p)
           z == Pieces(m)[p]
           L == Len(stream)
<1>1. m \in Msg
  BY DEF SentOK
<1>2. /\ sending \in [Sender -> [msg : Nat, piece : Nat, offset : Nat]]
      /\ stream \in Seq(Nat \X Nat) /\ L \in Nat /\ DOMAIN stream = 1..L
  BY DEF IInv, SendingOK, StreamOK
<1>3. o \in Nat /\ z \in Nat /\ z >= 1 /\ Added(n, o, z)
  BY <1>1, <1>2, PieceWritten
<1>4. /\ \A t \in Sender \ {s} : sending'[t] = sending[t]
      /\ IF p = Len(Pieces(m)) THEN sending'[s] = Idle /\ o + z = Size(m)
         ELSE /\ sending'[s] = [msg |-> n, piece |-> p + 1, offset |-> o + z]
              /\ p + 1 \in 2..Len(Pieces(m))
              /\ o + z <= Size(m)
  BY <1>1, <1>2, PieceWritten
<1>5. /\ L = 0 => n = reader.msg /\ o = reader.offset
      /\ L # 0 => Following(Size(sent'[stream[L][1]]), stream[L]) = <<n, o + 1>>
      /\ stream = <<>> <=> L = 0
  BY <1>2
<1>6. Size(m) \in Nat /\ Len(Pieces(m)) \in Nat
  BY <1>1, PieceBounds
<1> HIDE DEF m, o, z, L
<1>7. /\ Len(stream') = L + z /\ DOMAIN stream' = 1..L + z /\ stream' # <<>>
      /\ \A k \in 1..L : stream'[k] = stream[k]
      /\ \A k \in 1..z : stream'[L + k] = <<n, o + k>>
  <2>1. /\ stream' \in Seq(Nat \X Nat) /\ Len(stream') = L + z
        /\ \A k \in 1..L : stream'[k] = stream[k]
        /\ \A k \in 1..z : stream'[L + k] = <<n, o + k>>
    BY <1>3 DEF Added, L
  <2>2. DOMAIN stream' = 1..L + z
    BY <2>1
  <2>3. stream' # <<>>
    <3>1. L + z # 0
      BY <1>2, <1>3
    <3> QED BY <2>1, <3>1
  <2> QED BY <2>1, <2>2, <2>3
<1>8. \A t \in Sender : Busy(t)' => t = s /\ sending'[s].msg = n /\ sending'[s].offset = o + z
  BY <1>4 DEF Busy
<1>9. NewestOnly'
  BY <1>8 DEF NewestOnly
<1>10. Contiguous'
  <2>1. ASSUME NEW k \in 1..L + z, k < L + z
        PROVE  stream'[k+1] = Following(Size(sent'[stream'[k][1]]), stream'[k])
    <3>1. CASE k < L
      <4>1. k \in 1..L /\ k + 1 \in 1..L /\ k \in DOMAIN stream
        BY <1>2, <1>3, <3>1
      <4>2. stream[k+1] = Following(Size(sent[stream[k][1]]), stream[k])
        BY <3>1, <4>1 DEF Contiguous, L
      <4>3. sent'[stream[k][1]] = sent[stream[k][1]]
        BY <4>1 DEF IInv, StreamOK, Written, Grown
      <4> QED BY <1>7, <4>1, <4>2, <4>3
    <3>2. CASE k = L
      <4>1. L # 0 /\ L \in 1..L /\ 1 \in 1..z
        BY <1>2, <1>3, <3>2
      <4>2. stream'[L] = stream[L] /\ stream'[L+1] = <<n, o + 1>>
        BY <1>7, <4>1
      <4> QED BY <1>5, <3>2, <4>1, <4>2
    <3>3. CASE k > L
      <4> DEFINE j == k - L
      <4>1. j \in 1..z /\ j + 1 \in 1..z /\ k = L + j /\ k + 1 = L + (j + 1) /\ j < z
        BY <1>2, <1>3, <2>1, <3>3
      <4> HIDE DEF j
      <4>2. stream'[k] = <<n, o + j>>
        BY <1>7, <4>1
      <4>3. stream'[k+1] = <<n, o + (j + 1)>>
        BY <1>7, <4>1
      <4>4. o + j < Size(m) /\ o + (j + 1) = o + j + 1
        BY <1>3, <1>4, <1>6, <4>1
      <4> QED BY <4>2, <4>3, <4>4 DEF Following, m
    <3> QED BY <1>2, <1>3, <2>1, <3>1, <3>2, <3>3
  <2> QED BY <1>7, <2>1 DEF Contiguous
<1>11. FromReader'
  <2>1. CASE L = 0
    <3>1. 1 \in 1..z /\ L + 1 = 1
      BY <1>3, <2>1
    <3>2. stream'[1] = <<n, o + 1>>
      BY <1>7, <3>1
    <3> QED BY <1>5, <2>1, <3>2 DEF FromReader
  <2>2. CASE L # 0
    <3>1. 1 \in 1..L
      BY <1>2, <2>2
    <3>2. stream'[1] = stream[1] /\ stream # <<>>
      BY <1>5, <1>7, <2>2, <3>1
    <3> QED BY <3>2 DEF FromReader
  <2> QED BY <2>1, <2>2
<1>12. ToWriter'
  <2>1. z \in 1..z
    BY <1>3
  <2>2. stream'[Len(stream')] = <<n, o + z>>
    BY <1>7, <2>1
  <2>3. CASE p = Len(Pieces(m))
    <3>1. sending'[s] = Idle /\ o + z = Size(m)
      BY <1>4, <2>3
    <3>2. \A t \in Sender : sending'[t] = Idle
      BY <1>4, <3>1 DEF Busy
    <3>3. n > 0
      <4>1. Len(sent') \in Nat /\ DOMAIN sent' = 1..Len(sent')
        BY DEF SentOK
      <4> QED BY <4>1
    <3> QED BY <2>2, <3>1, <3>2, <3>3 DEF ToWriter, AtWriter, Busy, m
  <2>4. CASE p # Len(Pieces(m))
    <3>1. sending'[s] = [msg |-> n, piece |-> p + 1, offset |-> o + z] /\ p + 1 \in 2..Len(Pieces(m))
      BY <1>4, <2>4
    <3>2. sending'[s] # Idle
      <4>1. sending'[s].piece # 0
        BY <3>1
      <4> QED BY <4>1 DEF Idle
    <3>3. sending'[s].offset = o + z
      BY <3>1
    <3> QED BY <2>2, <3>2, <3>3 DEF ToWriter, AtWriter, Busy
  <2> QED BY <2>3, <2>4
<1>13. NoneLeft'
  BY <1>7 DEF NoneLeft
<1> QED BY <1>9, <1>10, <1>11, <1>12, <1>13

LEMMA BeginInOrder ==
  ASSUME IInv, Straight, NEW s \in Sender, Begin(s)
  PROVE  Straight'
<1> SUFFICES ASSUME Clean'
             PROVE  NewestOnly' /\ Contiguous' /\ FromReader' /\ ToWriter' /\ NoneLeft'
  BY DEF Straight
<1>1. PICK m \in NextMessages(s) : sent' = Append(sent, m) /\ WritePiece(s, Len(sent'), m, 1, 0)
  BY DEF Begin
<1>2. /\ link' = link /\ reader' = reader /\ ~gone
      /\ overlap' = (overlap \/ \E t \in Sender : Busy(t))
  BY DEF Begin, Running
<1>3. SentOK /\ StreamOK
  BY DEF IInv
<1>4. GoodMsg(link, Len(sent) + 1, m)
  BY <1>3, NextGood
<1> DEFINE n == Len(sent')
<1>5. /\ SentOK' /\ Grown /\ Len(sent) \in Nat /\ n = Len(sent) + 1
      /\ DOMAIN sent = 1..Len(sent) /\ DOMAIN sent' = 1..n /\ sent'[n] = m
  BY <1>1, <1>2, <1>3, <1>4, SentGrows
<1>6. Clean
  BY <1>2, <1>5, CleanBefore
<1>7. NewestOnly /\ Contiguous /\ FromReader /\ ToWriter /\ NoneLeft
  BY <1>6 DEF Straight
<1>8. \A t \in Sender : ~Busy(t)
  <2>1. CASE link = "python_server"
    <3>1. ~overlap'
      BY <1>2, <2>1 DEF Clean, Muddled
    <3> QED BY <1>2, <3>1
  <2>2. CASE link # "python_server"
    BY <2>2 DEF Begin, MayBegin
  <2> QED BY <2>1, <2>2
<1>9. m \in Msg /\ Start(1) = 0
  BY <1>4 DEF GoodMsg, Start
<1>10. 1 \in 1..Len(Pieces(m))
  BY <1>9, PieceBounds
<1> HIDE DEF n
<1>11. n \in Nat /\ n \in DOMAIN sent' /\ n = Len(sent')
  BY <1>5 DEF n
<1>12. WritePiece(s, n, sent'[n], 1, Start(1)) /\ 1 \in 1..Len(Pieces(sent'[n]))
  BY <1>1, <1>5, <1>9, <1>10 DEF n
<1>13. ASSUME stream # <<>>
       PROVE  Following(Size(sent'[stream[Len(stream)][1]]), stream[Len(stream)]) = <<n, Start(1) + 1>>
  <2> DEFINE b == stream[Len(stream)]
  <2>1. b[1] = Len(sent) /\ b[2] = Size(sent[b[1]]) /\ b[1] > 0
    BY <1>7, <1>8, <1>13 DEF ToWriter, AtWriter
  <2>2. b[1] \in DOMAIN sent
    BY <1>5, <2>1
  <2>3. sent'[b[1]] = sent[b[1]] /\ sent[b[1]] \in Msg
    BY <1>3, <1>5, <2>2 DEF Grown, SentOK
  <2>4. b[2] \in Nat
    BY <2>1, <2>3, PieceBounds
  <2> HIDE DEF b
  <2>5. Following(Size(sent'[b[1]]), b) = <<b[1] + 1, 1>>
    BY <2>1, <2>3, <2>4 DEF Following
  <2>6. <<b[1] + 1, 1>> = <<n, Start(1) + 1>>
    BY <1>5, <1>9, <2>1
  <2> QED BY <2>5, <2>6 DEF b
<1>14. stream = <<>> => reader.msg = n /\ reader.offset = Start(1)
  BY <1>2, <1>5, <1>7, <1>8, <1>9 DEF NoneLeft
<1> QED BY <1>2, <1>5, <1>7, <1>8, <1>11, <1>12, <1>13, <1>14, WriteInOrder

LEMMA ContinueInOrder ==
  ASSUME IInv, Straight, NEW s \in Sender, Continue(s)
  PROVE  Straight'
<1> SUFFICES ASSUME Clean'
             PROVE  NewestOnly' /\ Contiguous' /\ FromReader' /\ ToWriter' /\ NoneLeft'
  BY DEF Straight
<1> DEFINE n == sending[s].msg
           p == sending[s].piece
<1>1. SentOK /\ SendingOK /\ StreamOK
  BY DEF IInv
<1>2. /\ link' = link /\ sent' = sent /\ reader' = reader /\ overlap' = overlap /\ ~gone /\ Busy(s)
  BY DEF Continue, Running
<1>3. SentOK' /\ Grown
  BY <1>1, <1>2 DEF SentOK, Grown
<1>4. Clean
  BY <1>2, <1>3, CleanBefore
<1>5. NewestOnly /\ Contiguous /\ FromReader /\ ToWriter /\ NoneLeft
  BY <1>4 DEF Straight
<1>6. /\ n \in DOMAIN sent /\ p \in 2..Len(Pieces(sent[n])) /\ sending[s].offset = Start(p)
      /\ \A t \in Sender : Busy(t) /\ sending[t].msg = n => t = s
  BY <1>1, <1>2 DEF SendingOK
<1>7. n = Len(sent)
  BY <1>2, <1>5 DEF NewestOnly
<1>8. \A t \in Sender : Busy(t) => t = s
  BY <1>5, <1>6, <1>7 DEF NewestOnly
<1>9. WritePiece(s, n, sent'[n], p, Start(p))
  BY <1>2, <1>6 DEF Continue
<1>10. n \in Nat /\ n \in DOMAIN sent' /\ n = Len(sent') /\ p \in 1..Len(Pieces(sent'[n]))
  BY <1>1, <1>2, <1>6, <1>7 DEF SentOK
<1>11. \A a, b : AtWriter(a, b) => a = n /\ b = Start(p)
  BY <1>2, <1>6, <1>7, <1>8 DEF AtWriter
<1>12. Start(p) \in Nat /\ Start(p) < Size(sent[n]) /\ Size(sent[n]) \in Nat
  <2>1. sent[n] \in Msg
    BY <1>1, <1>6 DEF SentOK
  <2>2. p \in 1..Len(Pieces(sent[n]))
    BY <1>2, <1>10
  <2> HIDE DEF p
  <2>3. /\ Size(sent[n]) \in Nat /\ Start(p) \in Nat
        /\ Pieces(sent[n])[p] \in Nat /\ Pieces(sent[n])[p] >= 1
        /\ Start(p) + Pieces(sent[n])[p] <= Size(sent[n])
    BY <2>1, <2>2, PieceBounds
  <2> QED BY <2>3
<1> HIDE DEF n, p
<1>13. ASSUME stream # <<>>
       PROVE  Following(Size(sent'[stream[Len(stream)][1]]), stream[Len(stream)]) = <<n, Start(p) + 1>>
  <2> DEFINE b == stream[Len(stream)]
  <2>1. b[1] = n /\ b[2] = Start(p)
    BY <1>5, <1>11, <1>13 DEF ToWriter
  <2> HIDE DEF b
  <2>2. Following(Size(sent'[b[1]]), b) = <<n, Start(p) + 1>>
    BY <1>2, <1>12, <2>1 DEF Following
  <2> QED BY <2>2 DEF b
<1>14. stream = <<>> => reader.msg = n /\ reader.offset = Start(p)
  BY <1>2, <1>5, <1>11 DEF NoneLeft
<1> QED BY <1>2, <1>3, <1>5, <1>8, <1>9, <1>10, <1>13, <1>14, WriteInOrder

LEMMA DieInOrder == IInv /\ Straight /\ Die => Straight'
<1> SUFFICES ASSUME IInv, Straight, Die, Clean'
             PROVE  NewestOnly' /\ Contiguous' /\ FromReader' /\ ToWriter' /\ NoneLeft'
  BY DEF Straight
<1>1. /\ link' = link /\ sent' = sent /\ sending' = sending /\ reader' = reader
      /\ overlap' = overlap /\ gone' = TRUE /\ stream' \in {stream, <<>>}
  BY DEF Die
<1>2. Clean
  BY <1>1, CleanBefore DEF Grown
<1>3. NewestOnly /\ Contiguous /\ FromReader /\ ToWriter
  BY <1>2 DEF Straight
<1>4. NewestOnly' /\ NoneLeft'
  BY <1>1, <1>3 DEF NewestOnly, NoneLeft, Busy
<1>5. CASE stream' = stream
  BY <1>1, <1>3, <1>4, <1>5 DEF Contiguous, FromReader, ToWriter, AtWriter, Busy
<1>6. CASE stream' = <<>>
  BY <1>1, <1>4, <1>6 DEF Contiguous, FromReader, ToWriter
<1> QED BY <1>1, <1>5, <1>6

LEMMA ReadInOrder == IInv /\ Straight /\ Read => Straight'
<1> SUFFICES ASSUME IInv, Straight, Read, Clean'
             PROVE  NewestOnly' /\ Contiguous' /\ FromReader' /\ ToWriter' /\ NoneLeft'
  BY DEF Straight
<1> DEFINE n == reader.msg
           m == sent[n]
           i == reader.read
           R == ReadsOf(link, n, m)
           o == reader.offset
           z == Size(m)
           c == Came
           L == Len(stream)
<1>1. /\ link' = link /\ sent' = sent /\ sending' = sending /\ overlap' = overlap /\ gone' = gone
      /\ stream # <<>>
  BY DEF Read
<1>2. SentOK /\ SendingOK /\ ReaderOK /\ StreamOK
  BY DEF IInv
<1>3. /\ reader.at = "reading" /\ n \in DOMAIN sent /\ n \in Nat /\ z \in Nat /\ GoodMsg(link, n, m)
      /\ i \in 1..Len(R) /\ o = ReadStart(link, n, i) /\ o \in Nat
      /\ L \in Nat /\ DOMAIN stream = 1..L /\ c \in 1..L
  BY ReadTakes
<1>4. Whole
  <2>1. SUFFICES ASSUME ~Whole  PROVE FALSE
    OBVIOUS
  <2>2. reader'.at = "lost"
    BY <1>2, <2>1, ReadLost DEF ReaderOK
  <2> QED BY <2>2 DEF Clean
<1>5. Clean
  BY <1>1, <1>3, CleanBefore DEF Grown
<1>6. NewestOnly /\ Contiguous /\ FromReader /\ ToWriter
  BY <1>5 DEF Straight
<1>7. ~Uneven(m)
  BY <1>2, <1>3, <1>5, AllEven DEF Clean
<1>8. /\ \A k \in 1..c : stream[k] = <<n, o + k>>
      /\ o + c = IF i = Len(R) THEN z ELSE ReadStart(link, n, i + 1)
      /\ i # Len(R) => i + 1 \in 1..Len(R)
      /\ reader' = IF i = Len(R) THEN [reader EXCEPT !.msg = n + 1, !.read = 1, !.offset = 0]
                   ELSE [reader EXCEPT !.read = i + 1, !.offset = o + c]
  BY <1>4, ReadWhole
<1>9. IF i = Len(R) THEN reader'.msg = n + 1 /\ reader'.offset = 0
      ELSE reader'.msg = n /\ reader'.offset = o + c
  BY <1>2, <1>8 DEF ReaderOK
<1>10. /\ Len(stream') = L - c /\ DOMAIN stream' = 1..Len(stream')
       /\ stream' \in Seq(Nat \X Nat)
       /\ \A k \in DOMAIN stream' : k + c \in DOMAIN stream /\ stream'[k] = stream[k + c]
  BY ReadLeaves
<1> HIDE DEF m, R, z, c, L
<1>11. i # Len(R) => o + c < z
  <2> SUFFICES ASSUME i # Len(R)  PROVE o + c < z
    OBVIOUS
  <2> DEFINE j == i + 1
  <2>1. j \in 1..Len(R) /\ o + c = ReadStart(link, n, j)
    BY <1>8
  <2>2. link \in Links
    BY <1>2 DEF SentOK
  <2> HIDE DEF j
  <2>3. R[j] \in Nat /\ R[j] >= 1 /\ ReadStart(link, n, j) \in Nat /\ ReadStart(link, n, j) + R[j] <= z
    BY <1>3, <1>7, <2>1, <2>2, ReadBounds DEF R, z
  <2> QED BY <1>3, <2>1, <2>3
<1>12. c \in Nat /\ c >= 1 /\ c \in DOMAIN stream /\ stream[c] = <<n, o + c>>
  BY <1>3, <1>8
<1>13. NewestOnly'
  BY <1>1, <1>6 DEF NewestOnly, Busy
<1>14. Contiguous'
  <2>1. ASSUME NEW k \in DOMAIN stream', k < Len(stream')
        PROVE  stream'[k+1] = Following(Size(sent[stream'[k][1]]), stream'[k])
    <3> DEFINE D == Len(stream')
    <3>3. D = L - c /\ k \in 1..D /\ k < D /\ DOMAIN stream' = 1..D
      BY <1>10, <2>1
    <3> HIDE DEF D
    <3>4. D \in Nat /\ k \in Nat
      BY <1>3, <1>12, <3>3
    <3>5. k + 1 \in DOMAIN stream'
      BY <3>3, <3>4
    <3>6. (k + 1) + c = (k + c) + 1 /\ k + c < L
      BY <1>3, <1>12, <3>3, <3>4
    <3>1. k \in Nat /\ k + 1 \in DOMAIN stream' /\ (k + 1) + c = (k + c) + 1 /\ k + c < L
      BY <3>4, <3>5, <3>6
    <3>2. k + c \in DOMAIN stream /\ stream'[k] = stream[k + c] /\ stream'[k + 1] = stream[(k + c) + 1]
      BY <1>10, <3>1
    <3> QED BY <1>6, <3>1, <3>2 DEF Contiguous, L
  <2> QED BY <1>1, <2>1 DEF Contiguous
<1>15. FromReader'
  <2> SUFFICES ASSUME stream' # <<>>  PROVE stream'[1] = <<reader'.msg, reader'.offset + 1>>
    BY DEF FromReader
  <2>1. 1 \in DOMAIN stream' /\ c < L
    <3>1. Len(stream') # 0
      BY <1>10
    <3>2. Len(stream') \in Nat
      BY <1>10
    <3> QED BY <1>3, <1>10, <1>12, <3>1, <3>2
  <2>2. stream'[1] = stream[c + 1]
    <3>1. stream'[1] = stream[1 + c]
      BY <1>10, <2>1
    <3>2. 1 + c = c + 1
      BY <1>12
    <3> QED BY <3>1, <3>2
  <2>3. stream[c + 1] = Following(z, <<n, o + c>>)
    BY <1>6, <1>12, <2>1 DEF Contiguous, L, z, m
  <2>4. CASE i = Len(R)
    <3>1. o + c = z
      BY <1>8, <2>4
    <3>2. Following(z, <<n, o + c>>) = <<n + 1, 1>>
      BY <1>3, <3>1 DEF Following
    <3> QED BY <1>9, <2>2, <2>3, <2>4, <3>2
  <2>5. CASE i # Len(R)
    <3>1. Following(z, <<n, o + c>>) = <<n, o + c + 1>>
      BY <1>11, <2>5 DEF Following
    <3> QED BY <1>9, <2>2, <2>3, <2>5, <3>1
  <2> QED BY <2>4, <2>5
<1>16. ToWriter'
  <2> SUFFICES ASSUME stream' # <<>>
               PROVE  AtWriter(stream[Len(stream)][1], stream[Len(stream)][2])'
    BY DEF ToWriter
  <2>1. Len(stream') \in DOMAIN stream'
    <3>1. Len(stream') # 0 /\ Len(stream') \in Nat
      BY <1>10
    <3> QED BY <1>10, <3>1
  <2>2. stream'[Len(stream')] = stream[L]
    <3>1. Len(stream') + c = L
      BY <1>3, <1>10, <1>12
    <3> QED BY <1>10, <2>1, <3>1
  <2>3. AtWriter(stream[L][1], stream[L][2])
    BY <1>1, <1>6 DEF ToWriter, L
  <2> QED BY <1>1, <2>2, <2>3 DEF AtWriter, Busy
<1>17. NoneLeft'
  <2> SUFFICES ASSUME stream' = <<>>
               PROVE  IF \A s \in Sender : ~Busy(s)' THEN reader'.msg = Len(sent') + 1 /\ reader'.offset = 0
                      ELSE AtWriter(reader.msg, reader.offset)'
    BY DEF NoneLeft
  <2>1. c = L
    <3>1. Len(stream') = 0
      OBVIOUS
    <3> QED BY <1>3, <1>10, <1>12, <3>1
  <2>2. AtWriter(n, o + c)
    <3>1. AtWriter(stream[L][1], stream[L][2])
      BY <1>1, <1>6 DEF ToWriter, L
    <3> QED BY <1>12, <2>1, <3>1
  <2>3. CASE \A s \in Sender : ~Busy(s)
    <3>1. n = Len(sent) /\ o + c = z
      BY <2>2, <2>3 DEF AtWriter, z, m
    <3>2. i = Len(R)
      BY <1>3, <1>11, <3>1
    <3> QED BY <1>1, <1>9, <2>3, <3>1, <3>2 DEF Busy
  <2>4. CASE ~ \A s \in Sender : ~Busy(s)
    <3>1. PICK s \in Sender : Busy(s) /\ n = Len(sent) /\ o + c = sending[s].offset
      BY <2>2, <2>4 DEF AtWriter
    <3>2. i # Len(R)
      <4>1. SUFFICES ASSUME o + c = z  PROVE FALSE
        BY <1>8
      <4> DEFINE q == sending[s].piece
      <4>2. sending[s].msg = n
        BY <1>6, <3>1 DEF NewestOnly
      <4>3. q \in 2..Len(Pieces(m)) /\ sending[s].offset = Start(q)
        BY <1>2, <3>1, <4>2 DEF SendingOK, m
      <4>4. m \in Msg
        BY <1>3 DEF GoodMsg
      <4> HIDE DEF q
      <4>5. q \in 1..Len(Pieces(m)) /\ Len(Pieces(m)) \in Nat
        BY <4>3, <4>4, PieceBounds
      <4>6. Start(q) + Pieces(m)[q] <= z /\ Pieces(m)[q] \in Nat /\ Pieces(m)[q] >= 1 /\ Start(q) \in Nat
        BY <4>4, <4>5, PieceBounds DEF z
      <4> QED BY <1>3, <3>1, <4>1, <4>3, <4>6
    <3>3. reader'.msg = n /\ reader'.offset = o + c
      BY <1>9, <3>2
    <3> QED BY <1>1, <2>4, <3>1, <3>3 DEF AtWriter, Busy
  <2> QED BY <2>3, <2>4
<1> QED BY <1>13, <1>14, <1>15, <1>16, <1>17

(* No step breaks the order of the stream. *)
LEMMA StraightStep == IInv /\ Straight /\ [Next]_vars => Straight'
<1> SUFFICES ASSUME IInv, Straight, [Next]_vars  PROVE Straight'
  OBVIOUS
<1>1. ASSUME NEW s \in Sender, Begin(s)  PROVE Straight'
  BY <1>1, BeginInOrder
<1>2. ASSUME NEW s \in Sender, Continue(s)  PROVE Straight'
  BY <1>2, ContinueInOrder
<1>3. CASE Die
  BY <1>3, DieInOrder
<1>4. CASE Read
  BY <1>4, ReadInOrder
<1>5. CASE End \/ PythonEnd
  <2>1. Stop("closed") \/ Stop("spinning") \/ Stop("raised")
    BY <1>5 DEF End, PythonEnd
  <2>2. reader'.at # "reading"
    BY <2>1 DEF Stop, IInv, ReaderOK
  <2> QED BY <2>2 DEF Straight, Clean
<1>6. CASE UNCHANGED vars
  BY <1>6 DEF vars, Straight, Clean, Muddled, NewestOnly, Contiguous, FromReader, ToWriter,
              NoneLeft, AtWriter, Busy
<1> QED BY <1>1, <1>2, <1>3, <1>4, <1>5, <1>6 DEF Next, Receiver

LEMMA StraightInit == Init => Straight
<1> SUFFICES ASSUME Init  PROVE Straight
  OBVIOUS
<1>1. \A s \in Sender : ~Busy(s)
  BY DEF Init, Busy
<1>2. sent = <<>> /\ stream = <<>> /\ reader.msg = 1 /\ reader.offset = 0 /\ DOMAIN stream = {}
  BY DEF Init
<1>3. reader.msg = Len(sent) + 1
  BY <1>2
<1> QED BY <1>1, <1>2, <1>3 DEF Straight, NewestOnly, Contiguous, FromReader, ToWriter, NoneLeft

(* A receiver that loses its place does so where the model says it may. *)
LEMMA InStepStep == IInv /\ Straight /\ InStep /\ [Next]_vars => InStep'
<1> SUFFICES ASSUME IInv, Straight, InStep, [Next]_vars, reader'.at = "lost"
             PROVE  (Early \/ Hasty \/ Muddled)'
  BY DEF InStep
<1>2. CASE \E s \in Sender : Begin(s) \/ Continue(s)
  BY <1>2 DEF Begin, Continue, Running
<1>3. CASE Die
  BY <1>3 DEF Die, Running
<1>4. CASE Read
  <2>1. ~Whole
    <3>1. SUFFICES ASSUME Whole  PROVE FALSE
      OBVIOUS
    <3>2. reader'.at = reader.at /\ reader.at = "reading"
      <4>1. reader.at = "reading"
        BY <1>4, ReadTakes
      <4>2. \/ reader' = [reader EXCEPT !.msg = reader.msg + 1, !.read = 1, !.offset = 0]
            \/ reader' = [reader EXCEPT !.read = reader.read + 1, !.offset = reader.offset + Came]
        BY <1>4, <3>1, ReadWhole
      <4> QED BY <4>1, <4>2 DEF IInv, ReaderOK
    <3> QED BY <3>2
  <2>2. Early \/ Hasty \/ Muddled
    BY <1>4, <2>1, ReadInStep
  <2>3. /\ reader'.msg = reader.msg /\ reader'.read = reader.read
        /\ link' = link /\ gone' = gone /\ overlap' = overlap /\ sent' = sent
    BY <1>4, <2>1, ReadLost DEF Read, IInv, ReaderOK
  <2> QED BY <2>2, <2>3 DEF Early, Hasty, Muddled
<1>5. CASE End \/ PythonEnd
  <2>1. Stop("closed") \/ Stop("spinning") \/ Stop("raised")
    BY <1>5 DEF End, PythonEnd
  <2>2. reader'.at # "lost"
    BY <2>1 DEF Stop, IInv, ReaderOK
  <2> QED BY <2>2
<1>6. CASE UNCHANGED vars
  <2>1. Early \/ Hasty \/ Muddled
    BY <1>6 DEF InStep, vars
  <2> QED BY <1>6, <2>1 DEF vars, Early, Hasty, Muddled
<1> QED BY <1>2, <1>3, <1>4, <1>5, <1>6 DEF Next, Receiver

(* Every read() of every receiver gets its field, whole and of one message, *)
(* unless an operation comes before the answer to a client, the client      *)
(* reads that answer before it has come, a client dies within its first     *)
(* message, or Python sends out of turn or out of length.                   *)
THEOREM ReadersInStep == Spec => []InStep
<1>1. Init => InStep
  BY DEF Init, InStep
<1> QED BY <1>1, IInvInit, IInvStep, StraightInit, StraightStep, InStepStep, PTL DEF Spec
=============================================================================
