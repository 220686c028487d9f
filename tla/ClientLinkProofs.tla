--------------------------- MODULE ClientLinkProofs ---------------------------
(****************************************************************************)
(* Theorems about ClientLink, for any descriptors and any number of losses. *)
(****************************************************************************)
EXTENDS ClientLink, WellFoundedInduction, TLAPS

(* The flag is what keeps the two threads apart: it is set when the receive *)
(* thread starts and is cleared last in it, and main() connects only while  *)
(* it is not set.                                                           *)
FlagOK ==
  /\ receiver # "none" => /\ session_connected
                          /\ main \in {"registering", "sensing", "sending", "killed"}
  /\ session_connected => receiver # "none" \/ main = "accepted"
  /\ main = "accepted" => session_connected
  /\ main \in {"offline", "requesting", "awaiting"} => ~session_connected

IInv == TypeOK /\ FlagOK /\ SocketKept

-----------------------------------------------------------------------------

(* The lowest free descriptor, which socket() and open() return, is free. *)
LEMMA LowestIsFree ==
  ASSUME FreeFd # {}
  PROVE  Min(FreeFd) \in FreeFd /\ Min(FreeFd) \in Fd /\ Min(FreeFd) # None
<1> DEFINE Less == {p \in Nat \X Nat : p[1] < p[2]}
<1>1. FreeFd \subseteq Nat
  BY FdAssumption DEF FreeFd
<1>2. IsWellFoundedOn(Less, Nat)
  BY NatLessThanWellFounded DEF OpToRel
<1>3. PICK x \in FreeFd : \A y \in FreeFd : <<y, x>> \notin Less
  <2> HIDE DEF Less
  <2> QED BY <1>1, <1>2, WFMin
<1>4. \A y \in FreeFd : x <= y
  <2> TAKE y \in FreeFd
  <2>1. x \in Nat /\ y \in Nat
    BY <1>1
  <2>2. y < x => <<y, x>> \in Less
    BY <2>1
  <2> QED BY <2>1, <2>2, <1>3
<1> QED BY <1>4, FdAssumption DEF Min, FreeFd

(* A step of the server keeps IInv: it touches the connection only by       *)
(* turning it from open to gone.                                            *)
LEMMA ServerIInv == ASSUME IInv, Server PROVE IInv'
<1> USE DEF IInv
<1>1. CASE Start
  BY <1>1 DEF Start, TypeOK, FlagOK, SocketKept, Socket
<1>2. CASE Stop
  <2>1. TypeOK'
    BY <1>2, LossesAssumption DEF Stop, Lose, TypeOK, Files
  <2>2. FlagOK'
    BY <1>2 DEF Stop, FlagOK
  <2>3. SocketKept'
    BY <1>2 DEF Stop, TypeOK, SocketKept, Socket
  <2> QED BY <2>1, <2>2, <2>3
<1>3. CASE Drop
  <2>1. TypeOK'
    BY <1>3, LossesAssumption DEF Drop, Lose, TypeOK, Files
  <2>2. FlagOK'
    BY <1>3 DEF Drop, FlagOK
  <2>3. SocketKept'
    BY <1>3 DEF Drop, TypeOK, SocketKept, Socket
  <2> QED BY <2>1, <2>2, <2>3
<1>4. CASE Answer
  <2>1. answer' \in Answers
    BY <1>4 DEF Answer, Answers
  <2> QED BY <1>4, <2>1 DEF Answer, TypeOK, FlagOK, SocketKept, Socket
<1> QED BY <1>1, <1>2, <1>3, <1>4 DEF Server

(* A step of main() keeps IInv: it connects only when no receive thread     *)
(* lives, and a thread it starts has the flag set and an open connection.   *)
LEMMA MainIInv == ASSUME IInv, Main PROVE IInv'
<1> USE DEF IInv, serverVars
<1>1. CASE ConnectFails
  <2>1. TypeOK'
    BY <1>1, LowestIsFree DEF ConnectFails, TypeOK, Files
  <2>2. FlagOK' /\ SocketKept'
    BY <1>1 DEF ConnectFails, FlagOK, SocketKept
  <2> QED BY <2>1, <2>2
<1>2. CASE Connect
  <2>1. TypeOK'
    BY <1>2, LowestIsFree DEF Connect, TypeOK, Files, MainStages
  <2>2. FlagOK'
    BY <1>2 DEF Connect, FlagOK
  <2>3. SocketKept'
    BY <1>2, LowestIsFree DEF Connect, TypeOK, SocketKept, Socket
  <2> QED BY <2>1, <2>2, <2>3
<1>3. CASE NoSocket
  BY <1>3 DEF NoSocket, TypeOK, MainStages, FlagOK, SocketKept
<1>4. CASE Request
  <2>1. TypeOK'
    BY <1>4 DEF Request, Send, TypeOK, MainStages, ReceiverStages, FlagOK
  <2>2. FlagOK'
    BY <1>4 DEF Request, Send, FlagOK
  <2>3. SocketKept'
    BY <1>4 DEF Request, Send, FlagOK, SocketKept, Socket
  <2> QED BY <2>1, <2>2, <2>3
<1>5. CASE ReadAnswer
  <2>1. TypeOK'
    BY <1>5 DEF ReadAnswer, Returns, Registered, TypeOK, MainStages, ReceiverStages, FlagOK
  <2>2. FlagOK'
    BY <1>5 DEF ReadAnswer, Returns, Registered, FlagOK
  <2>3. SocketKept'
    BY <1>5 DEF ReadAnswer, Returns, Registered, FlagOK, SocketKept, Socket
  <2> QED BY <2>1, <2>2, <2>3
<1>6. CASE ReadNothing
  <2>1. TypeOK'
    BY <1>6 DEF ReadNothing, Returns, Registered, TypeOK, MainStages, ReceiverStages, FlagOK
  <2>2. FlagOK'
    BY <1>6 DEF ReadNothing, Returns, Registered, FlagOK
  <2>3. SocketKept'
    BY <1>6 DEF ReadNothing, Returns, Registered, FlagOK, SocketKept, Socket
  <2> QED BY <2>1, <2>2, <2>3
<1>7. CASE StartReceiver
  <2>1. TypeOK'
    BY <1>7 DEF StartReceiver, TypeOK, MainStages, ReceiverStages, FlagOK
  <2>2. FlagOK'
    BY <1>7 DEF StartReceiver, FlagOK
  <2>3. SocketKept'
    BY <1>7 DEF StartReceiver, FlagOK, SocketKept, Socket
  <2> QED BY <2>1, <2>2, <2>3
<1>8. CASE RegisterDevices
  <2>1. TypeOK'
    BY <1>8 DEF RegisterDevices, Send, TypeOK, MainStages, ReceiverStages, FlagOK
  <2>2. FlagOK'
    BY <1>8 DEF RegisterDevices, Send, FlagOK
  <2>3. SocketKept'
    BY <1>8 DEF RegisterDevices, Send, FlagOK, SocketKept, Socket
  <2> QED BY <2>1, <2>2, <2>3
<1>9. CASE Sense
  <2>1. TypeOK'
    BY <1>9 DEF Sense, TypeOK, MainStages, ReceiverStages, FlagOK
  <2>2. FlagOK'
    BY <1>9 DEF Sense, FlagOK
  <2>3. SocketKept'
    BY <1>9 DEF Sense, FlagOK, SocketKept, Socket
  <2> QED BY <2>1, <2>2, <2>3
<1>10. CASE SendData
  <2>1. TypeOK'
    BY <1>10 DEF SendData, Send, TypeOK, MainStages, ReceiverStages, FlagOK
  <2>2. FlagOK'
    BY <1>10 DEF SendData, Send, FlagOK
  <2>3. SocketKept'
    BY <1>10 DEF SendData, Send, FlagOK, SocketKept, Socket
  <2> QED BY <2>1, <2>2, <2>3
<1> QED BY <1>1, <1>2, <1>3, <1>4, <1>5, <1>6, <1>7, <1>8, <1>9, <1>10 DEF Main

(* A step of the receive thread keeps IInv: while the thread lives main()   *)
(* is past its registration, so the close() takes nothing from it.          *)
LEMMA ReceiverIInv == ASSUME IInv, Receiver PROVE IInv'
<1> USE DEF IInv, serverVars
<1>1. CASE HangUp
  <2>1. TypeOK'
    BY <1>1 DEF HangUp, TypeOK, Files, ReceiverStages
  <2>2. FlagOK'
    BY <1>1 DEF HangUp, FlagOK
  <2>3. SocketKept'
    BY <1>1 DEF HangUp, FlagOK, SocketKept
  <2> QED BY <2>1, <2>2, <2>3
<1>2. CASE CloseSocket
  <2>1. TypeOK'
    BY <1>2 DEF CloseSocket, TypeOK, Files, ReceiverStages
  <2>2. FlagOK'
    BY <1>2 DEF CloseSocket, FlagOK
  <2>3. SocketKept'
    BY <1>2 DEF CloseSocket, FlagOK, SocketKept
  <2> QED BY <2>1, <2>2, <2>3
<1>3. CASE OpenLog
  <2>1. TypeOK'
    BY <1>3, LowestIsFree DEF OpenLog, TypeOK, Files, ReceiverStages
  <2>2. FlagOK'
    BY <1>3 DEF OpenLog, FlagOK
  <2>3. SocketKept'
    BY <1>3 DEF OpenLog, FlagOK, SocketKept
  <2> QED BY <2>1, <2>2, <2>3
<1>4. CASE CloseLog
  <2>1. TypeOK'
    BY <1>4 DEF CloseLog, TypeOK, Files, ReceiverStages
  <2>2. FlagOK'
    BY <1>4 DEF CloseLog, FlagOK
  <2>3. SocketKept'
    BY <1>4 DEF CloseLog, FlagOK, SocketKept
  <2> QED BY <2>1, <2>2, <2>3
<1>5. CASE Clear
  <2>1. TypeOK'
    BY <1>5 DEF Clear, TypeOK, Files, ReceiverStages
  <2>2. FlagOK'
    BY <1>5 DEF Clear, FlagOK
  <2>3. SocketKept'
    BY <1>5 DEF Clear, FlagOK, SocketKept
  <2> QED BY <2>1, <2>2, <2>3
<1> QED BY <1>1, <1>2, <1>3, <1>4, <1>5 DEF Receiver

(* IInv holds initially and every step keeps it. *)
LEMMA Inductive == Spec => []IInv
<1>1. Init => IInv
  <2> SUFFICES ASSUME Init PROVE IInv
    OBVIOUS
  <2>1. TypeOK
    <3>1. losses \in 0..MaxLosses
      BY LossesAssumption DEF Init
    <3>2. file \in [Fd -> Files]
      BY DEF Init, Files
    <3>3. session_connected \in BOOLEAN
      BY DEF Init
    <3> QED BY <3>1, <3>2, <3>3 DEF Init, TypeOK, Answers, MainStages, ReceiverStages
  <2>2. FlagOK /\ SocketKept
    BY DEF Init, FlagOK, SocketKept
  <2> QED BY <2>1, <2>2 DEF IInv
<1>2. IInv /\ [Next]_vars => IInv'
  <2> SUFFICES ASSUME IInv, [Next]_vars PROVE IInv'
    OBVIOUS
  <2>1. CASE UNCHANGED vars
    BY <2>1 DEF vars, IInv, TypeOK, FlagOK, SocketKept, Socket
  <2> QED BY <2>1, ServerIInv, MainIInv, ReceiverIInv DEF Next
<1> QED BY <1>1, <1>2, PTL DEF Spec

-----------------------------------------------------------------------------

(* Every variable keeps its type, and a thread that reads or closes         *)
(* serv_sock has a number in it.                                            *)
THEOREM TypeCorrect == Spec => []TypeOK
<1>1. IInv => TypeOK
  BY DEF IInv
<1> QED BY <1>1, Inductive, PTL

(* Nobody closes the connection main() registers on or the receive thread   *)
(* reads: the thread of the last connection is past its close() when the    *)
(* flag lets main() connect (client session.cpp:96-98).                     *)
THEOREM ConnectionKept == Spec => []SocketKept
<1>1. IInv => SocketKept
  BY DEF IInv
<1> QED BY <1>1, Inductive, PTL

(* While the flag keeps main() from connecting again, a receive thread      *)
(* lives that will clear it (client session.cpp:46-50).                     *)
THEOREM FlagIsWatched == Spec => []ConnectedIsWatched
<1>1. IInv => ConnectedIsWatched
  BY DEF IInv, FlagOK, ConnectedIsWatched
<1> QED BY <1>1, Inductive, PTL
=============================================================================
