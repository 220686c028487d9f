------------------------- MODULE SessionServerProofs -------------------------
(****************************************************************************)
(* Theorems about SessionServer, for any connections, IDs and descriptors.  *)
(****************************************************************************)
EXTENDS SessionServer, SequenceTheorems, FiniteSetTheorems, TLAPS

(* A connection that waits in the backlog waits once and has no object.     *)
BacklogOK ==
  /\ \A k \in DOMAIN backlog : stage[backlog[k]] = "unborn" /\ peer[backlog[k]] # "away"
  /\ \A j, k \in DOMAIN backlog : backlog[j] = backlog[k] => j = k
  /\ \A c \in Conn : peer[c] = "away" => stage[c] = "unborn"

(* What the stage of an object says of its flags, and which object may be   *)
(* in it: those past regist_session are registered, ipc_ never is.          *)
StageOK ==
  \A c \in Conn :
    /\ stage[c] \in {"operating", "listing", "closed"} => c = ipc
    /\ c = ipc => stage[c] \in {"serving", "operating", "listing", "closed"}
    /\ stage[c] \in {"unborn", "init", "refusing", "rejected"} \/ c = ipc => ~registered[c]
    /\ c # ipc /\ stage[c] \in {"greeting", "serving", "answering", "informing",
                                "returned", "unlisting"} => registered[c]
    /\ registered[c] \/ stage[c] = "refusing" => client_id[c] \in ClientId

(* No session has ever had the descriptor number of ipc_ while it is open.  *)
SocketOK ==
  /\ ipc = None => \A c \in Conn : stage[c] = "unborn"
  /\ \A c \in Conn : stage[c] = "unborn" => clnt_sock[c] = None
  /\ ipc # None /\ stage[ipc] # "closed" =>
       /\ owner[clnt_sock[ipc]] = ipc
       /\ \A c \in Conn \ {ipc} : clnt_sock[c] # clnt_sock[ipc]

IInv == TypeOK /\ BacklogOK /\ StageOK

-----------------------------------------------------------------------------

(* A send changes wire and up only, and keeps their types. *)
LEMMA WriteType ==
  ASSUME TypeOK, NEW f, NEW m \in Reply, Write(f, m)
  PROVE  wire' \in [Conn -> Seq(Reply)] /\ up' \in BOOLEAN
<1>1. CASE UNCHANGED <<wire, up>>
  BY <1>1 DEF TypeOK
<1>2. CASE wire' = [wire EXCEPT ![owner[f]] = Append(@, m)] /\ UNCHANGED up
  <2>1. \A c \in Conn : Append(wire[c], m) \in Seq(Reply)
    BY AppendProperties DEF TypeOK
  <2>2. wire \in [Conn -> Seq(Reply)] /\ up' \in BOOLEAN
    BY <1>2 DEF TypeOK
  <2> QED BY <2>1, <2>2, <1>2
<1>3. CASE up' \in BOOLEAN /\ UNCHANGED wire
  BY <1>3 DEF TypeOK
<1> QED BY <1>1, <1>2, <1>3 DEF Write

(* accept() takes the connection that has waited longest. *)
LEMMA PopBacklog ==
  ASSUME TypeOK, BacklogOK, backlog # <<>>, backlog' = Tail(backlog), peer' = peer,
         NEW st, stage' = [stage EXCEPT ![Head(backlog)] = st]
  PROVE  BacklogOK' /\ Head(backlog) \in Conn /\ stage[Head(backlog)] = "unborn"
                   /\ peer[Head(backlog)] # "away" /\ backlog' \in Seq(Conn)
<1>1. /\ backlog \in Seq(Conn) /\ Len(backlog) \in Nat \ {0}
      /\ Head(backlog) = backlog[1] /\ Head(backlog) \in Conn
      /\ backlog' \in Seq(Conn) /\ Len(backlog') = Len(backlog) - 1
      /\ \A k \in 1..Len(backlog') : backlog'[k] = backlog[k+1]
  BY HeadTailProperties, EmptySeq, LenProperties DEF TypeOK
<1>2. /\ DOMAIN backlog = 1..Len(backlog) /\ DOMAIN backlog' = 1..Len(backlog')
      /\ 1 \in DOMAIN backlog
      /\ \A k \in DOMAIN backlog' : k+1 \in DOMAIN backlog /\ k+1 # 1
  BY <1>1
<1>3. \A k \in DOMAIN backlog' : backlog'[k] # backlog[1] /\ backlog'[k] \in Conn
  BY <1>1, <1>2 DEF BacklogOK
<1>4. stage[backlog[1]] = "unborn" /\ peer[backlog[1]] # "away"
  BY <1>2 DEF BacklogOK
<1>5. \A k \in DOMAIN backlog' : stage'[backlog'[k]] = "unborn" /\ peer'[backlog'[k]] # "away"
  BY <1>1, <1>2, <1>3 DEF BacklogOK, TypeOK
<1>6. \A j, k \in DOMAIN backlog' : backlog'[j] = backlog'[k] => j = k
  BY <1>1, <1>2 DEF BacklogOK
<1>7. \A c \in Conn : peer'[c] = "away" => stage'[c] = "unborn"
  BY <1>1, <1>4 DEF BacklogOK, TypeOK
<1> QED BY <1>1, <1>4, <1>5, <1>6, <1>7 DEF BacklogOK

(* One lemma per operation: it keeps IInv. *)
LEMMA ConnectIInv == ASSUME IInv, NEW c \in Conn, Connect(c) PROVE IInv'
<1> USE DEF IInv, Connect, ipcVars, listVars
<1>1. TypeOK'
  BY DEF TypeOK
<1>2. BacklogOK'
  <2>1. /\ backlog' = Append(backlog, c) /\ backlog \in Seq(Conn)
        /\ Len(backlog') = Len(backlog) + 1
        /\ \A k \in 1..Len(backlog) : backlog'[k] = backlog[k]
        /\ backlog'[Len(backlog) + 1] = c
    BY AppendProperties DEF TypeOK
  <2>2. peer[c] = "away" /\ peer' = [peer EXCEPT ![c] = "open"] /\ stage' = stage
        /\ stage[c] = "unborn" /\ peer \in [Conn -> {"away", "open", "gone"}]
    BY DEF TypeOK, BacklogOK
  <2>3. \A k \in 1..Len(backlog) : backlog[k] # c /\ backlog[k] \in Conn
    BY <2>1, <2>2 DEF BacklogOK
  <2> QED BY <2>1, <2>2, <2>3 DEF BacklogOK
<1>3. StageOK'
  BY DEF StageOK
<1> QED BY <1>1, <1>2, <1>3

(* Hello keeps IInv: a client's first message changes nothing at the       *)
(* server.                                                                 *)
LEMMA HelloIInv == ASSUME IInv, NEW c \in Conn, Hello(c) PROVE IInv'
<1> USE DEF IInv, Hello, ipcVars, listVars
<1>1. TypeOK'
  BY DEF TypeOK, Put, Request
<1>2. BacklogOK'
  BY DEF BacklogOK, TypeOK
<1>3. StageOK'
  BY DEF StageOK, TypeOK, Stages, MainStages
<1> QED BY <1>1, <1>2, <1>3

(* AddDevice keeps IInv: it only fills the client's inbox. *)
LEMMA AddDeviceIInv == ASSUME IInv, NEW c \in Conn, AddDevice(c) PROVE IInv'
<1> USE DEF IInv, AddDevice, ipcVars, listVars
<1>1. TypeOK'
  BY DEF TypeOK, Put, Request
<1>2. BacklogOK'
  BY DEF BacklogOK, TypeOK
<1>3. StageOK'
  BY DEF StageOK, TypeOK, Stages, MainStages
<1> QED BY <1>1, <1>2, <1>3

(* PythonSends keeps IInv: it only fills Python's inbox. *)
LEMMA PythonSendsIInv == ASSUME IInv, NEW m \in Request, PythonSends(m) PROVE IInv'
<1> USE DEF IInv, PythonSends, ipcVars, listVars
<1>1. TypeOK'
  BY PythonAssumption DEF TypeOK, Put
<1>2. BacklogOK'
  BY DEF BacklogOK, TypeOK
<1>3. StageOK'
  BY DEF StageOK, TypeOK, Stages, MainStages
<1> QED BY <1>1, <1>2, <1>3

(* Leave keeps IInv: a peer that goes was not away. *)
LEMMA LeaveIInv == ASSUME IInv, NEW c \in Conn, Leave(c) PROVE IInv'
<1> USE DEF IInv, Leave, ipcVars, listVars
<1>1. TypeOK'
  BY DEF TypeOK
<1>2. BacklogOK'
  BY DEF BacklogOK, TypeOK
<1>3. StageOK'
  BY DEF StageOK, TypeOK, Stages, MainStages
<1> QED BY <1>1, <1>2, <1>3

(* AcceptIpc keeps IInv: ipc_ starts serving, unregistered. *)
LEMMA AcceptIpcIInv == ASSUME IInv, NEW c \in Conn, AcceptIpc(c) PROVE IInv'
<1> USE DEF IInv, AcceptIpc, Open, peerVars, listVars, Goto
<1>1. TypeOK'
  BY PopBacklog DEF TypeOK, Stages, MainStages
<1>2. BacklogOK'
  BY PopBacklog DEF BacklogOK
<1>3. StageOK'
  <2>1. /\ stage[c] = "unborn" /\ stage' = [stage EXCEPT ![c] = "serving"]
        /\ stage \in [Conn -> Stages] /\ ipc = None /\ ipc' = c
        /\ registered' = registered /\ client_id' = client_id
    BY PopBacklog DEF TypeOK
  <2>2. \A d \in Conn : d # ipc
    BY <2>1, NoneAssumption
  <2> QED BY <2>1, <2>2 DEF StageOK
<1> QED BY <1>1, <1>2, <1>3

(* Accept keeps IInv: the object is new and not ipc_'s. *)
LEMMA AcceptIInv == ASSUME IInv, NEW c \in Conn, Accept(c) PROVE IInv'
<1> USE DEF IInv, Accept, Open, ipcVars, peerVars, listVars, Goto
<1>1. TypeOK'
  BY PopBacklog DEF TypeOK, Stages, MainStages
<1>2. BacklogOK'
  BY PopBacklog DEF BacklogOK
<1>3. StageOK'
  BY PopBacklog, NoneAssumption DEF StageOK, TypeOK, Stages, MainStages
<1> QED BY <1>1, <1>2, <1>3

(* InitLost keeps IInv: the object is rejected, unregistered. *)
LEMMA InitLostIInv == ASSUME IInv, NEW c \in Conn, InitLost(c) PROVE IInv'
<1> USE DEF IInv, InitLost, ipcVars, peerVars, listVars, Goto, Close
<1>1. TypeOK'
  BY DEF TypeOK, Stages, MainStages
<1>2. BacklogOK'
  BY DEF BacklogOK, TypeOK
<1>3. StageOK'
  BY DEF StageOK, TypeOK, Stages, MainStages
<1> QED BY <1>1, <1>2, <1>3

(* InitOther keeps IInv: the object is rejected, unregistered. *)
LEMMA InitOtherIInv == ASSUME IInv, NEW c \in Conn, InitOther(c) PROVE IInv'
<1> USE DEF IInv, InitOther, ipcVars, peerVars, listVars, Goto, Take
<1>1. TypeOK'
  BY DEF TypeOK, Stages, MainStages
<1>2. BacklogOK'
  BY DEF BacklogOK, TypeOK
<1>3. StageOK'
  BY DEF StageOK, TypeOK, Stages, MainStages
<1> QED BY <1>1, <1>2, <1>3

(* InitRegister keeps IInv: the object is registered iff it is to be       *)
(* greeted.                                                                *)
LEMMA InitRegisterIInv == ASSUME IInv, NEW c \in Conn, InitRegister(c) PROVE IInv'
<1> DEFINE o == owner[clnt_sock[c]]
           i == Head(inbox[o]).id
<1>1. /\ o \in Conn /\ inbox[o] # <<>> /\ i \in ClientId /\ stage[c] = "init"
      /\ Tail(inbox[o]) \in Seq(Request) /\ inbox' = [inbox EXCEPT ![o] = Tail(@)]
      /\ Regist(c, i)
  <2>1. stage[c] = "init" /\ o # None /\ inbox[o] # <<>> /\ Regist(c, i)
        /\ Head(inbox[o]).type = "REGISTER_CLIENT"
        /\ inbox' = [inbox EXCEPT ![o] = Tail(@)]
    BY DEF InitRegister, Take
  <2>2. o \in Conn
    BY <2>1 DEF IInv, TypeOK, Stages, MainStages
  <2>3. Head(inbox[o]) \in Request /\ Tail(inbox[o]) \in Seq(Request)
    BY <2>1, <2>2, HeadTailProperties DEF IInv, TypeOK
  <2>4. i \in ClientId
    BY <2>1, <2>3 DEF Request
  <2> QED BY <2>1, <2>2, <2>3, <2>4
<1>2. /\ UNCHANGED <<up, peer, hello, requests, wire, backlog, ipc, devices, operation,
                     listing, clnt_sock, reading, owner>>
      /\ \/ stage' = [stage EXCEPT ![c] = "greeting"] /\ registered' = [registered EXCEPT ![c] = TRUE]
            /\ session_list' = session_list \cup {[id |-> i, session |-> c]}
         \/ stage' = [stage EXCEPT ![c] = "refusing"] /\ UNCHANGED <<registered, session_list>>
      /\ client_id' = [client_id EXCEPT ![c] = i]
  BY <1>1 DEF InitRegister, Regist, Goto, peerVars, ipcVars
<1> HIDE DEF o, i
<1>3. TypeOK'
  <2>1. stage' \in [Conn -> Stages] /\ client_id' \in [Conn -> ClientId \cup {None}]
    BY <1>1, <1>2 DEF IInv, TypeOK, Stages, MainStages
  <2>4. session_list' \subseteq [id : ClientId, session : Conn]
    BY <1>1, <1>2 DEF IInv, TypeOK
  <2>5. registered' \in [Conn -> BOOLEAN]
    BY <1>2 DEF IInv, TypeOK
  <2>2. inbox' \in [Conn -> Seq(Request)]
    BY <1>1 DEF IInv, TypeOK
  <2>3. \A d \in Conn : /\ stage'[d] # "unborn" => stage[d] # "unborn"
                        /\ stage'[d] = "operating" => stage[d] = "operating"
    BY <1>1, <1>2 DEF IInv, TypeOK
  <2> QED BY <1>2, <2>1, <2>2, <2>3, <2>4, <2>5 DEF IInv, TypeOK
<1>4. BacklogOK'
  BY <1>1, <1>2 DEF IInv, TypeOK, BacklogOK
<1>5. StageOK'
  BY <1>1, <1>2 DEF IInv, TypeOK, StageOK
<1> QED BY <1>3, <1>4, <1>5 DEF IInv

(* SendDone keeps IInv: a registered object starts serving. *)
LEMMA SendDoneIInv == ASSUME IInv, NEW c \in Conn, SendDone(c) PROVE IInv'
<1> USE DEF IInv, SendDone, ipcVars, peerVars, listVars, Goto
<1>1. TypeOK'
  BY WriteType DEF TypeOK, Stages, MainStages, StageOK, Reply, AboutClient
<1>2. BacklogOK'
  BY DEF BacklogOK, TypeOK
<1>3. StageOK'
  BY DEF StageOK, TypeOK, Stages, MainStages
<1> QED BY <1>1, <1>2, <1>3

(* SendFailed keeps IInv: an object that is not registered is rejected. *)
LEMMA SendFailedIInv == ASSUME IInv, NEW c \in Conn, SendFailed(c) PROVE IInv'
<1> USE DEF IInv, SendFailed, ipcVars, peerVars, listVars, Goto
<1>1. TypeOK'
  BY WriteType DEF TypeOK, Stages, MainStages, StageOK, Reply, AboutClient
<1>2. BacklogOK'
  BY DEF BacklogOK, TypeOK
<1>3. StageOK'
  BY DEF StageOK, TypeOK, Stages, MainStages
<1> QED BY <1>1, <1>2, <1>3

(* DropRejected keeps IInv: ~Session() of a rejected object. *)
LEMMA DropRejectedIInv == ASSUME IInv, NEW c \in Conn, DropRejected(c) PROVE IInv'
<1> USE DEF IInv, DropRejected, ipcVars, peerVars, listVars, Goto, Destroy, Close
<1>1. TypeOK'
  BY DEF TypeOK, Stages, MainStages
<1>2. BacklogOK'
  BY DEF BacklogOK, TypeOK
<1>3. StageOK'
  BY DEF StageOK, TypeOK, Stages, MainStages
<1> QED BY <1>1, <1>2, <1>3

(* DropReturned keeps IInv: ~Session() after receive() returned. *)
LEMMA DropReturnedIInv == ASSUME IInv, NEW c \in Conn, DropReturned(c) PROVE IInv'
<1> USE DEF IInv, DropReturned, ipcVars, peerVars, listVars, Goto, Destroy, Close
<1>1. TypeOK'
  BY DEF TypeOK, Stages, MainStages
<1>2. BacklogOK'
  BY DEF BacklogOK, TypeOK
<1>3. StageOK'
  BY DEF StageOK, TypeOK, Stages, MainStages
<1> QED BY <1>1, <1>2, <1>3

(* Read keeps IInv: a read() holds a connection. *)
LEMMA ReadIInv == ASSUME IInv, NEW c \in Conn, Read(c) PROVE IInv'
<1> USE DEF IInv, Read, ipcVars, peerVars, listVars, Goto
<1>1. TypeOK'
  BY DEF TypeOK, Stages, MainStages
<1>2. BacklogOK'
  BY DEF BacklogOK, TypeOK
<1>3. StageOK'
  BY DEF StageOK, TypeOK, Stages, MainStages
<1> QED BY <1>1, <1>2, <1>3

(* HangUp keeps IInv: only ipc_ goes to the stage closed. *)
LEMMA HangUpIInv == ASSUME IInv, NEW c \in Conn, HangUp(c) PROVE IInv'
<1> USE DEF IInv, HangUp, ipcVars, peerVars, listVars, Goto, Close
<1>1. TypeOK'
  BY DEF TypeOK, Stages, MainStages
<1>2. BacklogOK'
  BY DEF BacklogOK, TypeOK
<1>3. StageOK'
  BY DEF StageOK, TypeOK, Stages, MainStages
<1> QED BY <1>1, <1>2, <1>3

(* HandleNothing keeps IInv: a message is taken and ignored. *)
LEMMA HandleNothingIInv == ASSUME IInv, NEW c \in Conn, HandleNothing(c) PROVE IInv'
<1> USE DEF IInv, HandleNothing, Got, Message, Take, ipcVars, peerVars, listVars, Goto
<1>1. TypeOK'
  BY DEF TypeOK, Stages, MainStages
<1>2. BacklogOK'
  BY DEF BacklogOK, TypeOK
<1>3. StageOK'
  BY DEF StageOK, TypeOK, Stages, MainStages
<1> QED BY <1>1, <1>2, <1>3

(* HandleDevice keeps IInv: the device's owner is a client ID. *)
LEMMA HandleDeviceIInv == ASSUME IInv, NEW c \in Conn, HandleDevice(c) PROVE IInv'
<1> USE DEF IInv, HandleDevice, Got, Message, Take, ipcVars, peerVars, listVars, Goto
<1>1. TypeOK'
  BY DEF TypeOK, Stages, MainStages, StageOK
<1>2. BacklogOK'
  BY DEF BacklogOK, TypeOK
<1>3. StageOK'
  BY DEF StageOK, TypeOK, Stages, MainStages
<1> QED BY <1>1, <1>2, <1>3

(* AnswerDevice keeps IInv: one more reply is written. *)
LEMMA AnswerDeviceIInv == ASSUME IInv, NEW c \in Conn, AnswerDevice(c) PROVE IInv'
<1> USE DEF IInv, AnswerDevice, ipcVars, peerVars, listVars, Goto
<1>1. TypeOK'
  BY WriteType DEF TypeOK, Stages, MainStages, StageOK, Reply, AboutDevice
<1>2. BacklogOK'
  BY DEF BacklogOK, TypeOK
<1>3. StageOK'
  BY DEF StageOK, TypeOK, Stages, MainStages
<1> QED BY <1>1, <1>2, <1>3

(* InformPython keeps IInv: one more reply is written. *)
LEMMA InformPythonIInv == ASSUME IInv, NEW c \in Conn, InformPython(c) PROVE IInv'
<1> USE DEF IInv, InformPython, ipcVars, peerVars, listVars, Goto
<1>1. TypeOK'
  BY WriteType DEF TypeOK, Stages, MainStages, StageOK, Reply, AboutDevice
<1>2. BacklogOK'
  BY DEF BacklogOK, TypeOK
<1>3. StageOK'
  BY DEF StageOK, TypeOK, Stages, MainStages
<1> QED BY <1>1, <1>2, <1>3

(* Unregist keeps IInv: the list loses an entry. *)
LEMMA UnregistIInv == ASSUME IInv, NEW c \in Conn, Unregist(c) PROVE IInv'
<1> USE DEF IInv, Unregist, ipcVars, peerVars, listVars, Goto
<1>1. TypeOK'
  BY DEF TypeOK, Stages, MainStages, Entries
<1>2. BacklogOK'
  BY DEF BacklogOK, TypeOK
<1>3. StageOK'
  BY DEF StageOK, TypeOK, Stages, MainStages
<1> QED BY <1>1, <1>2, <1>3

(* LookUp keeps IInv: what is looked up is an entry of the list. *)
LEMMA LookUpIInv == ASSUME IInv, NEW c \in Conn, LookUp(c) PROVE IInv'
<1> USE DEF IInv, LookUp, Got, Message, Take, ipcVars, peerVars, listVars, Goto
<1>1. TypeOK'
  <2>1. CASE UNCHANGED <<stage, operation>>
    BY <2>1 DEF TypeOK
  <2>2. CASE operation' \in Entries(Message(c).id) /\ Goto(c, "operating")
    <3>1. operation' \in [id : ClientId, session : Conn]
      BY <2>2 DEF TypeOK, Entries
    <3>2. operation' # NoOperation
      BY <3>1, NoneAssumption DEF NoOperation
    <3> QED BY <2>2, <3>1, <3>2 DEF TypeOK, Stages, MainStages
  <2> QED BY <2>1, <2>2
<1>2. BacklogOK'
  BY DEF BacklogOK, TypeOK
<1>3. StageOK'
  BY DEF StageOK, TypeOK, Stages, MainStages
<1> QED BY <1>1, <1>2, <1>3

(* Operate keeps IInv: the session written to has a descriptor number. *)
LEMMA OperateIInv == ASSUME IInv, NEW c \in Conn, Operate(c) PROVE IInv'
<1> USE DEF IInv, Operate, ipcVars, peerVars, listVars, Goto
<1>1. TypeOK'
  BY WriteType DEF TypeOK, Stages, MainStages, StageOK, Reply, AboutDevice
<1>2. BacklogOK'
  BY DEF BacklogOK, TypeOK
<1>3. StageOK'
  BY DEF StageOK, TypeOK, Stages, MainStages
<1> QED BY <1>1, <1>2, <1>3

(* ListDevices keeps IInv: only ipc_ lists devices. *)
LEMMA ListDevicesIInv == ASSUME IInv, NEW c \in Conn, ListDevices(c) PROVE IInv'
<1> USE DEF IInv, ListDevices, Got, Message, Take, ipcVars, peerVars, listVars, Goto
<1>1. TypeOK'
  BY DEF TypeOK, Stages, MainStages
<1>2. BacklogOK'
  BY DEF BacklogOK, TypeOK
<1>3. StageOK'
  BY DEF StageOK, TypeOK, Stages, MainStages
<1> QED BY <1>1, <1>2, <1>3

(* ListOne keeps IInv: what is listed is a client ID. *)
LEMMA ListOneIInv == ASSUME IInv, NEW c \in Conn, ListOne(c) PROVE IInv'
<1> USE DEF IInv, ListOne, ipcVars, peerVars, listVars, Goto
<1>1. TypeOK'
  BY WriteType DEF TypeOK, Stages, MainStages, StageOK, Reply, AboutDevice
<1>2. BacklogOK'
  BY DEF BacklogOK, TypeOK
<1>3. StageOK'
  BY DEF StageOK, TypeOK, Stages, MainStages
<1> QED BY <1>1, <1>2, <1>3

(* ListDone keeps IInv: ipc_ serves again. *)
LEMMA ListDoneIInv == ASSUME IInv, NEW c \in Conn, ListDone(c) PROVE IInv'
<1> USE DEF IInv, ListDone, ipcVars, peerVars, listVars, Goto
<1>1. TypeOK'
  BY DEF TypeOK, Stages, MainStages
<1>2. BacklogOK'
  BY DEF BacklogOK, TypeOK
<1>3. StageOK'
  BY DEF StageOK, TypeOK, Stages, MainStages
<1> QED BY <1>1, <1>2, <1>3

(* The initial state satisfies IInv. *)
LEMMA InitIInv == Init => IInv
  BY NoneAssumption DEF Init, IInv, TypeOK, BacklogOK, StageOK, Stages, MainStages,
     NoOperation

(* Every step keeps IInv, one operation at a time. *)
LEMMA NextIInv == ASSUME IInv, [Next]_vars PROVE IInv'
<1>1. ASSUME NEW c \in Conn, Thread(c) PROVE IInv'
  BY <1>1, ReadIInv, HangUpIInv, HandleNothingIInv, HandleDeviceIInv,
     AnswerDeviceIInv, InformPythonIInv, DropReturnedIInv, UnregistIInv, LookUpIInv,
     OperateIInv, ListDevicesIInv, ListOneIInv, ListDoneIInv DEF Thread
<1>2. CASE Main
  BY <1>2, AcceptIpcIInv, AcceptIInv, InitLostIInv, InitOtherIInv,
     InitRegisterIInv, SendDoneIInv, SendFailedIInv, DropRejectedIInv DEF Main
<1>3. CASE PeerNext
  <2>1. ASSUME NEW i \in Known, PythonSends([type |-> "REQ_ACTUATOR_OPERATION", id |-> i])
        PROVE  IInv'
    <3>1. i \in ClientId
      <4>1. PICK k \in DOMAIN wire[Python] : i = wire[Python][k].id
        BY DEF Known
      <4>2. wire[Python] \in Seq(Reply)
        BY PythonAssumption DEF IInv, TypeOK
      <4>3. wire[Python][k] \in Reply
        BY <4>2
      <4> QED BY <4>1, <4>3 DEF Reply
    <3>2. [type |-> "REQ_ACTUATOR_OPERATION", id |-> i] \in Request
      BY <3>1 DEF Request
    <3> QED BY <2>1, <3>2, PythonSendsIInv
  <2>2. ASSUME PythonSends([type |-> "IPC_REQ_ALL_DEVICE_INFO", id |-> None])
        PROVE  IInv'
    <3>1. [type |-> "IPC_REQ_ALL_DEVICE_INFO", id |-> None] \in Request
      BY DEF Request
    <3> QED BY <2>2, <3>1, PythonSendsIInv
  <2> QED BY <1>3, <2>1, <2>2, ConnectIInv, HelloIInv, AddDeviceIInv, LeaveIInv
          DEF PeerNext
<1>4. CASE UNCHANGED vars
  BY <1>4 DEF vars, IInv, TypeOK, BacklogOK, StageOK
<1> QED BY <1>1, <1>2, <1>3, <1>4 DEF Next

(* IInv holds in every reachable state: types, the backlog, and what each  *)
(* stage of a session says of its `registered` flag (session.cpp:81-95).   *)
THEOREM IInvCorrect == Spec => []IInv
  BY InitIInv, NextIInv, PTL DEF Spec

(* Every variable keeps its type in every reachable state. *)
THEOREM TypeCorrect == Spec => []TypeOK
<1>1. IInv => TypeOK
  BY DEF IInv
<1> QED BY IInvCorrect, <1>1, PTL

-----------------------------------------------------------------------------
(* The session list. *)

LInv == ListExact /\ UniqueIds

(* A step that leaves the list's variables alone and neither ends nor       *)
(* revives a registered session keeps the list right.                       *)
Frame == UNCHANGED listVars /\ \A d \in Conn : registered[d] =>
                                  (stage'[d] = "dead" <=> stage[d] = "dead")

(* A step that keeps the list and who is dead keeps what the list says. *)
LEMMA FrameLInv == ASSUME LInv, Frame PROVE LInv'
<1>1. registered' = registered /\ client_id' = client_id /\ session_list' = session_list
  BY DEF Frame, listVars
<1>2. Members' = Members
  BY <1>1 DEF Members, Frame
<1> QED BY <1>1, <1>2 DEF LInv, ListExact, UniqueIds

(* Of the main thread's steps only InitRegister touches the list. *)
LEMMA MainFrame == ASSUME IInv, Main PROVE Frame \/ \E c \in Conn : InitRegister(c)
<1> USE DEF Frame, Goto, listVars, IInv, TypeOK
<1>1. ASSUME NEW c \in Conn, AcceptIpc(c) \/ Accept(c) PROVE Frame
  <2>1. UNCHANGED listVars /\ backlog # <<>> /\ backlog' = Tail(backlog) /\ peer' = peer
        /\ c = Head(backlog)
        /\ \E st \in {"serving", "init"} : stage' = [stage EXCEPT ![c] = st]
    BY <1>1 DEF AcceptIpc, Accept, peerVars
  <2>2. stage[c] = "unborn"
    BY <2>1, PopBacklog
  <2> QED BY <2>1, <2>2
<1>2. ASSUME NEW c \in Conn, InitLost(c) \/ InitOther(c) PROVE Frame
  BY <1>2 DEF InitLost, InitOther
<1>3. ASSUME NEW c \in Conn, SendDone(c) \/ SendFailed(c) PROVE Frame
  BY <1>3 DEF SendDone, SendFailed
<1>4. ASSUME NEW c \in Conn, DropRejected(c) PROVE Frame
  BY <1>4 DEF DropRejected, Destroy
<1> QED BY <1>1, <1>2, <1>3, <1>4 DEF Main

(* Of a receive thread's steps only Unregist touches the list. *)
LEMMA ThreadFrame == ASSUME IInv, NEW c \in Conn, Thread(c) PROVE Frame \/ Unregist(c)
<1> USE DEF Frame, Goto, listVars, ipcVars, IInv, TypeOK
<1>1. CASE Read(c) \/ HangUp(c)
  BY <1>1 DEF Read, HangUp
<1>2. CASE HandleNothing(c) \/ HandleDevice(c) \/ LookUp(c) \/ ListDevices(c)
  <2>1. stage[c] = "serving" /\ UNCHANGED listVars
    BY <1>2 DEF HandleNothing, HandleDevice, LookUp, ListDevices, Got
  <2>2. UNCHANGED stage \/ \E st \in {"answering", "operating", "listing"} : Goto(c, st)
    BY <1>2 DEF HandleNothing, HandleDevice, LookUp, ListDevices
  <2> QED BY <2>1, <2>2
<1>3. CASE AnswerDevice(c) \/ InformPython(c) \/ Operate(c)
  BY <1>3 DEF AnswerDevice, InformPython, Operate
<1>4. CASE DropReturned(c)
  BY <1>4 DEF DropReturned, Destroy
<1>5. CASE ListOne(c) \/ ListDone(c)
  BY <1>5 DEF ListOne, ListDone
<1> QED BY <1>1, <1>2, <1>3, <1>4, <1>5 DEF Thread

(* No peer touches the list. *)
LEMMA PeerFrame == ASSUME PeerNext PROVE Frame
  BY DEF PeerNext, Connect, Hello, AddDevice, Leave, PythonSends, Frame, listVars

(* regist_session lists a session under an ID nobody has, or nothing. *)
LEMMA RegisterLInv == ASSUME IInv, LInv, NEW c \in Conn, InitRegister(c) PROVE LInv'
<1> DEFINE i == Head(inbox[owner[clnt_sock[c]]]).id
<1>1. stage[c] = "init" /\ Regist(c, i)
  BY DEF InitRegister
<1>2. ~registered[c] /\ c \notin Members
  BY <1>1 DEF IInv, StageOK, Members
<1> HIDE DEF i
<1>3. client_id' = [client_id EXCEPT ![c] = i]
  BY <1>1 DEF Regist
<1>4. \A s \in Members : client_id'[s] = client_id[s]
  BY <1>2, <1>3 DEF Members, IInv, TypeOK
<1>5. CASE Entries(i) # {} /\ Goto(c, "refusing") /\ UNCHANGED <<session_list, registered>>
  <2>1. Members' = Members
    BY <1>1, <1>2, <1>5 DEF Members, Goto, IInv, TypeOK
  <2> QED BY <2>1, <1>4, <1>5 DEF LInv, ListExact, UniqueIds
<1>6. CASE /\ Entries(i) = {} /\ Goto(c, "greeting")
           /\ session_list' = session_list \cup {[id |-> i, session |-> c]}
           /\ registered' = [registered EXCEPT ![c] = TRUE]
  <2>1. Members' = Members \cup {c}
    BY <1>1, <1>2, <1>6 DEF Members, Goto, IInv, TypeOK
  <2>2. client_id'[c] = i
    BY <1>3 DEF IInv, TypeOK
  <2>3. \A s \in Members : client_id[s] # i
    <3>1. \A s \in Members : [id |-> client_id[s], session |-> s] \in session_list
      BY DEF LInv, ListExact
    <3>2. \A e \in session_list : e.id # i
      BY <1>6 DEF Entries
    <3> QED BY <3>1, <3>2
  <2>4. ListExact'
    BY <1>4, <1>6, <2>1, <2>2 DEF LInv, ListExact
  <2>5. UniqueIds'
    BY <1>4, <2>1, <2>2, <2>3 DEF LInv, UniqueIds
  <2> QED BY <2>4, <2>5 DEF LInv
<1> QED BY <1>1, <1>5, <1>6 DEF Regist

(* The entry unregist_session finds is the session's own. *)
LEMMA OwnEntry ==
  ASSUME LInv, NEW c \in Members
  PROVE  Entries(client_id[c]) = {[id |-> client_id[c], session |-> c]}
BY DEF LInv, ListExact, UniqueIds, Entries

(* unregist_session takes the session's own entry off. *)
LEMMA UnregistLInv == ASSUME IInv, LInv, NEW c \in Conn, Unregist(c)
                      PROVE  LInv' /\ c \in Members
<1> DEFINE e == [id |-> client_id[c], session |-> c]
<1>1. c # ipc /\ c \in Members
  BY DEF Unregist, IInv, StageOK, Members
<1>2. session_list' = session_list \ {e}
  BY <1>1, OwnEntry DEF Unregist
<1>3. Members' = Members \ {c} /\ client_id' = client_id
  BY DEF Unregist, Goto, Members, IInv, TypeOK
<1>4. ListExact'
  BY <1>2, <1>3 DEF LInv, ListExact
<1>5. UniqueIds'
  BY <1>3 DEF LInv, UniqueIds
<1> QED BY <1>1, <1>4, <1>5 DEF LInv

(* Every step keeps the list exact and its IDs unique. *)
LEMMA NextLInv == ASSUME IInv, LInv, [Next]_vars PROVE LInv'
<1>1. CASE PeerNext
  BY <1>1, PeerFrame, FrameLInv
<1>2. CASE Main
  BY <1>2, MainFrame, FrameLInv, RegisterLInv
<1>3. CASE \E c \in Conn : Thread(c)
  BY <1>3, ThreadFrame, FrameLInv, UnregistLInv
<1>4. CASE UNCHANGED vars
  BY <1>4, FrameLInv DEF vars, listVars, Frame
<1> QED BY <1>1, <1>2, <1>3, <1>4 DEF Next

(* The list is empty at first. *)
LEMMA InitLInv == Init => LInv
  BY DEF Init, LInv, ListExact, UniqueIds, Members

(* The list is exact and its IDs are unique in every reachable state. *)
LEMMA LInvCorrect == Spec => [](IInv /\ LInv)
  BY InitIInv, InitLInv, NextIInv, NextLInv, PTL DEF Spec

(* The list names exactly the sessions that are registered and have not     *)
(* left, each under its own ID (regist_session, unregist_session and the    *)
(* destructor's test of `registered`).                                      *)
THEOREM ListCorrect == Spec => []ListExact
<1>1. LInv => ListExact
  BY DEF LInv
<1> QED BY LInvCorrect, <1>1, PTL

(* No two of them have the same ID (the search in regist_session).          *)
THEOREM IdsUnique == Spec => []UniqueIds
<1>1. LInv => UniqueIds
  BY DEF LInv
<1> QED BY LInvCorrect, <1>1, PTL

-----------------------------------------------------------------------------
(* The descriptor of ipc_. *)

SocketFrame == /\ UNCHANGED <<owner, clnt_sock, ipc>>
               /\ \A d \in Conn : /\ stage'[d] = "unborn" <=> stage[d] = "unborn"
                                  /\ stage'[d] = "closed" <=> stage[d] = "closed"

(* A step that leaves ipc_'s descriptor alone keeps SocketOK. *)
LEMMA FrameSocket == ASSUME IInv, SocketOK, SocketFrame PROVE SocketOK'
  BY DEF SocketFrame, SocketOK, IInv, TypeOK

(* A session that is not ipc_ closes another number than ipc_'s. *)
LEMMA CloseSocket ==
  ASSUME IInv, SocketOK, NEW c \in Conn, c # ipc, stage[c] # "unborn", Close(clnt_sock[c]),
         UNCHANGED <<clnt_sock, ipc>>, NEW st \in Stages \ {"unborn", "closed"}, Goto(c, st)
  PROVE  SocketOK'
<1>1. CASE ipc = None
  BY <1>1 DEF SocketOK
<1>2. CASE ipc # None
  <2>1. stage'[ipc] = stage[ipc] /\ ipc \in Conn
    BY <1>2 DEF Goto, IInv, TypeOK
  <2>2. \A d \in Conn : stage'[d] = "unborn" => stage[d] = "unborn"
    BY DEF Goto, IInv, TypeOK
  <2>3. stage[ipc] # "closed" => clnt_sock[ipc] \in Fd /\ owner'[clnt_sock[ipc]] = ipc
    BY <1>2, <2>1 DEF SocketOK, Close, IInv, TypeOK, StageOK
  <2> QED BY <1>2, <2>1, <2>2, <2>3 DEF SocketOK
<1> QED BY <1>1, <1>2

(* No step of the main thread opens or closes ipc_'s descriptor again. *)
LEMMA MainSocket == ASSUME IInv, SocketOK, NEW c \in Conn,
                           \/ AcceptIpc(c) \/ Accept(c) \/ InitLost(c) \/ InitOther(c)
                           \/ InitRegister(c) \/ SendDone(c) \/ SendFailed(c)
                           \/ DropRejected(c)
                    PROVE  SocketOK'
<1>1. CASE AcceptIpc(c)
  <2>1. PICK f \in Fd : Open(c, f)
    BY <1>1 DEF AcceptIpc
  <2>2. ipc = None /\ ipc' = c /\ stage' = [stage EXCEPT ![c] = "serving"]
    BY <1>1 DEF AcceptIpc, Goto
  <2>3. owner'[f] = c /\ clnt_sock' = [clnt_sock EXCEPT ![c] = f]
    BY <2>1 DEF Open, IInv, TypeOK
  <2>4. clnt_sock'[c] = f /\ \A d \in Conn \ {c} : clnt_sock'[d] = None /\ stage'[d] = "unborn"
    BY <2>2, <2>3 DEF SocketOK, IInv, TypeOK
  <2>5. stage'[c] = "serving" /\ c # None /\ f # None
    BY <2>2, NoneAssumption DEF IInv, TypeOK
  <2> QED BY <2>2, <2>3, <2>4, <2>5 DEF SocketOK
<1>2. CASE Accept(c)
  <2>1. PICK f \in Fd : Open(c, f)
    BY <1>2 DEF Accept
  <2>2. ipc # None /\ ipc' = ipc /\ stage' = [stage EXCEPT ![c] = "init"] /\ ipc \in Conn
    BY <1>2 DEF Accept, Goto, ipcVars, IInv, TypeOK
  <2>3. stage[c] = "unborn"
    BY <1>2, PopBacklog DEF Accept, peerVars, Goto, IInv
  <2>4. c # ipc
    BY <2>3 DEF IInv, StageOK
  <2>5. owner[f] = None /\ owner' = [owner EXCEPT ![f] = c]
        /\ clnt_sock' = [clnt_sock EXCEPT ![c] = f]
    BY <2>1 DEF Open, FreeFd
  <2>6. stage[ipc] # "closed" => clnt_sock[ipc] # f /\ clnt_sock[ipc] \in Fd
    BY <2>2, <2>5, NoneAssumption DEF SocketOK, IInv, TypeOK, StageOK
  <2>7. stage[ipc] # "closed" => /\ owner'[clnt_sock'[ipc]] = ipc
                                 /\ \A d \in Conn \ {ipc} : clnt_sock'[d] # clnt_sock'[ipc]
    BY <2>2, <2>4, <2>5, <2>6 DEF SocketOK, IInv, TypeOK
  <2>8. stage'[ipc] = stage[ipc] /\ \A d \in Conn : stage'[d] = "unborn" => d # c /\ stage[d] = "unborn"
    BY <2>2, <2>4 DEF IInv, TypeOK
  <2>9. \A d \in Conn : stage'[d] = "unborn" => clnt_sock'[d] = None
    BY <2>5, <2>8 DEF SocketOK, IInv, TypeOK
  <2> QED BY <2>2, <2>7, <2>8, <2>9 DEF SocketOK
<1>3. CASE InitLost(c) \/ DropRejected(c)
  <2>1. c # ipc /\ stage[c] # "unborn" /\ Close(clnt_sock[c]) /\ UNCHANGED <<clnt_sock, ipc>>
    BY <1>3 DEF InitLost, DropRejected, Destroy, ipcVars, IInv, StageOK
  <2>2. \E st \in {"rejected", "unlisting", "dead"} : Goto(c, st)
    BY <1>3 DEF InitLost, DropRejected, Destroy
  <2> QED BY <2>1, <2>2, CloseSocket DEF Stages, MainStages
<1>4. CASE InitOther(c) \/ InitRegister(c) \/ SendDone(c) \/ SendFailed(c)
  <2>1. stage[c] \in {"init", "greeting", "refusing"} /\ UNCHANGED <<owner, clnt_sock, ipc>>
    BY <1>4 DEF InitOther, InitRegister, SendDone, SendFailed, ipcVars
  <2>2. \E st \in {"rejected", "greeting", "refusing", "serving"} : Goto(c, st)
    BY <1>4 DEF InitOther, InitRegister, Regist, SendDone, SendFailed
  <2>3. SocketFrame
    BY <2>1, <2>2 DEF SocketFrame, Goto, IInv, TypeOK
  <2> QED BY <2>3, FrameSocket
<1> QED BY <1>1, <1>2, <1>3, <1>4

(* No receive thread but ipc_'s own closes ipc_'s descriptor. *)
LEMMA ThreadSocket == ASSUME IInv, SocketOK, NEW c \in Conn, Thread(c) PROVE SocketOK'
<1>1. CASE HangUp(c)
  <2>1. CASE c = ipc
    BY <1>1, <2>1 DEF HangUp, Goto, ipcVars, SocketOK, IInv, TypeOK
  <2>2. CASE c # ipc
    BY <1>1, <2>2, CloseSocket DEF HangUp, ipcVars, Stages, MainStages
  <2> QED BY <2>1, <2>2
<1>2. CASE DropReturned(c)
  <2>1. c # ipc /\ stage[c] # "unborn" /\ Close(clnt_sock[c]) /\ UNCHANGED <<clnt_sock, ipc>>
    BY <1>2 DEF DropReturned, Destroy, ipcVars, IInv, StageOK
  <2>2. \E st \in {"unlisting", "dead"} : Goto(c, st)
    BY <1>2 DEF DropReturned, Destroy
  <2> QED BY <2>1, <2>2, CloseSocket DEF Stages, MainStages
<1>3. CASE \/ Read(c) \/ HandleNothing(c) \/ HandleDevice(c) \/ LookUp(c) \/ ListDevices(c)
           \/ AnswerDevice(c) \/ InformPython(c) \/ Unregist(c) \/ Operate(c)
           \/ ListOne(c) \/ ListDone(c)
  <2>1. stage[c] \notin {"unborn", "closed"} /\ UNCHANGED <<owner, clnt_sock, ipc>>
    BY <1>3 DEF Read, HandleNothing, HandleDevice, LookUp, ListDevices, Got, AnswerDevice,
       InformPython, Unregist, Operate, ListOne, ListDone, ipcVars
  <2>2. \/ UNCHANGED stage
        \/ \E st \in {"answering", "informing", "operating", "listing", "serving", "dead"} :
             Goto(c, st)
    BY <1>3 DEF Read, HandleNothing, HandleDevice, LookUp, ListDevices, AnswerDevice,
       InformPython, Unregist, Operate, ListOne, ListDone
  <2>3. SocketFrame
    BY <2>1, <2>2 DEF SocketFrame, Goto, IInv, TypeOK
  <2> QED BY <2>3, FrameSocket
<1> QED BY <1>1, <1>2, <1>3 DEF Thread

(* Every step keeps SocketOK. *)
LEMMA NextSocket == ASSUME IInv, SocketOK, [Next]_vars PROVE SocketOK'
<1>1. CASE PeerNext
  <2>1. SocketFrame
    BY <1>1 DEF PeerNext, Connect, Hello, AddDevice, Leave, PythonSends, ipcVars, SocketFrame
  <2> QED BY <2>1, FrameSocket
<1>2. CASE Main
  BY <1>2, MainSocket DEF Main
<1>3. CASE \E c \in Conn : Thread(c)
  BY <1>3, ThreadSocket
<1>4. CASE UNCHANGED vars
  BY <1>4, FrameSocket DEF vars, SocketFrame
<1> QED BY <1>1, <1>2, <1>3, <1>4 DEF Next

(* As long as IPC::receive has not closed it, ipc_'s descriptor refers to   *)
(* the connection ipc_ accepted, whatever the sessions close and re-open:   *)
(* accept() gave that number to no session, because ipc_ took it first.     *)
THEOREM IpcSocketSafe == Spec => []IpcKeepsItsSocket
<1>1. Init => SocketOK
  BY NoneAssumption DEF Init, SocketOK
<1>2. SocketOK => IpcKeepsItsSocket
  BY DEF SocketOK, IpcKeepsItsSocket
<1> QED BY InitIInv, <1>1, NextIInv, NextSocket, <1>2, PTL DEF Spec

-----------------------------------------------------------------------------
(* The session list implements the directory. *)

(* At first every ID of the directory is free. *)
LEMMA InitDirectory == Init => Directory!DirInit
  BY DEF Init, Directory!DirInit, ListHolder, ListStanding, Entries

(* A step that keeps the list and who is dead is no step of the directory.  *)
LEMMA FrameDirectory == ASSUME Frame PROVE UNCHANGED Directory!dirVars
<1>1. registered' = registered /\ session_list' = session_list
  BY DEF Frame, listVars
<1>2. ListHolder' = ListHolder
  BY <1>1 DEF ListHolder, Entries
<1>3. ListStanding' = ListStanding
  BY <1>1 DEF ListStanding, Frame
<1> QED BY <1>2, <1>3 DEF Directory!dirVars

(* The holder of an ID with one entry is that entry's session. *)
LEMMA OnlyEntry ==
  ASSUME NEW i, NEW c PROVE SessionIn({[id |-> i, session |-> c]}) = c
<1> DEFINE x == [id |-> i, session |-> c]
<1>1. x.session = c
  OBVIOUS
<1> HIDE DEF x
<1>2. \A e \in {x} : e = x
  OBVIOUS
<1>3. (CHOOSE e \in {x} : TRUE) \in {x}
  BY Zenon
<1> QED BY <1>1, <1>2, <1>3, Zenon DEF SessionIn, x

(* regist_session claims a free ID, or leaves the directory alone. *)
LEMMA RegisterDirectory ==
  ASSUME IInv, LInv, NEW c \in Conn, InitRegister(c)
  PROVE  Directory!DirNext \/ UNCHANGED Directory!dirVars
<1>0. PICK i : i = Head(inbox[owner[clnt_sock[c]]]).id
  OBVIOUS
<1>1. stage[c] = "init" /\ Regist(c, i)
  BY <1>0 DEF InitRegister
<1>2. ~registered[c]
  BY <1>1 DEF IInv, StageOK
<1>3. CASE Entries(i) # {} /\ Goto(c, "refusing") /\ UNCHANGED <<session_list, registered>>
  <2>1. ListHolder' = ListHolder
    BY <1>3 DEF ListHolder, Entries
  <2>2. \A s \in Conn : registered[s] => stage'[s] = stage[s]
    BY <1>2, <1>3 DEF Goto, IInv, TypeOK
  <2>3. ListStanding' = ListStanding
    BY <1>3, <2>2 DEF ListStanding
  <2> QED BY <2>1, <2>3 DEF Directory!dirVars
<1>4. CASE /\ Entries(i) = {} /\ Goto(c, "greeting")
           /\ session_list' = session_list \cup {[id |-> i, session |-> c]}
           /\ registered' = [registered EXCEPT ![c] = TRUE]
  <2>1. registered'[c] /\ client_id'[c] = i
    BY <1>1, <1>4 DEF Regist, IInv, TypeOK
  <2>2. i \in ClientId
    BY <2>1, InitRegisterIInv DEF IInv, StageOK
  <2>3. Entries(i)' = {[id |-> i, session |-> c]}
    BY <1>4 DEF Entries
  <2>4. SessionIn(Entries(i)') = c
    BY <2>3, OnlyEntry
  <2>5. \A j \in ClientId \ {i} : Entries(j)' = Entries(j)
    BY <1>4 DEF Entries
  <2>6. ListHolder' = [ListHolder EXCEPT ![i] = c]
    BY <2>2, <2>3, <2>4, <2>5 DEF ListHolder
  <2>7. \A s \in Conn \ {c} : stage'[s] = stage[s] /\ registered'[s] = registered[s]
    BY <1>4 DEF Goto, IInv, TypeOK
  <2>8. stage'[c] = "greeting"
    BY <1>4 DEF Goto, IInv, TypeOK
  <2>9. ListStanding' = [ListStanding EXCEPT ![c] = "member"]
    BY <2>1, <2>7, <2>8 DEF ListStanding
  <2>10. ListHolder[i] = None /\ ListStanding[c] = "new"
    BY <1>2, <1>4, <2>2 DEF ListHolder, ListStanding
  <2>11. Directory!Claim(i, c)
    BY <2>6, <2>9, <2>10 DEF Directory!Claim
  <2> QED BY <2>2, <2>11 DEF Directory!DirNext
<1> QED BY <1>1, <1>3, <1>4 DEF Regist

(* unregist_session releases the ID its session holds. *)
LEMMA UnregistDirectory ==
  ASSUME IInv, LInv, NEW c \in Conn, Unregist(c)
  PROVE  Directory!DirNext
<1>0. PICK i, e : i = client_id[c] /\ e = [id |-> i, session |-> c]
  OBVIOUS
<1>1. c \in Members /\ registered[c] /\ stage[c] = "unlisting" /\ i \in ClientId
  BY <1>0, UnregistLInv DEF Unregist, Members, IInv, StageOK
<1>2. Entries(i) = {e}
  BY <1>0, <1>1, OwnEntry
<1>3. session_list' = session_list \ {e} /\ registered' = registered
  BY <1>0, <1>2 DEF Unregist
<1>4. Entries(i)' = {} /\ \A j \in ClientId \ {i} : Entries(j)' = Entries(j)
  BY <1>2, <1>3 DEF Entries
<1>5. SessionIn(Entries(i)) = c
  BY <1>0, <1>2, OnlyEntry
<1>6. stage' = [stage EXCEPT ![c] = "dead"] /\ stage \in [Conn -> Stages]
  BY DEF Unregist, Goto, IInv, TypeOK
<1>7. ListHolder[i] = c /\ ListHolder' = [ListHolder EXCEPT ![i] = None]
  BY <1>1, <1>2, <1>4, <1>5 DEF ListHolder
<1>8. ListStanding[c] = "member" /\ ListStanding' = [ListStanding EXCEPT ![c] = "past"]
  BY <1>1, <1>3, <1>6 DEF ListStanding
<1>9. Directory!Release(i, c)
  BY <1>7, <1>8 DEF Directory!Release
<1> QED BY <1>1, <1>9 DEF Directory!DirNext

(* Through Manager::session_list_ an ID belongs to one session at a time,   *)
(* which takes it when it is free and alone gives it back: every step of    *)
(* the server is a step of ClientDirectory, or leaves it unchanged.         *)
THEOREM ServerImplementsDirectory == Spec => DirectorySpec
<1>1. ASSUME IInv, LInv, [Next]_vars
      PROVE  Directory!DirNext \/ UNCHANGED Directory!dirVars
  <2>1. CASE PeerNext
    BY <2>1, PeerFrame, FrameDirectory
  <2>2. CASE Main
    BY <1>1, <2>2, MainFrame, FrameDirectory, RegisterDirectory
  <2>3. CASE \E c \in Conn : Thread(c)
    BY <1>1, <2>3, ThreadFrame, FrameDirectory, UnregistDirectory
  <2>4. CASE UNCHANGED vars
    BY <2>4, FrameDirectory DEF vars, listVars, Frame
  <2> QED BY <1>1, <2>1, <2>2, <2>3, <2>4 DEF Next
<1>2. IInv /\ LInv /\ [Next]_vars => [Directory!DirNext]_(Directory!dirVars)
  BY <1>1
<1> QED BY InitDirectory, LInvCorrect, <1>2, PTL
        DEF Spec, DirectorySpec, Directory!DirSpec

-----------------------------------------------------------------------------
(* Registration answers. *)

(* What a client may ask to be registered as is what it has said.           *)
HelloOK ==
  \A c \in Conn : \A k \in DOMAIN inbox[c] :
    inbox[c][k].type = "REGISTER_CLIENT" => inbox[c][k].id = hello[c]

(* The main thread has one session in its hands, whose descriptor number    *)
(* refers to its own connection: others may close it under the main thread, *)
(* but only the main thread opens one.                                      *)
InHand ==
  /\ \A c \in Conn : stage[c] \in MainStages => owner[clnt_sock[c]] \in {c, None}
  /\ \A c, d \in Conn : stage[c] \in MainStages /\ stage[d] \in MainStages => c = d

(* A session is answered once, for the ID it read, and not before it has    *)
(* been listed or refused.                                                  *)
Undecided == {"unborn", "init", "greeting", "refusing"}
AnswersOK ==
  \A c \in Conn :
    /\ stage[c] \in {"greeting", "refusing"} => client_id[c] = hello[c]
    /\ stage[c] \in Undecided => Answers(c) = {}
    /\ \A k \in Answers(c) : /\ wire[c][k].id = hello[c]
                             /\ registered[c] <=> wire[c][k].type = "REGISTER_DONE"
                             /\ \A j \in Answers(c) : j = k

AInv == SocketOK /\ HelloOK /\ InHand /\ AnswersOK

(* Taking a message from an inbox keeps HelloOK. *)
LEMMA TakeHello ==
  ASSUME TypeOK, HelloOK, NEW o \in Conn, inbox[o] # <<>>, Take(o), hello' = hello
  PROVE  HelloOK'
<1>1. inbox \in [Conn -> Seq(Request)] /\ inbox[o] \in Seq(Request)
  BY DEF TypeOK
<1>2. \A k \in DOMAIN Tail(inbox[o]) : k + 1 \in DOMAIN inbox[o] /\ Tail(inbox[o])[k] = inbox[o][k+1]
  BY <1>1, HeadTailProperties, LenProperties, EmptySeq
<1> QED BY <1>1, <1>2 DEF HelloOK, Take

(* So does a message put there, if it asks for no registration or is what   *)
(* the client says first.                                                   *)
LEMMA PutHello ==
  ASSUME TypeOK, HelloOK, NEW o \in Conn, NEW m \in Request, Put(o, m),
         \A c \in Conn \ {o} : hello'[c] = hello[c],
         \/ m.type # "REGISTER_CLIENT" /\ hello' = hello
         \/ hello[o] = None /\ hello'[o] = m.id
  PROVE  HelloOK'
<1>1. inbox \in [Conn -> Seq(Request)] /\ inbox[o] \in Seq(Request)
  BY DEF TypeOK
<1> DEFINE b == Append(inbox[o], m)
<1>2. /\ \A k \in DOMAIN inbox[o] : b[k] = inbox[o][k] /\ inbox[o][k] \in Request
      /\ b[Len(inbox[o])+1] = m
      /\ \A k \in DOMAIN b : k \in DOMAIN inbox[o] \/ k = Len(inbox[o]) + 1
  BY <1>1, AppendProperties, LenProperties, ElementOfSeq
<1>3. inbox' = [inbox EXCEPT ![o] = b]
  BY DEF Put
<1>4. ASSUME NEW k \in DOMAIN b, b[k].type = "REGISTER_CLIENT" PROVE b[k].id = hello'[o]
  <2>1. CASE k = Len(inbox[o]) + 1
    BY <1>2, <1>4, <2>1
  <2>2. CASE k \in DOMAIN inbox[o]
    <3>1. inbox[o][k].id = hello[o] /\ inbox[o][k].id \in ClientId
      BY <1>2, <1>4, <2>2 DEF HelloOK, Request
    <3> QED BY <1>2, <2>2, <3>1, NoneAssumption
  <2> QED BY <1>2, <2>1, <2>2
<1> HIDE DEF b
<1> QED BY <1>1, <1>3, <1>4 DEF HelloOK

(* Every step keeps HelloOK. *)
LEMMA NextHello == ASSUME IInv, AInv, [Next]_vars PROVE HelloOK'
<1> USE DEF IInv, AInv, peerVars
<1>1. CASE PeerNext
  <2>1. ASSUME NEW c \in Conn, Connect(c) \/ Leave(c) PROVE HelloOK'
    BY <2>1 DEF Connect, Leave, HelloOK
  <2>2. ASSUME NEW c \in Conn, Hello(c) PROVE HelloOK'
    <3>1. PICK i \in ClientId : /\ hello[c] = None /\ hello' = [hello EXCEPT ![c] = i]
                                /\ Put(c, [type |-> "REGISTER_CLIENT", id |-> i])
      BY <2>2 DEF Hello
    <3>2. [type |-> "REGISTER_CLIENT", id |-> i] \in Request
      BY DEF Request
    <3>3. hello'[c] = i /\ \A d \in Conn \ {c} : hello'[d] = hello[d]
      BY <3>1 DEF TypeOK
    <3> QED BY <3>1, <3>2, <3>3, PutHello
  <2>3. ASSUME NEW c \in Conn, NEW m, m.type # "REGISTER_CLIENT", Put(c, m), hello' = hello,
               m \in Request
        PROVE  HelloOK'
    BY <2>3, PutHello
  <2>4. ASSUME NEW c \in Conn, AddDevice(c) PROVE HelloOK'
    BY <2>3, <2>4 DEF AddDevice, Request
  <2>5. ASSUME NEW i \in Known, PythonSends([type |-> "REQ_ACTUATOR_OPERATION", id |-> i])
        PROVE  HelloOK'
    <3>1. i \in ClientId
      <4>1. PICK k \in DOMAIN wire[Python] : i = wire[Python][k].id
        BY DEF Known
      <4>2. wire[Python] \in Seq(Reply)
        BY PythonAssumption DEF TypeOK
      <4>3. wire[Python][k] \in Reply
        BY <4>2
      <4> QED BY <4>1, <4>3 DEF Reply
    <3> QED BY <2>3, <2>5, <3>1, PythonAssumption DEF PythonSends, Request
  <2>6. ASSUME PythonSends([type |-> "IPC_REQ_ALL_DEVICE_INFO", id |-> None]) PROVE HelloOK'
    BY <2>3, <2>6, PythonAssumption DEF PythonSends, Request
  <2> QED BY <1>1, <2>1, <2>2, <2>4, <2>5, <2>6 DEF PeerNext
<1>2. ASSUME UNCHANGED <<inbox, hello>> PROVE HelloOK'
  BY <1>2 DEF HelloOK
<1>3. ASSUME NEW c \in Conn,
             \/ AcceptIpc(c) \/ Accept(c) \/ InitLost(c) \/ SendDone(c) \/ SendFailed(c)
             \/ DropRejected(c)
      PROVE  HelloOK'
  BY <1>2, <1>3 DEF AcceptIpc, Accept, InitLost, SendDone, SendFailed, DropRejected, Destroy
<1>4. ASSUME NEW c \in Conn, InitOther(c) \/ InitRegister(c) PROVE HelloOK'
  <2> DEFINE o == owner[clnt_sock[c]]
  <2>1. stage[c] = "init" /\ o # None /\ inbox[o] # <<>> /\ Take(o) /\ hello' = hello
    BY <1>4 DEF InitOther, InitRegister
  <2>2. o \in Conn
    BY <2>1 DEF TypeOK
  <2> QED BY <2>1, <2>2, TakeHello
<1>5. ASSUME NEW c \in Conn, Got(c) PROVE HelloOK'
  BY <1>5, TakeHello DEF Got, TypeOK
<1>6. ASSUME NEW c \in Conn, Thread(c) PROVE HelloOK'
  <2>1. CASE HandleDevice(c) \/ HandleNothing(c) \/ LookUp(c) \/ ListDevices(c)
    BY <1>5, <2>1 DEF HandleDevice, HandleNothing, LookUp, ListDevices
  <2>2. CASE \/ Read(c) \/ HangUp(c) \/ AnswerDevice(c) \/ InformPython(c) \/ DropReturned(c)
             \/ Unregist(c) \/ Operate(c) \/ ListOne(c) \/ ListDone(c)
    BY <1>2, <2>2 DEF Read, HangUp, AnswerDevice, InformPython, DropReturned, Destroy, Unregist,
                      Operate, ListOne, ListDone
  <2> QED BY <1>6, <2>1, <2>2 DEF Thread
<1>7. CASE UNCHANGED vars
  BY <1>2, <1>7 DEF vars
<1> QED BY <1>1, <1>3, <1>4, <1>6, <1>7 DEF Next, Main

(* Steps that open no descriptor, and take nothing into the main thread's   *)
(* hands, keep InHand.                                                      *)
LEMMA FrameInHand ==
  ASSUME IInv, InHand, clnt_sock' = clnt_sock, \A f \in Fd : owner'[f] \in {owner[f], None},
         \A c \in Conn : stage'[c] \in MainStages => stage[c] \in MainStages
  PROVE  InHand'
BY DEF InHand, IInv, TypeOK, MainStages

(* close() only frees a descriptor. *)
LEMMA CloseFrees ==
  ASSUME TypeOK, NEW f, Close(f) PROVE \A g \in Fd : owner'[g] \in {owner[g], None}
BY DEF Close, TypeOK

(* Every step keeps InHand. *)
LEMMA NextInHand == ASSUME IInv, SocketOK, InHand, [Next]_vars PROVE InHand'
<1> USE DEF peerVars, ipcVars, listVars
<1>1. ASSUME UNCHANGED <<owner, clnt_sock>>,
             \A c \in Conn : stage'[c] \in MainStages => stage[c] \in MainStages
      PROVE  InHand'
  BY <1>1, FrameInHand
<1>2. ASSUME NEW c \in Conn, NEW st, Goto(c, st), st \notin MainStages \/ stage[c] \in MainStages
      PROVE  \A d \in Conn : stage'[d] \in MainStages => stage[d] \in MainStages
  BY <1>2 DEF Goto, IInv, TypeOK
<1>3. CASE PeerNext
  BY <1>1, <1>3 DEF PeerNext, Connect, Hello, AddDevice, Leave, PythonSends
<1>4. ASSUME NEW c \in Conn, AcceptIpc(c) PROVE InHand'
  <2>1. ipc = None /\ stage' = [stage EXCEPT ![c] = "serving"]
    BY <1>4 DEF AcceptIpc, Goto
  <2>2. \A d \in Conn : stage'[d] \notin MainStages
    BY <2>1 DEF SocketOK, IInv, TypeOK, MainStages
  <2> QED BY <2>2 DEF InHand
<1>5. ASSUME NEW c \in Conn, Accept(c) PROVE InHand'
  <2>1. /\ \A d \in Conn : stage[d] \notin MainStages
        /\ stage' = [stage EXCEPT ![c] = "init"]
    BY <1>5 DEF Accept, Goto
  <2>2. PICK f \in Fd : owner' = [owner EXCEPT ![f] = c] /\ clnt_sock' = [clnt_sock EXCEPT ![c] = f]
    BY <1>5 DEF Accept, Open
  <2>3. \A d \in Conn : stage'[d] \in MainStages => d = c
    BY <2>1 DEF IInv, TypeOK
  <2>4. owner'[clnt_sock'[c]] = c
    BY <2>2 DEF IInv, TypeOK
  <2> QED BY <2>3, <2>4 DEF InHand
<1>6. ASSUME NEW c \in Conn, Close(clnt_sock[c]), clnt_sock' = clnt_sock,
             \A d \in Conn : stage'[d] \in MainStages => stage[d] \in MainStages
      PROVE  InHand'
  BY <1>6, CloseFrees, FrameInHand DEF IInv
<1>7. ASSUME NEW c \in Conn, InitLost(c) \/ DropRejected(c) PROVE InHand'
  <2>1. /\ stage[c] \in MainStages /\ \E st : Goto(c, st)
        /\ Close(clnt_sock[c]) /\ clnt_sock' = clnt_sock
    BY <1>7 DEF InitLost, DropRejected, Destroy, MainStages
  <2> QED BY <1>2, <1>6, <2>1
<1>8. ASSUME NEW c \in Conn, InitOther(c) \/ InitRegister(c) \/ SendDone(c) \/ SendFailed(c)
      PROVE  InHand'
  <2>1. /\ stage[c] \in MainStages /\ \E st : Goto(c, st) /\ UNCHANGED <<owner, clnt_sock>>
    BY <1>8 DEF InitOther, InitRegister, Regist, SendDone, SendFailed, MainStages
  <2> QED BY <1>1, <1>2, <2>1
<1>9. ASSUME NEW c \in Conn, Thread(c) PROVE InHand'
  <2>1. CASE HangUp(c) \/ DropReturned(c)
    <3>1. /\ \E st : st \notin MainStages /\ Goto(c, st)
          /\ Close(clnt_sock[c]) /\ clnt_sock' = clnt_sock
      BY <2>1 DEF HangUp, DropReturned, Destroy, MainStages
    <3> QED BY <1>2, <1>6, <3>1
  <2>2. CASE \/ Read(c) \/ HandleNothing(c) \/ HandleDevice(c) \/ LookUp(c) \/ ListDevices(c)
             \/ AnswerDevice(c) \/ InformPython(c) \/ Unregist(c) \/ Operate(c)
             \/ ListOne(c) \/ ListDone(c)
    <3>1. UNCHANGED <<owner, clnt_sock>>
      BY <2>2 DEF Read, HandleNothing, HandleDevice, LookUp, ListDevices, Got, AnswerDevice,
         InformPython, Unregist, Operate, ListOne, ListDone
    <3>2. UNCHANGED stage \/ \E st : st \notin MainStages /\ Goto(c, st)
      BY <2>2 DEF Read, HandleNothing, HandleDevice, LookUp, ListDevices, AnswerDevice,
         InformPython, Unregist, Operate, ListOne, ListDone, MainStages
    <3> QED BY <1>1, <1>2, <3>1, <3>2
  <2> QED BY <1>9, <2>1, <2>2 DEF Thread
<1>10. CASE UNCHANGED vars
  BY <1>1, <1>10 DEF vars
<1> QED BY <1>3, <1>4, <1>5, <1>7, <1>8, <1>9, <1>10 DEF Next, Main

(* What a send adds to the answers: nothing, or the message, if it is one.  *)
LEMMA WriteAnswers ==
  ASSUME TypeOK, NEW f, NEW m \in Reply, Write(f, m)
  PROVE  \A c \in Conn :
           /\ \A k \in Answers(c) : k \in Answers(c)' /\ wire'[c][k] = wire[c][k]
           /\ \A k \in Answers(c)' :
                \/ k \in Answers(c)
                \/ /\ c = owner[f] /\ k = Len(wire[c]) + 1 /\ wire'[c][k] = m
                   /\ m.about = "client"
<1>1. CASE UNCHANGED wire
  BY <1>1 DEF Answers
<1>2. CASE wire' = [wire EXCEPT ![owner[f]] = Append(@, m)] /\ owner[f] # None
  <2> SUFFICES ASSUME NEW c \in Conn
               PROVE  /\ \A k \in Answers(c) : k \in Answers(c)' /\ wire'[c][k] = wire[c][k]
                      /\ \A k \in Answers(c)' :
                           \/ k \in Answers(c)
                           \/ /\ c = owner[f] /\ k = Len(wire[c]) + 1 /\ wire'[c][k] = m
                              /\ m.about = "client"
    OBVIOUS
  <2>1. wire \in [Conn -> Seq(Reply)]
    BY DEF TypeOK
  <2>2. CASE c # owner[f]
    <3>1. wire'[c] = wire[c]
      BY <1>2, <2>1, <2>2
    <3> QED BY <3>1 DEF Answers
  <2>3. CASE c = owner[f]
    <3> DEFINE b == Append(wire[c], m)
    <3>1. wire'[c] = b
      BY <1>2, <2>1, <2>3
    <3>2. /\ \A k \in DOMAIN wire[c] : k \in DOMAIN b /\ b[k] = wire[c][k]
          /\ b[Len(wire[c])+1] = m
          /\ \A k \in DOMAIN b : k \in DOMAIN wire[c] \/ k = Len(wire[c]) + 1
      BY <2>1, AppendProperties, LenProperties
    <3> HIDE DEF b
    <3> QED BY <2>3, <3>1, <3>2 DEF Answers
  <2> QED BY <2>2, <2>3
<1> QED BY <1>1, <1>2 DEF Write

(* Steps that decide no registration and write no answer to one. *)
Deciding == {"greeting", "refusing"}
Silent == /\ UNCHANGED <<client_id, registered>>
          /\ \A c \in Conn :
               /\ hello[c] # None => hello'[c] = hello[c]
               /\ stage'[c] \in Undecided => stage[c] \in Undecided
               /\ stage'[c] \in Deciding => stage'[c] = stage[c]
               /\ Answers(c)' = Answers(c)
               /\ \A k \in Answers(c) : wire'[c][k] = wire[c][k]

(* They keep AnswersOK. *)
LEMMA SilentAnswers == ASSUME IInv, AnswersOK, Silent PROVE AnswersOK'
<1> SUFFICES ASSUME NEW c \in Conn
             PROVE  /\ stage'[c] \in Deciding => client_id[c] = hello'[c]
                    /\ stage'[c] \in Undecided => Answers(c) = {}
                    /\ \A k \in Answers(c) : /\ wire[c][k].id = hello'[c]
                                             /\ registered[c] <=> wire[c][k].type = "REGISTER_DONE"
                                             /\ \A j \in Answers(c) : j = k
  BY DEF Silent, AnswersOK, Deciding
<1>1. stage[c] \in Deciding => client_id[c] \in ClientId
  BY DEF Deciding, IInv, StageOK
<1>2. \A k \in Answers(c) : wire[c][k].id \in ClientId
  <2>1. wire[c] \in Seq(Reply)
    BY DEF IInv, TypeOK
  <2>2. \A k \in DOMAIN wire[c] : wire[c][k] \in Reply
    BY <2>1, ElementOfSeq, LenProperties
  <2> QED BY <2>2 DEF Answers, Reply
<1> QED BY <1>1, <1>2, NoneAssumption DEF Silent, AnswersOK, Deciding

(* The main thread answers the session in its hands, and no other. *)
LEMMA DecidedAnswers ==
  ASSUME IInv, InHand, AnswersOK, NEW c \in Conn, SendDone(c) \/ SendFailed(c)
  PROVE  AnswersOK'
<1> DEFINE f == clnt_sock[c]
<1>1. /\ stage[c] \in Deciding /\ f \in Fd /\ owner[f] \in {c, None} /\ client_id[c] = hello[c]
      /\ client_id[c] \in ClientId /\ Answers(c) = {}
      /\ registered[c] <=> stage[c] = "greeting"
  BY DEF SendDone, SendFailed, IInv, TypeOK, StageOK, InHand, MainStages, AnswersOK, Undecided, Deciding
<1>2. PICK m \in Reply : /\ Write(f, m) /\ m.id = client_id[c]
                         /\ m.type = "REGISTER_DONE" <=> stage[c] = "greeting"
  <2>1. CASE SendDone(c)
    BY <1>1, <2>1 DEF SendDone, Reply, AboutClient
  <2>2. CASE SendFailed(c)
    BY <1>1, <2>2 DEF SendFailed, Reply, AboutClient
  <2> QED BY <2>1, <2>2
<1>3. UNCHANGED <<hello, client_id, registered>> /\ \E st \in {"serving", "rejected"} : Goto(c, st)
  BY DEF SendDone, SendFailed, peerVars, listVars
<1>4. /\ stage'[c] \notin Undecided
      /\ \A d \in Conn \ {c} : stage'[d] = stage[d]
  BY <1>3 DEF Goto, IInv, TypeOK, Undecided
<1>5. \A d \in Conn :
        /\ \A k \in Answers(d) : k \in Answers(d)' /\ wire'[d][k] = wire[d][k]
        /\ \A k \in Answers(d)' :
             \/ k \in Answers(d)
             \/ d = owner[f] /\ k = Len(wire[d]) + 1 /\ wire'[d][k] = m
  BY <1>1, <1>2, WriteAnswers DEF IInv
<1>6. \A k \in Answers(c)' : k = Len(wire[c]) + 1 /\ wire'[c][k] = m
  BY <1>1, <1>5
<1>7. ASSUME NEW d \in Conn \ {c} PROVE Answers(d)' = Answers(d)
  <2>1. d # owner[f]
    BY <1>1, <1>7, NoneAssumption
  <2> QED BY <1>5, <2>1
<1> SUFFICES ASSUME NEW d \in Conn
             PROVE  /\ stage'[d] \in Deciding => client_id[d] = hello[d]
                    /\ stage'[d] \in Undecided => Answers(d)' = {}
                    /\ \A k \in Answers(d)' :
                         /\ wire'[d][k].id = hello[d]
                         /\ registered[d] <=> wire'[d][k].type = "REGISTER_DONE"
                         /\ \A j \in Answers(d)' : j = k
  BY <1>3 DEF AnswersOK, Deciding
<1>8. CASE d = c
  BY <1>1, <1>2, <1>4, <1>6, <1>8 DEF Deciding, Undecided
<1>9. CASE d # c
  BY <1>4, <1>5, <1>7, <1>9 DEF AnswersOK, Deciding
<1> QED BY <1>8, <1>9

(* A session is registered under the ID its own client has said. *)
LEMMA RegisterAnswers ==
  ASSUME IInv, HelloOK, InHand, AnswersOK, NEW c \in Conn, InitRegister(c)
  PROVE  AnswersOK'
<1> DEFINE o == owner[clnt_sock[c]]
           i == Head(inbox[o]).id
<1>1. /\ stage[c] = "init" /\ o = c /\ inbox[c] # <<>> /\ Head(inbox[o]).type = "REGISTER_CLIENT"
      /\ Regist(c, i) /\ UNCHANGED <<hello, wire>>
  BY DEF InitRegister, InHand, MainStages, peerVars
<1>2. i = hello[c]
  <2>1. inbox[c] \in Seq(Request)
    BY DEF IInv, TypeOK
  <2>2. Head(inbox[c]) = inbox[c][1] /\ 1 \in DOMAIN inbox[c]
    BY <1>1, <2>1, HeadTailProperties, LenProperties, EmptySeq
  <2> QED BY <1>1, <2>2 DEF HelloOK
<1>3. /\ client_id' = [client_id EXCEPT ![c] = i]
      /\ registered' = [registered EXCEPT ![c] = TRUE] \/ registered' = registered
      /\ \E st \in Deciding : Goto(c, st)
  BY <1>1 DEF Regist, Deciding
<1>4. /\ client_id'[c] = hello[c] /\ stage'[c] \in Undecided /\ Answers(c) = {}
      /\ \A d \in Conn \ {c} :
           client_id'[d] = client_id[d] /\ registered'[d] = registered[d] /\ stage'[d] = stage[d]
  BY <1>1, <1>2, <1>3 DEF Goto, IInv, TypeOK, AnswersOK, Undecided, Deciding
<1>5. \A d \in Conn : Answers(d)' = Answers(d)
  BY <1>1 DEF Answers
<1> SUFFICES ASSUME NEW d \in Conn
             PROVE  /\ stage'[d] \in Deciding => client_id'[d] = hello[d]
                    /\ stage'[d] \in Undecided => Answers(d) = {}
                    /\ \A k \in Answers(d) :
                         /\ wire[d][k].id = hello[d]
                         /\ registered'[d] <=> wire[d][k].type = "REGISTER_DONE"
                         /\ \A j \in Answers(d) : j = k
  BY <1>1, <1>5 DEF AnswersOK, Deciding
<1>6. CASE d = c
  BY <1>4, <1>6
<1>7. CASE d # c
  BY <1>4, <1>7 DEF AnswersOK, Deciding
<1> QED BY <1>6, <1>7

(* Every step keeps AnswersOK. *)
LEMMA NextAnswers ==
  ASSUME IInv, SocketOK, HelloOK, InHand, AnswersOK, [Next]_vars
  PROVE  AnswersOK'
<1> USE DEF peerVars, ipcVars, listVars
<1>1. ASSUME UNCHANGED <<client_id, registered, wire>>,
             \A c \in Conn : /\ hello[c] # None => hello'[c] = hello[c]
                             /\ stage'[c] \in Undecided => stage[c] \in Undecided
                             /\ stage'[c] \in Deciding => stage'[c] = stage[c]
      PROVE  AnswersOK'
  <2>1. \A c \in Conn : Answers(c)' = Answers(c)
    BY <1>1 DEF Answers
  <2> QED BY <1>1, <2>1, SilentAnswers DEF Silent
<1>2. ASSUME NEW c \in Conn, NEW st, Goto(c, st), st \notin Undecided
      PROVE  \A d \in Conn : /\ stage'[d] \in Undecided => stage[d] \in Undecided
                             /\ stage'[d] \in Deciding => stage'[d] = stage[d]
  BY <1>2 DEF Goto, IInv, TypeOK, Undecided, Deciding
<1>3. ASSUME NEW f, NEW m \in Reply, Write(f, m),
             m.about = "device",
             UNCHANGED <<client_id, registered, hello>>,
             \A d \in Conn : /\ stage'[d] \in Undecided => stage[d] \in Undecided
                             /\ stage'[d] \in Deciding => stage'[d] = stage[d]
      PROVE  AnswersOK'
  <2>1. ASSUME NEW c \in Conn
        PROVE  /\ Answers(c)' = Answers(c)
               /\ \A k \in Answers(c) : wire'[c][k] = wire[c][k]
    <3>1. /\ \A k \in Answers(c) : k \in Answers(c)' /\ wire'[c][k] = wire[c][k]
          /\ \A k \in Answers(c)' : k \in Answers(c)
      BY <1>3, WriteAnswers DEF IInv
    <3> QED BY <3>1
  <2> QED BY <1>3, <2>1, SilentAnswers DEF Silent
<1>4. CASE PeerNext
  <2>1. UNCHANGED <<client_id, registered, wire, stage>>
    BY <1>4 DEF PeerNext, Connect, Hello, AddDevice, Leave, PythonSends
  <2>2. \A c \in Conn : hello[c] # None => hello'[c] = hello[c]
    BY <1>4 DEF PeerNext, Connect, Hello, AddDevice, Leave, PythonSends, IInv, TypeOK
  <2> QED BY <1>1, <2>1, <2>2
<1>5. ASSUME NEW c \in Conn, AcceptIpc(c) PROVE AnswersOK'
  <2>1. Goto(c, "serving") /\ UNCHANGED <<client_id, registered, wire, hello>>
    BY <1>5 DEF AcceptIpc
  <2> QED BY <1>1, <1>2, <2>1 DEF Undecided
<1>6. ASSUME NEW c \in Conn, Accept(c) PROVE AnswersOK'
  <2>1. Goto(c, "init") /\ UNCHANGED <<client_id, registered, wire, hello>>
    BY <1>6 DEF Accept
  <2>2. stage[c] = "unborn"
    BY <1>6, PopBacklog DEF Accept, Goto, IInv
  <2> QED BY <1>1, <2>1, <2>2 DEF Goto, IInv, TypeOK, Undecided, Deciding
<1>7. ASSUME NEW c \in Conn, InitLost(c) \/ InitOther(c) \/ DropRejected(c) PROVE AnswersOK'
  <2>1. /\ \E st \in {"rejected", "unlisting", "dead"} : Goto(c, st)
        /\ UNCHANGED <<client_id, registered, wire, hello>>
    BY <1>7 DEF InitLost, InitOther, DropRejected, Destroy
  <2> QED BY <1>1, <1>2, <2>1 DEF Undecided
<1>8. ASSUME NEW c \in Conn, Thread(c) PROVE AnswersOK'
  <2>1. CASE \/ Read(c) \/ HangUp(c) \/ DropReturned(c) \/ Unregist(c) \/ ListDone(c)
             \/ HandleNothing(c) \/ HandleDevice(c) \/ LookUp(c) \/ ListDevices(c)
    <3>1. UNCHANGED <<client_id, registered, wire, hello>>
      BY <2>1 DEF Read, HangUp, DropReturned, Destroy, Unregist, ListDone, HandleNothing,
                  HandleDevice, LookUp, ListDevices, Got
    <3>2. UNCHANGED stage \/ \E st \in {"closed", "returned", "unlisting", "dead", "serving",
                                        "answering", "operating", "listing"} : Goto(c, st)
      BY <2>1 DEF Read, HangUp, DropReturned, Destroy, Unregist, ListDone, HandleNothing,
                  HandleDevice, LookUp, ListDevices
    <3> QED BY <1>1, <1>2, <3>1, <3>2 DEF Undecided
  <2>2. CASE AnswerDevice(c) \/ InformPython(c)
    <3>1. client_id[c] \in ClientId /\ c # ipc
      BY <2>2 DEF AnswerDevice, InformPython, IInv, StageOK
    <3>2. /\ \E st \in {"informing", "serving"} : Goto(c, st)
          /\ UNCHANGED <<client_id, registered, hello>>
          /\ \E f : \E type \in {"REGISTER_DONE", "DEVICE_INFO"} :
               Write(f, AboutDevice(type, client_id[c]))
      BY <2>2 DEF AnswerDevice, InformPython
    <3> QED BY <1>2, <1>3, <3>1, <3>2 DEF Undecided, Reply, AboutDevice
  <2>3. CASE Operate(c)
    <3>1. operation.session \in Conn /\ operation.id \in ClientId
      BY <2>3 DEF Operate, IInv, TypeOK
    <3>2. Goto(c, "serving") /\ UNCHANGED <<client_id, registered, hello>>
      BY <2>3 DEF Operate
    <3>3. CASE UNCHANGED wire
      BY <1>1, <1>2, <3>2, <3>3 DEF Undecided
    <3>4. CASE wire' # wire
      <4>1. Write(clnt_sock[operation.session],
                  AboutDevice("REQ_ACTUATOR_OPERATION", operation.id))
        BY <2>3, <3>4 DEF Operate
      <4> QED BY <1>2, <1>3, <3>1, <3>2, <4>1 DEF Undecided, Reply, AboutDevice
    <3> QED BY <3>3, <3>4
  <2>4. CASE ListOne(c)
    <3>1. \E i \in ClientId : Write(clnt_sock[c], AboutDevice("DEVICE_INFO", i))
      BY <2>4 DEF ListOne, IInv, TypeOK
    <3>2. UNCHANGED <<client_id, registered, hello, stage>>
      BY <2>4 DEF ListOne
    <3> QED BY <1>3, <3>1, <3>2 DEF Reply, AboutDevice
  <2> QED BY <1>8, <2>1, <2>2, <2>3, <2>4 DEF Thread
<1>9. CASE UNCHANGED vars
  BY <1>1, <1>9 DEF vars
<1> QED BY <1>4, <1>5, <1>6, <1>7, <1>8, <1>9, RegisterAnswers, DecidedAnswers DEF Next, Main

(* What AnswersOK says of the answers on a connection is what               *)
(* RegistrationAnswered says.                                               *)
LEMMA AnsweredRight == AnswersOK => RegistrationAnswered
<1> SUFFICES ASSUME AnswersOK, NEW c \in Conn PROVE Cardinality(Answers(c)) <= 1
  BY DEF AnswersOK, RegistrationAnswered
<1>1. CASE Answers(c) = {}
  BY <1>1, FS_EmptySet
<1>2. ASSUME NEW k \in Answers(c) PROVE Cardinality(Answers(c)) <= 1
  <2>1. Answers(c) = {k}
    BY <1>2 DEF AnswersOK
  <2> QED BY <2>1, FS_Singleton
<1> QED BY <1>1, <1>2

(* A connection gets at most one registration answer, for the ID its client *)
(* asked for, REGISTER_DONE if its session was listed and REGISTER_FAILED   *)
(* if not: the main thread answers while it alone opens descriptors.        *)
THEOREM AnswersRight == Spec => []RegistrationAnswered
<1>1. Init => AInv
  BY NoneAssumption DEF Init, AInv, SocketOK, HelloOK, InHand, AnswersOK, Answers, MainStages
<1>2. IInv /\ AInv /\ [Next]_vars => AInv'
  BY NextSocket, NextHello, NextInHand, NextAnswers DEF AInv
<1>3. AInv => RegistrationAnswered
  BY AnsweredRight DEF AInv
<1> QED BY InitIInv, NextIInv, <1>1, <1>2, <1>3, PTL DEF Spec

-----------------------------------------------------------------------------
(* Who a REGISTER_DONE may reach. *)

Writing == {"init", "greeting", "refusing", "serving", "answering", "informing"}

(* A descriptor refers to the connection accept() returned it for, whose    *)
(* object has not closed it yet.                                            *)
OwnerOK ==
  \A f \in Fd : \A c \in Conn :
    owner[f] = c => clnt_sock[c] = f /\ stage[c] \notin GaveAway \cup {"unborn"}

(* A session whose number does not refer to its connection any more has had *)
(* it closed by another that had the number before.                         *)
LostOK ==
  \A d \in Conn :
    stage[d] \in Writing /\ d # ipc /\ owner[clnt_sock[d]] # d =>
      \E e \in Conn \ {d} : clnt_sock[e] = clnt_sock[d] /\ stage[e] \in GaveAway

(* A step that opens and closes nothing keeps both. *)
LEMMA FrameLost ==
  ASSUME IInv, OwnerOK, LostOK, UNCHANGED <<owner, clnt_sock, ipc>>,
         \A d \in Conn : /\ stage'[d] \in Writing /\ d # ipc => stage[d] \in Writing
                         /\ stage'[d] \in GaveAway \cup {"unborn"} <=>
                              stage[d] \in GaveAway \cup {"unborn"}
                         /\ stage'[d] = "unborn" <=> stage[d] = "unborn"
  PROVE  OwnerOK' /\ LostOK'
<1>1. OwnerOK'
  BY DEF OwnerOK
<1>2. \A e \in Conn : stage[e] \in GaveAway => stage'[e] \in GaveAway
  BY DEF GaveAway
<1> QED BY <1>1, <1>2 DEF LostOK

(* Nor does a close() by the number's owner, or one after which the session *)
(* counts among those that have given it away.                              *)
LEMMA CloseLost ==
  ASSUME IInv, OwnerOK, LostOK, NEW c \in Conn, Close(clnt_sock[c]),
         UNCHANGED <<clnt_sock, ipc>>, NEW st, Goto(c, st), st # "unborn",
         stage[c] # "unborn", st \notin Writing,
         st \in GaveAway \/ (stage[c] \notin GaveAway /\ owner[clnt_sock[c]] \in {c, None})
  PROVE  OwnerOK' /\ LostOK'
<1>1. /\ \A g \in Fd : /\ g # clnt_sock[c] => owner'[g] = owner[g]
                       /\ g = clnt_sock[c] => owner'[g] = None
      /\ \A d \in Conn : d # c => stage'[d] = stage[d]
      /\ stage'[c] = st /\ clnt_sock[c] \in Fd
  BY DEF Close, Goto, IInv, TypeOK
<1>2. ASSUME NEW f \in Fd, NEW d \in Conn, owner'[f] = d
      PROVE  clnt_sock[d] = f /\ stage'[d] \notin GaveAway \cup {"unborn"}
  <2>1. f # clnt_sock[c] /\ owner[f] = d
    BY <1>1, <1>2, NoneAssumption
  <2>2. clnt_sock[d] = f /\ stage[d] \notin GaveAway \cup {"unborn"}
    BY <2>1 DEF OwnerOK
  <2> QED BY <1>1, <2>1, <2>2
<1>3. ASSUME NEW d \in Conn, stage'[d] \in Writing, d # ipc, owner'[clnt_sock[d]] # d
      PROVE  \E e \in Conn \ {d} : clnt_sock[e] = clnt_sock[d] /\ stage'[e] \in GaveAway
  <2>1. d # c /\ stage[d] \in Writing /\ clnt_sock[d] \in Fd
    BY <1>1, <1>3 DEF IInv, TypeOK, Writing
  <2>2. CASE owner[clnt_sock[d]] = d
    <3>1. clnt_sock[d] = clnt_sock[c]
      BY <1>1, <1>3, <2>1, <2>2
    <3>2. st \in GaveAway
      BY <2>1, <2>2, <3>1, NoneAssumption
    <3> QED BY <1>1, <2>1, <3>1, <3>2
  <2>3. CASE owner[clnt_sock[d]] # d
    <3>1. PICK e \in Conn \ {d} : clnt_sock[e] = clnt_sock[d] /\ stage[e] \in GaveAway
      BY <1>3, <2>1, <2>3 DEF LostOK
    <3>2. stage'[e] \in GaveAway
      BY <1>1, <3>1
    <3> QED BY <3>1, <3>2
  <2> QED BY <2>2, <2>3
<1> QED BY <1>2, <1>3 DEF OwnerOK, LostOK

(* accept() takes a free number: who had it before has lost it already. *)
LEMMA OpenLost ==
  ASSUME IInv, OwnerOK, LostOK, NEW c \in Conn, stage[c] = "unborn", NEW f \in Fd, Open(c, f),
         NEW st, Goto(c, st), st \notin GaveAway \cup {"unborn"},
         \A d \in Conn \ {c} : d # ipc' => d # ipc
  PROVE  OwnerOK' /\ LostOK'
<1>1. /\ owner[f] = None /\ owner' = [owner EXCEPT ![f] = c]
      /\ clnt_sock' = [clnt_sock EXCEPT ![c] = f]
      /\ stage' = [stage EXCEPT ![c] = st]
  BY DEF Open, FreeFd, Goto
<1>2. /\ owner'[f] = c /\ clnt_sock'[c] = f /\ stage'[c] = st
      /\ \A g \in Fd \ {f} : owner'[g] = owner[g]
      /\ \A d \in Conn \ {c} : clnt_sock'[d] = clnt_sock[d] /\ stage'[d] = stage[d]
  BY <1>1 DEF IInv, TypeOK
<1>3. OwnerOK'
  <2> SUFFICES ASSUME NEW g \in Fd, NEW d \in Conn, owner'[g] = d
               PROVE  clnt_sock'[d] = g /\ stage'[d] \notin GaveAway \cup {"unborn"}
    BY DEF OwnerOK
  <2>1. CASE g = f
    BY <1>2, <2>1
  <2>2. CASE g # f
    BY <1>2, <2>2 DEF OwnerOK
  <2> QED BY <2>1, <2>2
<1>4. LostOK'
  <2> SUFFICES ASSUME NEW d \in Conn, stage'[d] \in Writing, d # ipc', owner'[clnt_sock'[d]] # d
               PROVE  \E e \in Conn \ {d} : clnt_sock'[e] = clnt_sock'[d] /\ stage'[e] \in GaveAway
    BY DEF LostOK
  <2>1. d # c /\ d # ipc /\ stage[d] \in Writing /\ clnt_sock'[d] = clnt_sock[d]
    BY <1>2
  <2>2. clnt_sock[d] \in Fd
    BY <2>1 DEF IInv, TypeOK, Writing
  <2>3. owner[clnt_sock[d]] # d
    BY <1>1, <1>2, <2>1, <2>2, NoneAssumption
  <2>4. PICK e \in Conn \ {d} : clnt_sock[e] = clnt_sock[d] /\ stage[e] \in GaveAway
    BY <2>1, <2>3 DEF LostOK
  <2>5. e # c
    BY <2>4 DEF GaveAway
  <2> QED BY <1>2, <2>1, <2>4, <2>5
<1> QED BY <1>3, <1>4

(* Every step keeps both. *)
LEMMA NextLost ==
  ASSUME IInv, SocketOK, InHand, OwnerOK, LostOK, [Next]_vars PROVE OwnerOK' /\ LostOK'
<1> USE DEF peerVars, ipcVars, listVars
<1>1. ASSUME UNCHANGED <<owner, clnt_sock, ipc, stage>> PROVE OwnerOK' /\ LostOK'
  BY <1>1, FrameLost
<1>2. ASSUME UNCHANGED <<owner, clnt_sock, ipc>>, NEW c \in Conn, NEW st, Goto(c, st),
             \/ c = ipc \/ stage[c] \in Writing \/ st \notin Writing,
             \/ stage[c] = "unlisting" /\ st = "dead"
             \/ stage[c] \notin GaveAway \cup {"unborn"} /\ st \notin GaveAway \cup {"unborn"}
      PROVE  OwnerOK' /\ LostOK'
  <2>1. /\ stage'[c] = st /\ \A d \in Conn \ {c} : stage'[d] = stage[d]
    BY <1>2 DEF Goto, IInv, TypeOK
  <2> QED BY <1>2, <2>1, FrameLost DEF GaveAway
<1>3. CASE PeerNext
  BY <1>1, <1>3 DEF PeerNext, Connect, Hello, AddDevice, Leave, PythonSends
<1>4. ASSUME NEW c \in Conn, AcceptIpc(c) \/ Accept(c) PROVE OwnerOK' /\ LostOK'
  <2>1. PICK f \in Fd : Open(c, f)
    BY <1>4 DEF AcceptIpc, Accept
  <2>2. stage[c] = "unborn"
    BY <1>4, PopBacklog DEF Accept, AcceptIpc, Goto, IInv
  <2>3. PICK st \in {"serving", "init"} : Goto(c, st)
    BY <1>4 DEF AcceptIpc, Accept
  <2>4. \A d \in Conn \ {c} : d # ipc' => d # ipc
    BY <1>4, NoneAssumption DEF AcceptIpc, Accept
  <2> QED BY <2>1, <2>2, <2>3, <2>4, OpenLost DEF GaveAway
<1>5. ASSUME NEW c \in Conn, InitLost(c) PROVE OwnerOK' /\ LostOK'
  <2>1. /\ stage[c] = "init" /\ Goto(c, "rejected") /\ Close(clnt_sock[c])
        /\ UNCHANGED <<clnt_sock, ipc>> /\ owner[clnt_sock[c]] \in {c, None}
    BY <1>5 DEF InitLost, InHand, MainStages
  <2> QED BY <2>1, CloseLost DEF GaveAway, Writing
<1>6. ASSUME NEW c \in Conn, DropRejected(c) \/ DropReturned(c) \/ HangUp(c)
      PROVE  OwnerOK' /\ LostOK'
  <2>1. /\ stage[c] # "unborn" /\ Close(clnt_sock[c]) /\ UNCHANGED <<clnt_sock, ipc>>
        /\ \E st \in GaveAway : Goto(c, st)
    BY <1>6 DEF DropRejected, DropReturned, HangUp, Destroy, GaveAway
  <2>2. \A st \in GaveAway : st \notin Writing /\ st # "unborn"
    BY DEF GaveAway, Writing
  <2> QED BY <2>1, <2>2, CloseLost
<1>7. ASSUME NEW c \in Conn, InitOther(c) \/ InitRegister(c) \/ SendDone(c) \/ SendFailed(c)
      PROVE  OwnerOK' /\ LostOK'
  <2>1. /\ stage[c] \in Writing /\ UNCHANGED <<owner, clnt_sock, ipc>>
        /\ \E st \in {"rejected", "greeting", "refusing", "serving"} : Goto(c, st)
    BY <1>7 DEF InitOther, InitRegister, Regist, SendDone, SendFailed, Writing
  <2> QED BY <1>2, <2>1 DEF Writing, GaveAway
<1>8. ASSUME NEW c \in Conn, \/ Read(c) \/ HandleNothing(c) \/ HandleDevice(c) \/ LookUp(c)
                             \/ ListDevices(c) \/ AnswerDevice(c) \/ InformPython(c)
                             \/ Unregist(c) \/ Operate(c) \/ ListOne(c) \/ ListDone(c)
      PROVE  OwnerOK' /\ LostOK'
  <2>1. UNCHANGED <<owner, clnt_sock, ipc>>
    BY <1>8 DEF Read, HandleNothing, HandleDevice, LookUp, ListDevices, Got, AnswerDevice,
       InformPython, Unregist, Operate, ListOne, ListDone
  <2>2. CASE Read(c) \/ HandleNothing(c) \/ ListOne(c)
    BY <1>1, <2>1, <2>2 DEF Read, HandleNothing, ListOne
  <2>3. CASE HandleDevice(c) \/ AnswerDevice(c) \/ InformPython(c)
    <3>1. /\ stage[c] \in Writing \ {"init", "greeting", "refusing"}
          /\ \E st \in {"answering", "informing", "serving"} : Goto(c, st)
      BY <2>3 DEF HandleDevice, AnswerDevice, InformPython, Got, Writing
    <3> QED BY <1>2, <2>1, <3>1 DEF Writing, GaveAway
  <2>4. CASE LookUp(c) \/ ListDevices(c) \/ Operate(c) \/ ListDone(c)
    <3>1. /\ c = ipc /\ stage[c] \in {"serving", "operating", "listing"}
          /\ \/ UNCHANGED stage
             \/ \E st \in {"operating", "serving", "listing"} : Goto(c, st)
      BY <2>4 DEF LookUp, ListDevices, Operate, ListDone, Got, IInv, StageOK
    <3> QED BY <1>1, <1>2, <2>1, <3>1 DEF Writing, GaveAway
  <2>5. CASE Unregist(c)
    BY <1>2, <2>1, <2>5 DEF Unregist, Writing
  <2> QED BY <1>8, <2>2, <2>3, <2>4, <2>5
<1>9. CASE UNCHANGED vars
  BY <1>1, <1>9 DEF vars
<1> QED BY <1>3, <1>4, <1>5, <1>6, <1>7, <1>8, <1>9 DEF Next, Main, Thread

(* What a connection carries after a send: what it did, or the message.     *)
LEMMA WriteOne ==
  ASSUME TypeOK, NEW f, NEW m \in Reply, Write(f, m)
  PROVE  \A c \in Conn : \A k \in DOMAIN wire'[c] :
           \/ k \in DOMAIN wire[c] /\ wire'[c][k] = wire[c][k]
           \/ c = owner[f] /\ wire'[c][k] = m
<1>1. CASE UNCHANGED wire
  BY <1>1
<1>2. CASE wire' = [wire EXCEPT ![owner[f]] = Append(@, m)] /\ owner[f] # None
  <2> SUFFICES ASSUME NEW c \in Conn, NEW k \in DOMAIN wire'[c]
               PROVE  \/ k \in DOMAIN wire[c] /\ wire'[c][k] = wire[c][k]
                      \/ c = owner[f] /\ wire'[c][k] = m
    OBVIOUS
  <2>1. wire \in [Conn -> Seq(Reply)]
    BY DEF TypeOK
  <2>2. CASE c # owner[f]
    BY <1>2, <2>1, <2>2
  <2>3. CASE c = owner[f]
    <3> DEFINE b == Append(wire[c], m)
    <3>1. wire'[c] = b
      BY <1>2, <2>1, <2>3
    <3>2. /\ \A j \in DOMAIN wire[c] : b[j] = wire[c][j]
          /\ b[Len(wire[c])+1] = m
          /\ \A j \in DOMAIN b : j \in DOMAIN wire[c] \/ j = Len(wire[c]) + 1
      BY <2>1, AppendProperties, LenProperties
    <3> HIDE DEF b
    <3> QED BY <2>3, <3>1, <3>2
  <2> QED BY <2>2, <2>3
<1> QED BY <1>1, <1>2 DEF Write

(* What OwnRegistration allows, once allowed, stays so. *)
Lasting == /\ \A d \in Conn : /\ registered[d] => registered'[d]
                              /\ stage[d] \in GaveAway => stage'[d] \in GaveAway
                              /\ stage[d] # "unborn" => clnt_sock'[d] = clnt_sock[d]
LEMMA NextLasting == ASSUME IInv, [Next]_vars PROVE Lasting
<1> USE DEF peerVars, ipcVars, listVars
<1>1. \A d \in Conn : stage[d] # "unborn" => clnt_sock'[d] = clnt_sock[d]
  <2>1. CASE UNCHANGED clnt_sock
    BY <2>1
  <2>2. ASSUME NEW c \in Conn, NEW f \in Fd, Open(c, f), stage[c] = "unborn"
        PROVE  \A d \in Conn : stage[d] # "unborn" => clnt_sock'[d] = clnt_sock[d]
    BY <2>2 DEF Open, IInv, TypeOK
  <2>3. ASSUME NEW c \in Conn, AcceptIpc(c) \/ Accept(c)
        PROVE  \A d \in Conn : stage[d] # "unborn" => clnt_sock'[d] = clnt_sock[d]
    <3>1. stage[c] = "unborn"
      BY <2>3, PopBacklog DEF Accept, AcceptIpc, Goto, IInv
    <3> QED BY <2>2, <2>3, <3>1 DEF AcceptIpc, Accept
  <2>4. CASE PeerNext
    BY <2>1, <2>4 DEF PeerNext, Connect, Hello, AddDevice, Leave, PythonSends
  <2>5. ASSUME NEW c \in Conn, Thread(c) PROVE UNCHANGED clnt_sock
    BY <2>5 DEF Thread, Read, HandleNothing, HandleDevice, LookUp, ListDevices, Got, AnswerDevice,
       InformPython, Unregist, Operate, ListOne, ListDone, HangUp, DropReturned, Destroy
  <2>6. ASSUME NEW c \in Conn, InitLost(c) \/ InitOther(c) \/ InitRegister(c) \/ SendDone(c)
                               \/ SendFailed(c) \/ DropRejected(c)
        PROVE  UNCHANGED clnt_sock
    BY <2>6 DEF InitLost, InitOther, InitRegister, SendDone, SendFailed, DropRejected, Destroy
  <2>7. CASE UNCHANGED vars
    BY <2>1, <2>7 DEF vars
  <2> QED BY <2>1, <2>3, <2>4, <2>5, <2>6, <2>7 DEF Next, Main
<1>2. \A d \in Conn : registered[d] => registered'[d]
  <2>1. ASSUME NEW c \in Conn, InitRegister(c) PROVE \A d \in Conn : registered[d] => registered'[d]
    BY <2>1 DEF InitRegister, Regist, IInv, TypeOK
  <2>2. CASE UNCHANGED registered
    BY <2>2
  <2>3. CASE Main
    BY <2>1, <2>2, <2>3, MainFrame DEF Frame
  <2>4. CASE PeerNext
    BY <2>2, <2>4, PeerFrame DEF Frame
  <2>5. ASSUME NEW c \in Conn, Thread(c) PROVE UNCHANGED registered
    BY <2>5, ThreadFrame DEF Frame, Unregist
  <2>6. CASE UNCHANGED vars
    BY <2>2, <2>6 DEF vars
  <2> QED BY <2>2, <2>3, <2>4, <2>5, <2>6 DEF Next
<1>3. \A d \in Conn : stage[d] \in GaveAway => stage'[d] \in GaveAway
  <2>1. CASE UNCHANGED stage
    BY <2>1
  <2>2. ASSUME NEW c \in Conn, NEW st, Goto(c, st), stage[c] \in GaveAway => st \in GaveAway
        PROVE  \A d \in Conn : stage[d] \in GaveAway => stage'[d] \in GaveAway
    BY <2>2 DEF Goto, IInv, TypeOK
  <2>3. CASE PeerNext
    BY <2>1, <2>3 DEF PeerNext, Connect, Hello, AddDevice, Leave, PythonSends
  <2>4. ASSUME NEW c \in Conn, Thread(c)
        PROVE  \A d \in Conn : stage[d] \in GaveAway => stage'[d] \in GaveAway
    <3>1. CASE stage[c] \notin GaveAway
      <4>1. UNCHANGED stage \/ \E st : Goto(c, st)
        BY <2>4 DEF Thread, Read, HandleNothing, HandleDevice, LookUp, ListDevices, Got,
           AnswerDevice, InformPython, Unregist, Operate, ListOne, ListDone, HangUp,
           DropReturned, Destroy
      <4> QED BY <2>1, <2>2, <3>1, <4>1
    <3>2. CASE stage[c] \in GaveAway
      <4>1. DropReturned(c) \/ Unregist(c)
        BY <2>4, <3>2 DEF Thread, Read, HandleNothing, HandleDevice, LookUp, ListDevices, Got,
           AnswerDevice, InformPython, Operate, ListOne, ListDone, HangUp, GaveAway
      <4>2. \E st \in {"unlisting", "dead"} : Goto(c, st)
        BY <4>1 DEF DropReturned, Unregist, Destroy
      <4> QED BY <2>2, <4>2 DEF GaveAway
    <3> QED BY <3>1, <3>2
  <2>5. ASSUME NEW c \in Conn, AcceptIpc(c) \/ Accept(c)
        PROVE  \A d \in Conn : stage[d] \in GaveAway => stage'[d] \in GaveAway
    <3>1. stage[c] = "unborn"
      BY <2>5, PopBacklog DEF Accept, AcceptIpc, Goto, IInv
    <3> QED BY <2>2, <2>5, <3>1 DEF AcceptIpc, Accept, GaveAway
  <2>6. ASSUME NEW c \in Conn, InitLost(c) \/ InitOther(c) \/ InitRegister(c) \/ SendDone(c)
                               \/ SendFailed(c) \/ DropRejected(c)
        PROVE  \A d \in Conn : stage[d] \in GaveAway => stage'[d] \in GaveAway
    <3>1. stage[c] \notin GaveAway /\ \E st : Goto(c, st)
      BY <2>6 DEF InitLost, InitOther, InitRegister, Regist, SendDone, SendFailed, DropRejected,
         Destroy, GaveAway
    <3> QED BY <2>2, <3>1
  <2>7. CASE UNCHANGED vars
    BY <2>1, <2>7 DEF vars
  <2> QED BY <2>3, <2>4, <2>5, <2>6, <2>7 DEF Next, Main
<1> QED BY <1>1, <1>2, <1>3 DEF Lasting

LEMMA SharedLasts ==
  ASSUME IInv, SocketOK, Lasting, NEW c \in Conn, SharedNumber(c) PROVE SharedNumber(c)'
<1>1. PICK d, e \in Conn \ {c} :
        /\ d # e /\ clnt_sock[d] = clnt_sock[c] /\ clnt_sock[e] = clnt_sock[c]
        /\ registered[d] /\ stage[e] \in GaveAway
  BY DEF SharedNumber
<1>2. stage[d] # "unborn" /\ stage[e] # "unborn"
  BY <1>1 DEF IInv, StageOK, GaveAway
<1>3. stage[c] # "unborn"
  BY <1>1, <1>2, NoneAssumption DEF SocketOK, IInv, TypeOK
<1> QED BY <1>1, <1>2, <1>3 DEF SharedNumber, Lasting

(* A REGISTER_DONE goes to a registered session, or goes astray in the one  *)
(* way OwnRegistration names.                                               *)
LEMMA NextOwn ==
  ASSUME IInv, SocketOK, InHand, OwnerOK, LostOK, OwnRegistration, [Next]_vars
  PROVE  OwnRegistration'
<1> USE DEF peerVars, ipcVars, listVars
<1>1. Lasting
  BY NextLasting
<1>2. ASSUME NEW c \in Conn, registered[c] \/ SharedNumber(c)
      PROVE  registered'[c] \/ SharedNumber(c)'
  BY <1>1, <1>2, SharedLasts DEF Lasting
<1>3. CASE UNCHANGED wire
  BY <1>2, <1>3 DEF OwnRegistration
<1>4. ASSUME NEW f, NEW m \in Reply, Write(f, m),
             \/ m.type # "REGISTER_DONE"
             \/ \A c \in Conn : owner[f] = c => registered[c] \/ SharedNumber(c)
      PROVE  OwnRegistration'
  <2> SUFFICES ASSUME NEW c \in Conn, NEW k \in DOMAIN wire'[c],
                      wire'[c][k].type = "REGISTER_DONE"
               PROVE  registered[c] \/ SharedNumber(c)
    BY <1>2 DEF OwnRegistration
  <2>1. \/ k \in DOMAIN wire[c] /\ wire'[c][k] = wire[c][k]
        \/ c = owner[f] /\ wire'[c][k] = m
    BY <1>4, WriteOne DEF IInv
  <2> QED BY <1>4, <2>1 DEF OwnRegistration
<1>5. CASE PeerNext
  BY <1>3, <1>5 DEF PeerNext, Connect, Hello, AddDevice, Leave, PythonSends
<1>6. ASSUME NEW c \in Conn, AcceptIpc(c) \/ Accept(c) \/ InitLost(c) \/ InitOther(c)
                             \/ InitRegister(c) \/ DropRejected(c)
      PROVE  OwnRegistration'
  BY <1>3, <1>6 DEF AcceptIpc, Accept, InitLost, InitOther, InitRegister, DropRejected, Destroy
<1>7. ASSUME NEW c \in Conn, SendDone(c) PROVE OwnRegistration'
  <2>1. /\ stage[c] = "greeting" /\ registered[c] /\ client_id[c] \in ClientId
        /\ owner[clnt_sock[c]] \in {c, None}
    BY <1>7 DEF SendDone, IInv, StageOK, InHand, MainStages
  <2>2. Write(clnt_sock[c], AboutClient("REGISTER_DONE", client_id[c]))
    BY <1>7 DEF SendDone
  <2> QED BY <1>4, <2>1, <2>2, NoneAssumption DEF AboutClient, Reply
<1>8. ASSUME NEW c \in Conn, SendFailed(c) PROVE OwnRegistration'
  <2>1. client_id[c] \in ClientId
    BY <1>8 DEF SendFailed, IInv, StageOK
  <2>2. Write(clnt_sock[c], AboutClient("REGISTER_FAILED", client_id[c]))
    BY <1>8 DEF SendFailed
  <2> QED BY <1>4, <2>1, <2>2 DEF AboutClient, Reply
<1>9. ASSUME NEW d \in Conn, AnswerDevice(d) PROVE OwnRegistration'
  <2>1. /\ stage[d] = "answering" /\ d # ipc /\ registered[d] /\ client_id[d] \in ClientId
        /\ clnt_sock[d] \in Fd
    BY <1>9 DEF AnswerDevice, IInv, TypeOK, StageOK
  <2>2. Write(clnt_sock[d], AboutDevice("REGISTER_DONE", client_id[d]))
    BY <1>9 DEF AnswerDevice
  <2>3. ASSUME NEW c \in Conn, owner[clnt_sock[d]] = c, c # d PROVE SharedNumber(c)
    <3>1. clnt_sock[c] = clnt_sock[d] /\ stage[c] \notin GaveAway
      BY <2>1, <2>3 DEF OwnerOK
    <3>2. PICK e \in Conn \ {d} : clnt_sock[e] = clnt_sock[d] /\ stage[e] \in GaveAway
      BY <2>1, <2>3 DEF LostOK, Writing
    <3> QED BY <2>1, <2>3, <3>1, <3>2 DEF SharedNumber
  <2> QED BY <1>4, <2>1, <2>2, <2>3 DEF AboutDevice, Reply
<1>10. ASSUME NEW c \in Conn, Thread(c), ~AnswerDevice(c) PROVE OwnRegistration'
  <2>1. CASE \/ Read(c) \/ HangUp(c) \/ DropReturned(c) \/ Unregist(c) \/ ListDone(c)
             \/ HandleNothing(c) \/ HandleDevice(c) \/ LookUp(c) \/ ListDevices(c)
    BY <1>3, <2>1 DEF Read, HangUp, DropReturned, Destroy, Unregist, ListDone, HandleNothing,
       HandleDevice, LookUp, ListDevices, Got
  <2>2. CASE InformPython(c)
    <3>1. client_id[c] \in ClientId
      BY <2>2 DEF InformPython, IInv, StageOK
    <3> QED BY <1>4, <2>2, <3>1 DEF InformPython, AboutDevice, Reply
  <2>3. CASE Operate(c)
    <3>1. operation.id \in ClientId
      BY <2>3 DEF Operate, IInv, TypeOK
    <3>2. \/ UNCHANGED wire
          \/ Write(clnt_sock[operation.session], AboutDevice("REQ_ACTUATOR_OPERATION", operation.id))
      BY <2>3 DEF Operate
    <3> QED BY <1>3, <1>4, <3>1, <3>2 DEF AboutDevice, Reply
  <2>4. CASE ListOne(c)
    <3>1. \E i \in ClientId : Write(clnt_sock[c], AboutDevice("DEVICE_INFO", i))
      BY <2>4 DEF ListOne, IInv, TypeOK
    <3> QED BY <1>4, <3>1 DEF AboutDevice, Reply
  <2> QED BY <1>10, <2>1, <2>2, <2>3, <2>4 DEF Thread
<1>11. CASE UNCHANGED vars
  BY <1>3, <1>11 DEF vars
<1> QED BY <1>5, <1>6, <1>7, <1>8, <1>9, <1>10, <1>11 DEF Next, Main

(* A REGISTER_DONE on a connection is its session's own, or it takes three  *)
(* sessions of one descriptor number: nothing else carries one to a client  *)
(* that is not registered, whatever the order of closes and accepts.        *)
THEOREM RegistrationsOwn == Spec => []OwnRegistration
<1>1. Init => SocketOK /\ InHand /\ OwnerOK /\ LostOK /\ OwnRegistration
  <2>1. Init => SocketOK /\ InHand /\ OwnRegistration
    BY NoneAssumption DEF Init, SocketOK, InHand, MainStages, OwnRegistration
  <2>2. Init => OwnerOK /\ LostOK
    BY NoneAssumption DEF Init, OwnerOK, LostOK, Writing
  <2> QED BY <2>1, <2>2
<1>2. /\ IInv /\ SocketOK /\ InHand /\ OwnerOK /\ LostOK /\ OwnRegistration /\ [Next]_vars
      => (SocketOK /\ InHand /\ OwnerOK /\ LostOK /\ OwnRegistration)'
  BY NextSocket, NextInHand, NextLost, NextOwn
<1> QED BY InitIInv, NextIInv, <1>1, <1>2, PTL DEF Spec
=============================================================================
