------------------------------ MODULE ClientLink ------------------------------
(****************************************************************************)
(* The connection of an IoT client to the server: main()'s loop that        *)
(* connects, registers, sends sensor data and connects again, the receive   *)
(* thread of each connection, the flag that links them, and the process's   *)
(* descriptors, which log.txt shares.                                       *)
(*                                                                          *)
(* A message is sent or read as a whole.  What the receive thread does with *)
(* messages is left out.                                                    *)
(****************************************************************************)
EXTENDS Naturals, FiniteSetsExt

CONSTANTS Fd,         \* the descriptors open() and socket() can return
          MaxLosses,  \* bound: times the server stops or drops a connection
          None        \* the number -1

ASSUME FdAssumption == Fd \subseteq Nat /\ None \notin Fd
ASSUME LossesAssumption == MaxLosses \in Nat

VARIABLES server,             \* the server process: "on" or "off"
          losses,             \* losses counted against MaxLosses
          answer,             \* the first message the server sent, once it did
          file,               \* what each descriptor refers to
          serv_sock,          \* Session::serv_sock
          session_connected,  \* Controller::session_connected
          main,               \* where the main thread stands
          receiver            \* where the receive thread stands

serverVars == <<server, losses, answer>>
vars == <<server, losses, answer, file, serv_sock, session_connected, main, receiver>>

(* "idle" is a socket that connect() failed on; "gone" a connection the     *)
(* server has closed.                                                       *)
Files == {"none", "idle", "open", "gone", "log"}
Answers == {"REGISTER_DONE", "REGISTER_FAILED", "REQ_ACTUATOR_OPERATION"}
MainStages == {"offline", "requesting", "awaiting", "accepted",  \* connect_server
               "registering",                                    \* register_device
               "sensing", "sending",                             \* sensor_data_routine
               "exited", "killed"}
ReceiverStages == {"none", "reading", "closing", "closed", "logging", "clearing"}

Init == /\ server = "off"
        /\ losses = 0
        /\ answer = "none"
        /\ file = [f \in Fd |-> "none"]
        /\ serv_sock = None
        /\ session_connected = FALSE
        /\ main = "offline"
        /\ receiver = "none"

Running == main \notin {"exited", "killed"}
FreeFd == {f \in Fd : file[f] = "none"}
Socket == IF serv_sock = None THEN "none" ELSE file[serv_sock]

-----------------------------------------------------------------------------
(* The server, as far as one client sees it. *)

Start == /\ server = "off"
         /\ server' = "on"
         /\ UNCHANGED <<losses, answer, file, serv_sock, session_connected, main, receiver>>

Lose == losses < MaxLosses /\ losses' = losses + 1

(* The process ends, or one session's descriptor is closed. *)
Stop == /\ server = "on" /\ Lose
        /\ server' = "off"
        /\ file' = [f \in Fd |-> IF file[f] = "open" THEN "gone" ELSE file[f]]
        /\ UNCHANGED <<answer, serv_sock, session_connected, main, receiver>>

Drop == /\ server = "on" /\ Lose
        /\ \E f \in Fd : file[f] = "open" /\ file' = [file EXCEPT ![f] = "gone"]
        /\ UNCHANGED <<server, answer, serv_sock, session_connected, main, receiver>>

(* The server still has the session of a connection the client has given    *)
(* up, without closing it.                                                  *)
StillListed == \E f \in Fd \ {serv_sock} : file[f] = "open"

(* Session::receive_init_info; another thread's message may come first, as  *)
(* the session is in the list before it is answered (server session.cpp:85).*)
(* A client whose ID is in the list already is refused (manager.cpp:95).    *)
Answer == /\ server = "on" /\ main = "awaiting" /\ Socket = "open" /\ answer = "none"
          /\ answer' \in IF StillListed THEN {"REGISTER_FAILED"} ELSE Answers
          /\ UNCHANGED <<server, losses, file, serv_sock, session_connected, main,
                         receiver>>

Server == Start \/ Stop \/ Drop \/ Answer

-----------------------------------------------------------------------------
(* The main thread. *)

(* connect() fails: REASON_SERVER_OFFLINE.  Nothing closes the socket, and  *)
(* the next call gets a new one.                                            *)
ConnectFails == /\ main = "offline" /\ server = "off" /\ FreeFd # {}
                /\ serv_sock' = Min(FreeFd)
                /\ file' = [file EXCEPT ![serv_sock'] = "idle"]
                /\ UNCHANGED <<serverVars, session_connected, main, receiver>>

Connect == /\ main = "offline" /\ server = "on" /\ FreeFd # {}
           /\ serv_sock' = Min(FreeFd)
           /\ file' = [file EXCEPT ![serv_sock'] = "open"]
           /\ answer' = "none"
           /\ main' = "requesting"
           /\ UNCHANGED <<server, losses, session_connected, receiver>>

(* Mutant: socket() is not asked whether it failed. *)
NoSocketUnchecked == /\ main = "offline" /\ FreeFd = {}
                     /\ serv_sock' = None
                     /\ main' = "requesting"
                     /\ UNCHANGED <<serverVars, file, session_connected, receiver>>

(* socket() fails: connect_server returns false, which is 0, and 0 stands   *)
(* for success.                                                             *)
NoSocket == /\ main = "offline" /\ FreeFd = {}
            /\ serv_sock' = None
            /\ main' = "registering"
            /\ UNCHANGED <<serverVars, file, session_connected, receiver>>

(* Session::send: writes go to whatever serv_sock refers to; a second write *)
(* after the server has gone raises SIGPIPE, which nothing handles.         *)
Send(next) == main' \in IF Socket = "gone" THEN {next, "killed"} ELSE {next}

Request == /\ main = "requesting"
           /\ Send("awaiting")
           /\ UNCHANGED <<serverVars, file, serv_sock, session_connected, receiver>>

(* What follows a return of register_init_info: 0 is success, and any other *)
(* value but REASON_SERVER_OFFLINE ends the program.                        *)
Registered == main' = "accepted" /\ session_connected' = TRUE
Returns(result) ==
  CASE result = "OK"      -> Registered
    [] result = "OFFLINE" -> main' = "offline" /\ UNCHANGED session_connected
    [] result = "OTHER"   -> main' = "exited" /\ UNCHANGED session_connected

(* register_init_info reads the server's first message.  REGISTER_FAILED    *)
(* carries REASON_ID_DUPLICATED; of an operation, whose header is longer,   *)
(* some byte is taken for the REASON_CODE.                                  *)
ReadAnswer == /\ main = "awaiting" /\ answer # "none"
              /\ \/ answer = "REGISTER_DONE" /\ Returns("OK")
                 \/ answer = "REGISTER_FAILED" /\ Returns("OTHER")
                 \/ /\ answer = "REQ_ACTUATOR_OPERATION"
                    /\ \E result \in {"OK", "OFFLINE", "OTHER"} : Returns(result)
              /\ UNCHANGED <<serverVars, file, serv_sock, receiver>>

(* Its reads return 0 or -1 and leave mtype and payload_length as they      *)
(* were, uninitialized: mtype may be REGISTER_DONE, and if it is not the    *)
(* REASON_CODE is still REASON_SERVER_ERROR.                                *)
ReadNothing == /\ main = "awaiting" /\ answer = "none" /\ Socket # "open"
               /\ Returns("OK") \/ Returns("OTHER")
               /\ UNCHANGED <<serverVars, file, serv_sock, receiver>>

(* The receive thread of the connection starts. *)
StartReceiver == /\ main = "accepted"
                 /\ receiver' = "reading"
                 /\ main' = "registering"
                 /\ UNCHANGED <<serverVars, file, serv_sock, session_connected>>

(* Mutant: session_connected is set last, after register_device. *)
RegisterDevicesThenFlag ==
  /\ main = "registering"
  /\ Send("sensing")
  /\ session_connected' = TRUE
  /\ UNCHANGED <<serverVars, file, serv_sock, receiver>>

RegisterDevices == /\ main = "registering"
                   /\ Send("sensing")
                   /\ UNCHANGED <<serverVars, file, serv_sock, session_connected, receiver>>

(* sensor_data_routine: a turn of its loop, or the loop's end, which        *)
(* main()'s own wait for the flag follows at once.                          *)
Sense == /\ main = "sensing"
         /\ main' = IF session_connected THEN "sending" ELSE "offline"
         /\ UNCHANGED <<serverVars, file, serv_sock, session_connected, receiver>>

SendData == /\ main = "sending"
            /\ Send("sensing")
            /\ UNCHANGED <<serverVars, file, serv_sock, session_connected, receiver>>

Main == \/ ConnectFails \/ Connect \/ NoSocket \/ Request \/ ReadAnswer \/ ReadNothing
        \/ StartReceiver \/ RegisterDevices \/ Sense \/ SendData

-----------------------------------------------------------------------------
(* The receive thread, once its read() returns 0 or -1. *)

(* Mutant: session_connected is cleared before the close(). *)
HangUpFlagFirst ==
  /\ receiver = "reading" /\ Socket # "open"
  /\ receiver' = "closing"
  /\ session_connected' = FALSE
  /\ UNCHANGED <<serverVars, file, serv_sock, main>>

HangUp == /\ receiver = "reading" /\ Socket # "open"
          /\ receiver' = "closing"
          /\ UNCHANGED <<serverVars, file, serv_sock, session_connected, main>>

CloseSocket == /\ receiver = "closing"
               /\ file' = [file EXCEPT ![serv_sock] = "none"]
               /\ receiver' = "closed"
               /\ UNCHANGED <<serverVars, serv_sock, session_connected, main>>

(* Logger::i opens log.txt, on the lowest free descriptor, and closes it. *)
OpenLog == /\ receiver = "closed"
           /\ file' = IF FreeFd = {} THEN file ELSE [file EXCEPT ![Min(FreeFd)] = "log"]
           /\ receiver' = "logging"
           /\ UNCHANGED <<serverVars, serv_sock, session_connected, main>>

CloseLog == /\ receiver = "logging"
            /\ file' = [f \in Fd |-> IF file[f] = "log" THEN "none" ELSE file[f]]
            /\ receiver' = "clearing"
            /\ UNCHANGED <<serverVars, serv_sock, session_connected, main>>

(* Mutant: the flag is left set. *)
ClearNothing == /\ receiver = "clearing"
                /\ receiver' = "none"
                /\ UNCHANGED <<serverVars, file, serv_sock, session_connected, main>>

Clear == /\ receiver = "clearing"
         /\ session_connected' = FALSE
         /\ receiver' = "none"
         /\ UNCHANGED <<serverVars, file, serv_sock, main>>

Receiver == Running /\ (HangUp \/ CloseSocket \/ OpenLog \/ CloseLog \/ Clear)

Next == Server \/ Main \/ Receiver

(* Both threads run when they can, a stopped server is started again, and   *)
(* the server answers a client it serves.                                   *)
Fairness == WF_vars(Main) /\ WF_vars(Receiver) /\ WF_vars(Start) /\ WF_vars(Answer)

Spec == Init /\ [][Next]_vars
FairSpec == Spec /\ Fairness

-----------------------------------------------------------------------------
(* Properties. *)

(* Every variable has its type, and a thread that reads or closes serv_sock *)
(* has a number in it.                                                      *)
TypeOK == /\ server \in {"on", "off"}
          /\ losses \in 0..MaxLosses
          /\ answer \in Answers \cup {"none"}
          /\ file \in [Fd -> Files]
          /\ serv_sock \in Fd \cup {None}
          /\ session_connected \in BOOLEAN
          /\ main \in MainStages
          /\ receiver \in ReceiverStages
          /\ serv_sock \in Fd \/ /\ main \notin {"requesting", "awaiting", "accepted"}
                                 /\ receiver \notin {"reading", "closing"}

(* Nobody closes the connection main() registers on or the receive thread   *)
(* reads: the thread of the last connection is past its close() when the    *)
(* flag lets main() open the next one (session.cpp:96-98).                  *)
SocketKept == main \in {"requesting", "awaiting", "accepted"} \/ receiver = "reading"
                => Socket \in {"open", "gone"}

(* While the flag keeps main() from connecting again, a receive thread      *)
(* lives that will clear it: it is set before that thread starts            *)
(* (session.cpp:46-50).                                                     *)
ConnectedIsWatched == session_connected /\ main # "accepted" => receiver # "none"

(* A client without a server, or whose server has gone, gets a connection   *)
(* again, unless it ends or runs out of descriptors.                        *)
Cut == main = "offline" \/ (session_connected /\ Socket = "gone")
Linked == session_connected /\ Socket = "open"
Reconnects == Cut ~> Linked \/ ~Running \/ FreeFd = {}

-----------------------------------------------------------------------------
(* What comments and messages of the code say, and the code does not do. *)

(* client main.cpp:30: a client waits until the server is online, and gets  *)
(* an answer from it then, or ends.                                         *)
WaitsForServer == main = "offline" /\ server = "off" ~> answer # "none" \/ ~Running
=============================================================================
