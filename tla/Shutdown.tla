------------------------------- MODULE Shutdown -------------------------------
(****************************************************************************)
(* The two mutexes of the server that all of its code passes through:       *)
(* Logger::log_mutex_ and Manager::singleton_mutex_; and the SIGINT         *)
(* handler, which runs on any thread, at any point, and takes both.         *)
(*                                                                          *)
(* A thread is the list of operations it still has to do: its program's,    *)
(* and on top of them those of the handler that interrupted it.  What it    *)
(* does outside the mutexes, and the locks within the C++ library (heap,    *)
(* streams), are left out.                                                  *)
(****************************************************************************)
EXTENDS Naturals, Sequences

CONSTANTS Thread,      \* the threads of the server
          MainThread,  \* the one that runs main()
          MaxSignals   \* bound: SIGINTs

ASSUME MainAssumption == MainThread \in Thread
ASSUME SignalAssumption == MaxSignals \in Nat

Mutex == {"log", "singleton"}
Layer == {"program", "handler"}

VARIABLES up,         \* the process lives
          installed,  \* signal(SIGINT, Manager::signal_handler) was called
          signals,    \* SIGINTs counted against MaxSignals
          todo,       \* what each thread has to do, in each of its layers
          handling,   \* whether a thread is in the signal handler
          holder      \* the thread and layer that holds each mutex

vars == <<up, installed, signals, todo, handling, holder>>

Nobody == <<>>

Lock(m) == [op |-> "lock", mutex |-> m]
Unlock(m) == [op |-> "unlock", mutex |-> m]
Other(o) == [op |-> o, mutex |-> "none"]

-----------------------------------------------------------------------------
(* The programs. *)

(* Mutant: a call that logs returns without an unlock. *)
LogKeeps == <<Lock("log")>>

(* Logger::i and Logger::e. *)
Log == <<Lock("log"), Unlock("log")>>

(* Manager::get_instance, once the instance is there. *)
GetInstance == <<Lock("singleton"), Unlock("singleton")>>

(* main() up to start_listen: its first get_instance creates the instance,  *)
(* and the constructor logs.                                                *)
MainBegins == Log \o <<Lock("singleton")>> \o Log \o <<Unlock("singleton"), Other("install")>>

(* Mutant: the singleton mutex is not released. *)
HandlerKeepsLock == <<Lock("singleton")>> \o Log \o <<Other("close")>> \o GetInstance
                      \o Log \o Log \o <<Other("exit")>>

(* signal_handler: get_instance, destroy (which logs, closes serv_sock and  *)
(* logs), a last line in the log, exit().                                   *)
SignalHandler == GetInstance \o Log \o <<Other("close")>> \o Log \o Log \o <<Other("exit")>>

(* What a thread calls while it works: the main thread creates sessions,    *)
(* whose constructor calls get_instance, and every thread logs.             *)
Calls(t) == {Log} \cup IF t = MainThread THEN {GetInstance} ELSE {}

Init == /\ up = TRUE
        /\ installed = FALSE
        /\ signals = 0
        /\ todo = [t \in Thread |->
                    [l \in Layer |-> IF t = MainThread /\ l = "program"
                                     THEN MainBegins ELSE <<>>]]
        /\ handling = [t \in Thread |-> FALSE]
        /\ holder = [m \in Mutex |-> Nobody]

-----------------------------------------------------------------------------
(* The layer a thread runs in, and its next operation. *)
Top(t) == IF handling[t] THEN "handler" ELSE "program"
Rest(t) == todo[t][Top(t)]
Next1(t) == Head(Rest(t))

Advance(t) == todo' = [todo EXCEPT ![t][Top(t)] = Tail(@)]

(* A thread, started after the handler was installed, calls something. *)
Call(t) == /\ up /\ installed /\ ~handling[t] /\ Rest(t) = <<>>
           /\ \E p \in Calls(t) : todo' = [todo EXCEPT ![t]["program"] = p]
           /\ UNCHANGED <<up, installed, signals, handling, holder>>

(* Mutant: the mutex is taken whoever holds it. *)
AcquireAnyway(t) == /\ up /\ Rest(t) # <<>> /\ Next1(t).op = "lock"
                    /\ holder' = [holder EXCEPT ![Next1(t).mutex] = <<t, Top(t)>>]
                    /\ Advance(t)
                    /\ UNCHANGED <<up, installed, signals, handling>>

(* A std::mutex is not recursive: its holder waits for itself. *)
Acquire(t) == /\ up /\ Rest(t) # <<>> /\ Next1(t).op = "lock"
              /\ holder[Next1(t).mutex] = Nobody
              /\ holder' = [holder EXCEPT ![Next1(t).mutex] = <<t, Top(t)>>]
              /\ Advance(t)
              /\ UNCHANGED <<up, installed, signals, handling>>

Release(t) == /\ up /\ Rest(t) # <<>> /\ Next1(t).op = "unlock"
              /\ holder' = [holder EXCEPT ![Next1(t).mutex] = Nobody]
              /\ Advance(t)
              /\ UNCHANGED <<up, installed, signals, handling>>

(* signal(), close(serv_sock) and exit(). *)
Do(t) == /\ up /\ Rest(t) # <<>> /\ Next1(t).op \in {"install", "close", "exit"}
         /\ installed' = (installed \/ Next1(t).op = "install")
         /\ up' = (Next1(t).op # "exit")
         /\ Advance(t)
         /\ UNCHANGED <<signals, handling, holder>>

(* SIGINT: before signal() it ends the process; a thread in the handler has *)
(* it blocked, but any other may get the next one.                          *)
Interrupt(t) == /\ up /\ ~handling[t] /\ signals < MaxSignals
                /\ signals' = signals + 1
                /\ IF installed
                   THEN /\ handling' = [handling EXCEPT ![t] = TRUE]
                        /\ todo' = [todo EXCEPT ![t]["handler"] = SignalHandler]
                        /\ UNCHANGED up
                   ELSE up' = FALSE /\ UNCHANGED <<handling, todo>>
                /\ UNCHANGED <<installed, holder>>

Step(t) == Acquire(t) \/ Release(t) \/ Do(t)

Next == \E t \in Thread : Call(t) \/ Step(t) \/ Interrupt(t)

(* Threads run; and, as each of them waits for a network between two lines  *)
(* of the log, none takes a mutex again and again while another waits.      *)
Fairness == \A t \in Thread : SF_vars(Acquire(t)) /\ WF_vars(Release(t)) /\ WF_vars(Do(t))

Spec == Init /\ [][Next]_vars
FairSpec == Spec /\ Fairness

-----------------------------------------------------------------------------
(* Properties. *)

(* The part of a program between the lock and the unlock of a mutex. *)
Inside(p, m) == \E k \in DOMAIN p : p[k] = Unlock(m) /\ \A j \in 1..k : p[j] # Lock(m)

(* Every variable has its type, and a mutex is held by exactly the thread,  *)
(* and there by the layer, that is between its lock and its unlock.         *)
TypeOK ==
  /\ up \in BOOLEAN /\ installed \in BOOLEAN
  /\ signals \in 0..MaxSignals
  /\ handling \in [Thread -> BOOLEAN]
  /\ \A t \in Thread, l \in Layer, k \in 1..12 :
       k \in DOMAIN todo[t][l] => todo[t][l][k].mutex \in Mutex \cup {"none"}
  /\ holder \in [Mutex -> {Nobody} \cup (Thread \X Layer)]
  /\ \A m \in Mutex, t \in Thread, l \in Layer :
       holder[m] = <<t, l>> <=> Inside(todo[t][l], m)

(* The handler waits for a mutex that the program it interrupted holds. *)
SelfLocked(t) == /\ handling[t] /\ Rest(t) # <<>> /\ Next1(t).op = "lock"
                 /\ holder[Next1(t).mutex] = <<t, "program">>

(* No circle of threads that wait for each other's mutexes can form, at the *)
(* start, while the server works or while handlers run on any of its        *)
(* threads: who waits for a mutex waits for a thread that can go on or has  *)
(* locked itself up, or for one that waits for such a thread, which has the *)
(* other mutex.                                                             *)
CanStep(t) == /\ Rest(t) # <<>>
              /\ Next1(t).op = "lock" => holder[Next1(t).mutex] = Nobody
WaitsFor(t) == holder[Next1(t).mutex][1]
Settled(t) == CanStep(t) \/ SelfLocked(t)
OnlySelfLocks ==
  \A t \in Thread :
    up /\ Rest(t) # <<>> => \/ Settled(t)
                           \/ Settled(WaitsFor(t))
                           \/ Settled(WaitsFor(WaitsFor(t)))

(* SIGINT stops the server, whichever threads it interrupts and however     *)
(* often it comes, unless it interrupts one inside the mutex the handler    *)
(* takes (manager.cpp:184, logger.h:65): there is no other deadlock.        *)
Stops == \A t \in Thread :
           handling[t] ~> ~up \/ \E u \in Thread : SelfLocked(u)

(* Whoever calls Logger or get_instance comes back, or is interrupted by    *)
(* the handler, which does not return, unless the server ends or a thread   *)
(* has locked itself up: nobody leaves with a mutex.                        *)
Returns == \A t \in Thread :
             Rest(t) # <<>> ~> \/ Rest(t) = <<>> \/ ~up
                               \/ handling[t] \/ \E u \in Thread : SelfLocked(u)
=============================================================================
