---------------------------- MODULE ShutdownProofs ----------------------------
(****************************************************************************)
(* Theorems about Shutdown, for any threads and any number of signals.      *)
(****************************************************************************)
EXTENDS Shutdown, SequenceTheorems, TLAPS

Operation == {Lock(m) : m \in Mutex} \cup {Unlock(m) : m \in Mutex}
               \cup {Other(o) : o \in {"install", "close", "exit"}}

(* Inside, for the part of a program from its k-th operation on. *)
InsideFrom(p, k, m) ==
  \E j \in k..Len(p) : p[j] = Unlock(m) /\ \A i \in k..j : p[i] # Lock(m)

(* Whoever locks a mutex unlocks it before it locks it again, and whoever   *)
(* has unlocked it locks it first.                                          *)
Balanced(p) ==
  \A k \in 1..Len(p), m \in Mutex :
    /\ p[k] = Lock(m) => InsideFrom(p, k + 1, m)
    /\ p[k] = Unlock(m) => ~InsideFrom(p, k + 1, m)

(* All that a thread has still to do is balanced, and only the handler has  *)
(* something to do as a handler.                                            *)
ProgramsOK == /\ todo \in [Thread -> [Layer -> Seq(Operation)]]
              /\ \A t \in Thread, l \in Layer : Balanced(todo[t][l])
              /\ \A t \in Thread : ~handling[t] => todo[t]["handler"] = <<>>

IInv == TypeOK /\ ProgramsOK

-----------------------------------------------------------------------------

(* The programs the code has are balanced, and begin outside the mutexes.   *)
LEMMA ProgramsBalanced ==
  ASSUME NEW p \in {<<>>, Log, GetInstance, MainBegins, SignalHandler}
  PROVE  p \in Seq(Operation) /\ Balanced(p) /\ \A m \in Mutex : ~Inside(p, m)
<1> USE DEF Operation, Balanced, InsideFrom, Inside, Mutex, Lock, Unlock, Other
<1>1. CASE p = <<>>
  BY <1>1
<1>2. CASE p = Log
  BY <1>2 DEF Log
<1>3. CASE p = GetInstance
  BY <1>3 DEF GetInstance
<1>4. CASE p = MainBegins
  BY <1>4 DEF MainBegins, Log
<1>5. CASE p = SignalHandler
  BY <1>5 DEF SignalHandler, Log, GetInstance
<1> QED BY <1>1, <1>2, <1>3, <1>4, <1>5

(* The tail of a program is the program from its second operation on.       *)
LEMMA TailShifts ==
  ASSUME NEW p \in Seq(Operation), p # <<>>, NEW k \in Nat, k >= 1, NEW m \in Mutex
  PROVE  InsideFrom(Tail(p), k, m) <=> InsideFrom(p, k + 1, m)
<1>1. /\ Len(p) \in Nat /\ Len(Tail(p)) = Len(p) - 1
      /\ \A i \in 1..Len(p)-1 : Tail(p)[i] = p[i+1]
  BY HeadTailProperties, EmptySeq, LenProperties
<1>2. ASSUME NEW j \in k..Len(Tail(p)), Tail(p)[j] = Unlock(m),
             \A i \in k..j : Tail(p)[i] # Lock(m)
      PROVE  InsideFrom(p, k + 1, m)
  <2>1. j + 1 \in k+1..Len(p) /\ p[j+1] = Unlock(m)
    BY <1>1, <1>2
  <2>2. ASSUME NEW i \in k+1..j+1 PROVE p[i] # Lock(m)
    <3>1. i - 1 \in k..j /\ Tail(p)[i-1] = p[(i-1)+1] /\ (i-1)+1 = i
      BY <1>1, <1>2
    <3> QED BY <3>1, <1>2
  <2> QED BY <2>1, <2>2 DEF InsideFrom
<1>3. ASSUME NEW j \in k+1..Len(p), p[j] = Unlock(m), \A i \in k+1..j : p[i] # Lock(m)
      PROVE  InsideFrom(Tail(p), k, m)
  <2>1. j - 1 \in k..Len(Tail(p)) /\ Tail(p)[j-1] = p[(j-1)+1] /\ (j-1)+1 = j
    BY <1>1, <1>3
  <2>2. \A i \in k..j-1 : Tail(p)[i] # Lock(m)
    BY <1>1, <1>3
  <2> QED BY <2>1, <2>2, <1>3 DEF InsideFrom
<1> QED BY <1>2, <1>3 DEF InsideFrom

(* What is left of a balanced program is balanced. *)
LEMMA BalancedTail ==
  ASSUME NEW p \in Seq(Operation), p # <<>>, Balanced(p)
  PROVE  Balanced(Tail(p))
<1> SUFFICES ASSUME NEW k \in 1..Len(Tail(p)), NEW m \in Mutex
             PROVE  /\ Tail(p)[k] = Lock(m) => InsideFrom(Tail(p), k + 1, m)
                    /\ Tail(p)[k] = Unlock(m) => ~InsideFrom(Tail(p), k + 1, m)
  BY DEF Balanced
<1>1. k \in Nat /\ k + 1 \in 1..Len(p) /\ Tail(p)[k] = p[k+1]
  BY HeadTailProperties, EmptySeq, LenProperties
<1>2. InsideFrom(Tail(p), k + 1, m) <=> InsideFrom(p, (k + 1) + 1, m)
  BY <1>1, TailShifts
<1> QED BY <1>1, <1>2 DEF Balanced

(* What a thread is inside of before and after an operation. *)
LEMMA AfterOperation ==
  ASSUME NEW p \in Seq(Operation), p # <<>>, Balanced(p), NEW m \in Mutex
  PROVE  /\ Head(p) = Lock(m) => ~Inside(p, m) /\ Inside(Tail(p), m)
         /\ Head(p) = Unlock(m) => Inside(p, m) /\ ~Inside(Tail(p), m)
         /\ Head(p) \notin {Lock(m), Unlock(m)} => (Inside(p, m) <=> Inside(Tail(p), m))
<1>1. /\ Len(p) \in Nat /\ Len(p) >= 1 /\ DOMAIN p = 1..Len(p) /\ Head(p) = p[1]
      /\ Tail(p) \in Seq(Operation) /\ DOMAIN Tail(p) = 1..Len(Tail(p))
  BY HeadTailProperties, EmptySeq, LenProperties
<1>2. Inside(p, m) <=> InsideFrom(p, 1, m)
  BY <1>1 DEF Inside, InsideFrom
<1>3. Inside(Tail(p), m) <=> InsideFrom(p, 1 + 1, m)
  <2>1. Inside(Tail(p), m) <=> InsideFrom(Tail(p), 1, m)
    BY <1>1 DEF Inside, InsideFrom
  <2> QED BY <2>1, TailShifts
<1>4. Lock(m) # Unlock(m)
  BY DEF Lock, Unlock
<1>5. ASSUME p[1] # Lock(m), p[1] # Unlock(m)
      PROVE  InsideFrom(p, 1, m) <=> InsideFrom(p, 1 + 1, m)
  BY <1>1, <1>5 DEF InsideFrom
<1> QED BY <1>1, <1>2, <1>3, <1>4, <1>5 DEF InsideFrom, Balanced

(* An operation that locks or unlocks names a mutex. *)
LEMMA OperationForms ==
  ASSUME NEW o \in Operation
  PROVE  /\ o.mutex \in Mutex \cup {"none"}
         /\ o.op = "lock" => o.mutex \in Mutex /\ o = Lock(o.mutex)
         /\ o.op = "unlock" => o.mutex \in Mutex /\ o = Unlock(o.mutex)
         /\ o.op \notin {"lock", "unlock"} => \A m \in Mutex : o \notin {Lock(m), Unlock(m)}
BY DEF Operation, Mutex, Lock, Unlock, Other

(* A thread that takes the next of its operations: what is left to do keeps *)
(* its type and stays balanced, and no other list changes.                  *)
LEMMA Advances ==
  ASSUME IInv, NEW t \in Thread, Rest(t) # <<>>, Advance(t), UNCHANGED handling
  PROVE  /\ ProgramsOK'
         /\ todo'[t][Top(t)] = Tail(Rest(t))
         /\ \A u \in Thread, l \in Layer : <<u, l>> # <<t, Top(t)>> => todo'[u][l] = todo[u][l]
         /\ Top(t) \in Layer /\ Rest(t) \in Seq(Operation) /\ Balanced(Rest(t))
         /\ Next1(t) \in Operation
<1> USE DEF IInv, ProgramsOK, Rest, Advance
<1>1. Top(t) \in Layer /\ handling \in [Thread -> BOOLEAN]
  BY DEF Top, Layer, TypeOK
<1>2. Rest(t) \in Seq(Operation) /\ Balanced(Rest(t))
  BY <1>1
<1>3. Tail(Rest(t)) \in Seq(Operation) /\ Next1(t) \in Operation
  BY <1>2, HeadTailProperties DEF Next1
<1>4. Balanced(Tail(Rest(t)))
  BY <1>2, BalancedTail
<1>5. /\ todo'[t][Top(t)] = Tail(Rest(t))
      /\ \A u \in Thread, l \in Layer : <<u, l>> # <<t, Top(t)>> => todo'[u][l] = todo[u][l]
      /\ todo' \in [Thread -> [Layer -> Seq(Operation)]]
  BY <1>1, <1>3
<1>6. \A u \in Thread, l \in Layer : Balanced(todo'[u][l])
  BY <1>4, <1>5
<1>7. \A u \in Thread : ~handling'[u] => todo'[u]["handler"] = <<>>
  BY <1>1, <1>5 DEF Top, Layer
<1> QED BY <1>1, <1>2, <1>3, <1>5, <1>6, <1>7

(* The operations of a thread keep the types TypeOK asks for. *)
LEMMA OperationTypes ==
  ASSUME ProgramsOK'
  PROVE  \A t \in Thread, l \in Layer, k \in 1..12 :
           k \in DOMAIN todo'[t][l] => todo'[t][l][k].mutex \in Mutex \cup {"none"}
<1>1. ASSUME NEW t \in Thread, NEW l \in Layer, NEW k \in DOMAIN todo'[t][l]
      PROVE  todo'[t][l][k] \in Operation
  BY ElementOfSeq, LenProperties DEF ProgramsOK
<1> QED BY <1>1, OperationForms

(* Acquire keeps IInv: nobody held the mutex, and nobody was inside it.     *)
LEMMA AcquireIInv == ASSUME IInv, NEW t \in Thread, Acquire(t) PROVE IInv'
<1> DEFINE m == Next1(t).mutex
<1>1. ProgramsOK' /\ Next1(t) = Lock(m) /\ m \in Mutex
  BY Advances, OperationForms DEF Acquire
<1>2. holder' \in [Mutex -> {Nobody} \cup (Thread \X Layer)]
  BY <1>1, Advances DEF Acquire, IInv, TypeOK
<1>3. ASSUME NEW n \in Mutex, NEW u \in Thread, NEW l \in Layer
      PROVE  holder'[n] = <<u, l>> <=> Inside(todo'[u][l], n)
  <2>1. holder[n] = <<u, l>> <=> Inside(todo[u][l], n)
    BY DEF IInv, TypeOK
  <2>2. CASE n # m
    <3>1. holder'[n] = holder[n]
      BY <2>2, <1>1 DEF Acquire, IInv, TypeOK
    <3>2. CASE <<u, l>> = <<t, Top(t)>>
      <4>1. Next1(t) \notin {Lock(n), Unlock(n)}
        BY <1>1, <2>2 DEF Lock, Unlock
      <4>2. Inside(Rest(t), n) <=> Inside(Tail(Rest(t)), n)
        BY <4>1, Advances, AfterOperation DEF Acquire, Next1
      <4> QED BY <2>1, <3>1, <3>2, <4>2, Advances DEF Acquire, Rest
    <3>3. CASE <<u, l>> # <<t, Top(t)>>
      BY <2>1, <3>1, <3>3, Advances DEF Acquire
    <3> QED BY <3>2, <3>3
  <2>3. CASE n = m
    <3>1. holder'[n] = <<t, Top(t)>> /\ holder[n] = Nobody
      BY <2>3, <1>1 DEF Acquire, IInv, TypeOK
    <3>2. CASE <<u, l>> = <<t, Top(t)>>
      <4>1. Inside(Tail(Rest(t)), n)
        BY <1>1, <2>3, Advances, AfterOperation DEF Acquire, Next1
      <4> QED BY <3>1, <3>2, <4>1, Advances DEF Acquire
    <3>3. CASE <<u, l>> # <<t, Top(t)>>
      <4>1. ~Inside(todo[u][l], n)
        BY <2>1, <3>1 DEF Nobody
      <4> QED BY <3>1, <3>3, <4>1, Advances DEF Acquire
    <3> QED BY <3>2, <3>3
  <2> QED BY <2>2, <2>3
<1> QED BY <1>1, <1>2, <1>3, OperationTypes DEF IInv, TypeOK, Acquire

(* Release keeps IInv: who unlocks a mutex was inside it, and so held it.   *)
LEMMA ReleaseIInv == ASSUME IInv, NEW t \in Thread, Release(t) PROVE IInv'
<1> DEFINE m == Next1(t).mutex
<1>1. ProgramsOK' /\ Next1(t) = Unlock(m) /\ m \in Mutex
  BY Advances, OperationForms DEF Release
<1>2. holder' \in [Mutex -> {Nobody} \cup (Thread \X Layer)]
  BY <1>1 DEF Release, IInv, TypeOK
<1>3. holder[m] = <<t, Top(t)>>
  BY <1>1, Advances, AfterOperation DEF Release, Next1, Rest, IInv, TypeOK
<1>4. ASSUME NEW n \in Mutex, NEW u \in Thread, NEW l \in Layer
      PROVE  holder'[n] = <<u, l>> <=> Inside(todo'[u][l], n)
  <2>1. holder[n] = <<u, l>> <=> Inside(todo[u][l], n)
    BY DEF IInv, TypeOK
  <2>2. CASE n # m
    <3>1. holder'[n] = holder[n]
      BY <2>2, <1>1 DEF Release, IInv, TypeOK
    <3>2. CASE <<u, l>> = <<t, Top(t)>>
      <4>1. Next1(t) \notin {Lock(n), Unlock(n)}
        BY <1>1, <2>2 DEF Lock, Unlock
      <4>2. Inside(Rest(t), n) <=> Inside(Tail(Rest(t)), n)
        BY <4>1, Advances, AfterOperation DEF Release, Next1
      <4> QED BY <2>1, <3>1, <3>2, <4>2, Advances DEF Release, Rest
    <3>3. CASE <<u, l>> # <<t, Top(t)>>
      BY <2>1, <3>1, <3>3, Advances DEF Release
    <3> QED BY <3>2, <3>3
  <2>3. CASE n = m
    <3>1. holder'[n] = Nobody /\ <<u, l>> # Nobody
      BY <2>3, <1>1 DEF Release, IInv, TypeOK, Nobody
    <3>2. CASE <<u, l>> = <<t, Top(t)>>
      <4>1. ~Inside(Tail(Rest(t)), n)
        BY <1>1, <2>3, Advances, AfterOperation DEF Release, Next1
      <4> QED BY <3>1, <3>2, <4>1, Advances DEF Release
    <3>3. CASE <<u, l>> # <<t, Top(t)>>
      <4>1. ~Inside(todo[u][l], n)
        BY <1>3, <2>1, <2>3, <3>3
      <4> QED BY <3>1, <3>3, <4>1, Advances DEF Release
    <3> QED BY <3>2, <3>3
  <2> QED BY <2>2, <2>3
<1> QED BY <1>1, <1>2, <1>4, OperationTypes DEF IInv, TypeOK, Release

(* Do keeps IInv: signal(), close() and exit() touch no mutex. *)
LEMMA DoIInv == ASSUME IInv, NEW t \in Thread, Do(t) PROVE IInv'
<1>1. ProgramsOK' /\ \A m \in Mutex : Next1(t) \notin {Lock(m), Unlock(m)}
  BY Advances, OperationForms DEF Do
<1>2. ASSUME NEW n \in Mutex, NEW u \in Thread, NEW l \in Layer
      PROVE  holder'[n] = <<u, l>> <=> Inside(todo'[u][l], n)
  <2>1. holder[n] = <<u, l>> <=> Inside(todo[u][l], n)
    BY DEF IInv, TypeOK
  <2>2. CASE <<u, l>> = <<t, Top(t)>>
    <3>1. Inside(Rest(t), n) <=> Inside(Tail(Rest(t)), n)
      BY <1>1, Advances, AfterOperation DEF Do, Next1
    <3> QED BY <2>1, <2>2, <3>1, Advances DEF Do, Rest
  <2>3. CASE <<u, l>> # <<t, Top(t)>>
    BY <2>1, <2>3, Advances DEF Do
  <2> QED BY <2>2, <2>3
<1> QED BY <1>1, <1>2, OperationTypes DEF IInv, TypeOK, Do

(* A list that was empty may be replaced by one of the programs. *)
LEMMA ProgramStarts ==
  ASSUME IInv, NEW t \in Thread, NEW l \in Layer, todo[t][l] = <<>>,
         NEW p \in {Log, GetInstance, SignalHandler},
         todo' = [todo EXCEPT ![t][l] = p], UNCHANGED holder,
         l = "handler" => handling' = [handling EXCEPT ![t] = TRUE],
         l = "program" => UNCHANGED handling
  PROVE  /\ ProgramsOK'
         /\ \A n \in Mutex, u \in Thread, k \in Layer :
              holder'[n] = <<u, k>> <=> Inside(todo'[u][k], n)
<1>1. p \in Seq(Operation) /\ Balanced(p) /\ \A m \in Mutex : ~Inside(p, m)
  BY ProgramsBalanced
<1>2. \A m \in Mutex : ~Inside(todo[t][l], m)
  BY ProgramsBalanced
<1>3. /\ todo \in [Thread -> [Layer -> Seq(Operation)]]
      /\ todo'[t][l] = p
      /\ \A u \in Thread, k \in Layer : <<u, k>> # <<t, l>> => todo'[u][k] = todo[u][k]
      /\ todo' \in [Thread -> [Layer -> Seq(Operation)]]
  BY <1>1 DEF IInv, ProgramsOK
<1>4. \A u \in Thread, k \in Layer : Balanced(todo'[u][k])
  BY <1>1, <1>3 DEF IInv, ProgramsOK
<1>5. \A u \in Thread : ~handling'[u] => todo'[u]["handler"] = <<>>
  <2> SUFFICES ASSUME NEW u \in Thread, ~handling'[u] PROVE todo'[u]["handler"] = <<>>
    OBVIOUS
  <2>1. ~handling[u] /\ (l = "handler" => u # t)
    BY DEF Layer, IInv, TypeOK
  <2> QED BY <2>1, <1>3 DEF Layer, IInv, ProgramsOK
<1>6. ASSUME NEW n \in Mutex, NEW u \in Thread, NEW k \in Layer
      PROVE  holder'[n] = <<u, k>> <=> Inside(todo'[u][k], n)
  <2>1. holder[n] = <<u, k>> <=> Inside(todo[u][k], n)
    BY DEF IInv, TypeOK
  <2> QED BY <2>1, <1>1, <1>2, <1>3
<1> QED BY <1>3, <1>4, <1>5, <1>6 DEF ProgramsOK

(* Call keeps IInv: a thread that calls something has nothing left to do.   *)
LEMMA CallIInv == ASSUME IInv, NEW t \in Thread, Call(t) PROVE IInv'
<1>1. PICK p \in {Log, GetInstance} : todo' = [todo EXCEPT ![t]["program"] = p]
  BY DEF Call, Calls
<1>2. todo[t]["program"] = <<>> /\ "program" \in Layer
  BY DEF Call, Rest, Top, Layer
<1>3. /\ ProgramsOK'
      /\ \A n \in Mutex, u \in Thread, k \in Layer :
           holder'[n] = <<u, k>> <=> Inside(todo'[u][k], n)
  BY <1>1, <1>2, ProgramStarts DEF Call
<1> QED BY <1>3, OperationTypes DEF IInv, TypeOK, Call

(* Interrupt keeps IInv: a thread that is not in the handler has nothing to *)
(* do there, and the program it interrupts keeps what it holds.             *)
LEMMA InterruptIInv == ASSUME IInv, NEW t \in Thread, Interrupt(t) PROVE IInv'
<1>1. signals' \in 0..MaxSignals
  BY SignalAssumption DEF Interrupt, IInv, TypeOK
<1>2. CASE installed
  <2>1. todo[t]["handler"] = <<>> /\ "handler" \in Layer
    BY DEF Interrupt, IInv, ProgramsOK, Layer
  <2>2. /\ ProgramsOK'
        /\ \A n \in Mutex, u \in Thread, k \in Layer :
             holder'[n] = <<u, k>> <=> Inside(todo'[u][k], n)
    BY <1>2, <2>1, ProgramStarts DEF Interrupt
  <2>3. handling' \in [Thread -> BOOLEAN]
    BY <1>2 DEF Interrupt, IInv, TypeOK
  <2> QED BY <1>1, <1>2, <2>2, <2>3, OperationTypes DEF IInv, TypeOK, Interrupt
<1>3. CASE ~installed
  BY <1>1, <1>3 DEF Interrupt, IInv, TypeOK, ProgramsOK
<1> QED BY <1>2, <1>3

(* IInv holds initially and every step keeps it. *)
LEMMA Inductive == Spec => []IInv
<1>1. Init => IInv
  <2> SUFFICES ASSUME Init PROVE IInv
    OBVIOUS
  <2>1. \A t \in Thread, l \in Layer :
          todo[t][l] = IF t = MainThread /\ l = "program" THEN MainBegins ELSE <<>>
    BY DEF Init
  <2>2. \A t \in Thread, l \in Layer :
          todo[t][l] \in Seq(Operation) /\ Balanced(todo[t][l])
                                        /\ \A m \in Mutex : ~Inside(todo[t][l], m)
    BY <2>1, ProgramsBalanced
  <2>3. ProgramsOK
    <3>1. \A t \in Thread : todo[t]["handler"] = <<>>
      BY <2>1 DEF Layer
    <3>2. todo \in [Thread -> [Layer -> Seq(Operation)]]
      BY <2>2 DEF Init
    <3> QED BY <2>2, <3>1, <3>2 DEF ProgramsOK
  <2>4. TypeOK
    <3>1. ASSUME NEW t \in Thread, NEW l \in Layer, NEW k \in DOMAIN todo[t][l]
          PROVE  todo[t][l][k].mutex \in Mutex \cup {"none"}
      <4>1. todo[t][l][k] \in Operation
        BY <2>2, ElementOfSeq, LenProperties
      <4> QED BY <4>1, OperationForms
    <3>2. \A m \in Mutex, t \in Thread, l \in Layer :
            holder[m] = <<t, l>> <=> Inside(todo[t][l], m)
      BY <2>2 DEF Init, Nobody
    <3>3. signals \in 0..MaxSignals
      BY SignalAssumption DEF Init
    <3>4. handling \in [Thread -> BOOLEAN] /\ up \in BOOLEAN /\ installed \in BOOLEAN
      BY DEF Init
    <3>5. holder \in [Mutex -> {Nobody} \cup (Thread \X Layer)]
      BY DEF Init
    <3> QED BY <3>1, <3>2, <3>3, <3>4, <3>5 DEF TypeOK
  <2> QED BY <2>3, <2>4 DEF IInv
<1>2. IInv /\ [Next]_vars => IInv'
  <2> SUFFICES ASSUME IInv, [Next]_vars PROVE IInv'
    OBVIOUS
  <2>1. CASE UNCHANGED vars
    BY <2>1 DEF vars, IInv, TypeOK, ProgramsOK
  <2>2. CASE Next
    BY <2>2, CallIInv, AcquireIInv, ReleaseIInv, DoIInv, InterruptIInv DEF Next, Step
  <2> QED BY <2>1, <2>2
<1> QED BY <1>1, <1>2, PTL DEF Spec

-----------------------------------------------------------------------------

(* Every variable keeps its type; and a mutex is held by exactly the thread *)
(* that is between its lock and its unlock, there by the program or by the  *)
(* handler that interrupted it, whichever threads SIGINT interrupts and     *)
(* wherever (manager.cpp:183-199, logger.h:65).                             *)
THEOREM MutexesOwned == Spec => []TypeOK
<1>1. IInv => TypeOK
  BY DEF IInv
<1> QED BY <1>1, Inductive, PTL

-----------------------------------------------------------------------------

(* The operation that ends main()'s way to start_listen. *)
Installs(p) == \E k \in 1..Len(p) : p[k] = Other("install")

(* Whoever locks the log unlocks it next; so does whoever locks the         *)
(* singleton, but main() while it creates the instance.                     *)
OrderlyAt(p, k) ==
  /\ p[k] = Lock("log") => k < Len(p) /\ p[k+1] = Unlock("log")
  /\ p[k] = Lock("singleton") => \/ k < Len(p) /\ p[k+1] = Unlock("singleton")
                                 \/ \E j \in k..Len(p) : p[j] = Other("install")
  /\ p[k] = Other("install") => k = Len(p)

Orderly(p) == \A k \in 1..Len(p) : OrderlyAt(p, k)

(* The same, for the first operation of a program inside a mutex. *)
Opens(p) == /\ Inside(p, "log") => p[1] = Unlock("log")
            /\ Inside(p, "singleton") => p[1] = Unlock("singleton") \/ Installs(p)

OrderOK == \A t \in Thread, l \in Layer : Orderly(todo[t][l]) /\ Opens(todo[t][l])

(* Until main() has installed the handler, nobody else runs. *)
AloneOK ==
  /\ \A t \in Thread, l \in Layer :
       Installs(todo[t][l]) => t = MainThread /\ l = "program" /\ ~installed
  /\ ~installed => \A t \in Thread :
       /\ ~handling[t] /\ todo[t]["handler"] = <<>>
       /\ t # MainThread => todo[t]["program"] = <<>>

(* A handler gets no further than to a mutex that the program it            *)
(* interrupted holds.                                                       *)
StuckOK ==
  \A t \in Thread : handling[t] =>
    /\ holder["singleton"] = <<t, "program">> => todo[t]["handler"] = SignalHandler
    /\ holder["log"] = <<t, "program">> =>
         todo[t]["handler"] \in {SignalHandler, Tail(SignalHandler), Tail(Tail(SignalHandler))}

OInv == OrderOK /\ AloneOK /\ StuckOK

(* The programs are orderly, and only main()'s beginning installs.          *)
LEMMA ProgramsOrderly ==
  ASSUME NEW p \in {<<>>, Log, GetInstance, MainBegins, SignalHandler}
  PROVE  Orderly(p) /\ Opens(p) /\ (p # MainBegins => ~Installs(p))
<1> USE DEF Orderly, OrderlyAt, Installs, Lock, Unlock, Other
<1>0. Opens(p)
  BY ProgramsBalanced DEF Opens, Mutex
<1>1. CASE p = <<>>
  BY <1>0, <1>1
<1>2. CASE p = Log
  BY <1>0, <1>2 DEF Log
<1>3. CASE p = GetInstance
  BY <1>0, <1>3 DEF GetInstance
<1>4. CASE p = MainBegins
  BY <1>0, <1>4 DEF MainBegins, Log
<1>5. CASE p = SignalHandler
  BY <1>0, <1>5 DEF SignalHandler, Log, GetInstance
<1> QED BY <1>1, <1>2, <1>3, <1>4, <1>5

(* What is left of an orderly program after an operation is orderly, and    *)
(* goes on as it has to.                                                    *)
LEMMA OrderlyTail ==
  ASSUME NEW p \in Seq(Operation), p # <<>>, Balanced(p), Orderly(p), Opens(p)
  PROVE  /\ Orderly(Tail(p)) /\ Opens(Tail(p))
         /\ Installs(Tail(p)) => Installs(p) /\ Head(p) # Other("install")
<1> DEFINE q == Tail(p)
<1>1. /\ Len(p) \in Nat /\ Len(p) >= 1 /\ Len(q) = Len(p) - 1 /\ Head(p) = p[1]
      /\ \A i \in 1..Len(p)-1 : q[i] = p[i+1]
  BY HeadTailProperties, EmptySeq, LenProperties
<1>a. OrderlyAt(p, 1)
  BY <1>1 DEF Orderly
<1> HIDE DEF q
<1>2. Orderly(q)
  <2> SUFFICES ASSUME NEW k \in 1..Len(q)
               PROVE  /\ q[k] = Lock("log") => k < Len(q) /\ q[k+1] = Unlock("log")
                      /\ q[k] = Lock("singleton") =>
                           \/ k < Len(q) /\ q[k+1] = Unlock("singleton")
                           \/ \E j \in k..Len(q) : q[j] = Other("install")
                      /\ q[k] = Other("install") => k = Len(q)
    BY DEF Orderly, OrderlyAt
  <2>1. k + 1 \in 1..Len(p) /\ q[k] = p[k+1]
    BY <1>1
  <2>a. OrderlyAt(p, k + 1)
    BY <2>1 DEF Orderly
  <2>2. k < Len(q) => q[k+1] = p[(k+1)+1]
    BY <1>1
  <2>3. q[k] = Lock("log") => k < Len(q) /\ q[k+1] = Unlock("log")
    BY <1>1, <2>1, <2>2, <2>a DEF OrderlyAt
  <2>4. ASSUME q[k] = Lock("singleton")
        PROVE  \/ k < Len(q) /\ q[k+1] = Unlock("singleton")
               \/ \E j \in k..Len(q) : q[j] = Other("install")
    <3>1. CASE k + 1 < Len(p) /\ p[(k+1)+1] = Unlock("singleton")
      BY <1>1, <2>2, <3>1
    <3>2. ASSUME NEW j \in k+1..Len(p), p[j] = Other("install")
          PROVE  \E i \in k..Len(q) : q[i] = Other("install")
      <4>1. j - 1 \in k..Len(q) /\ q[j-1] = p[(j-1)+1] /\ (j-1)+1 = j
        BY <1>1
      <4> QED BY <3>2, <4>1
    <3> QED BY <2>1, <2>4, <2>a, <3>1, <3>2 DEF OrderlyAt
  <2>5. q[k] = Other("install") => k = Len(q)
    BY <1>1, <2>1, <2>a DEF OrderlyAt
  <2> QED BY <2>3, <2>4, <2>5
<1>3. Installs(q) => Installs(p) /\ Head(p) # Other("install")
  <2> SUFFICES ASSUME NEW k \in 1..Len(q), q[k] = Other("install")
               PROVE  Installs(p) /\ Head(p) # Other("install")
    BY DEF Installs
  <2>1. k + 1 \in 1..Len(p) /\ p[k+1] = Other("install")
    BY <1>1
  <2>2. p[1] = Other("install") => 1 = Len(p)
    BY <1>a DEF OrderlyAt
  <2> QED BY <1>1, <2>1, <2>2 DEF Installs
<1>4. Head(p) = Lock("log") => q[1] = Unlock("log")
  BY <1>1, <1>a DEF OrderlyAt
<1>5. ASSUME Installs(p), Head(p) # Other("install") PROVE Installs(q)
  <2>1. PICK j \in 1..Len(p) : p[j] = Other("install")
    BY <1>5 DEF Installs
  <2>2. j - 1 \in 1..Len(q) /\ q[j-1] = p[(j-1)+1] /\ (j-1)+1 = j
    BY <1>1, <1>5, <2>1
  <2> QED BY <2>1, <2>2 DEF Installs
<1>6. Head(p) = Lock("singleton") => q[1] = Unlock("singleton") \/ Installs(q)
  <2> SUFFICES ASSUME Head(p) = Lock("singleton")
               PROVE  q[1] = Unlock("singleton") \/ Installs(q)
    OBVIOUS
  <2>1. Head(p) # Other("install")
    BY DEF Lock, Other
  <2>2. \/ 1 < Len(p) /\ p[1+1] = Unlock("singleton")
        \/ \E j \in 1..Len(p) : p[j] = Other("install")
    BY <1>1, <1>a DEF OrderlyAt
  <2>3. CASE 1 < Len(p) /\ p[1+1] = Unlock("singleton")
    BY <1>1, <2>3
  <2> QED BY <1>5, <2>1, <2>2, <2>3 DEF Installs
<1>7. Inside(q, "log") => q[1] = Unlock("log")
  <2>1. Head(p) # Unlock("log") /\ Head(p) # Lock("log") => ~Inside(q, "log")
    BY <1>1, AfterOperation DEF Opens, Mutex, q
  <2> QED BY <1>4, <2>1, AfterOperation DEF Mutex, q
<1>8. Inside(q, "singleton") => q[1] = Unlock("singleton") \/ Installs(q)
  <2> SUFFICES ASSUME Inside(q, "singleton"), Head(p) # Lock("singleton")
               PROVE  q[1] = Unlock("singleton") \/ Installs(q)
    BY <1>6
  <2>1. Head(p) # Unlock("singleton") /\ Inside(p, "singleton")
    BY AfterOperation DEF Mutex, q
  <2>2. Installs(p)
    BY <1>1, <2>1 DEF Opens
  <2>3. Head(p) # Other("install")
    <3>1. SUFFICES ASSUME Head(p) = Other("install") PROVE FALSE
      OBVIOUS
    <3>2. Len(p) = 1
      BY <1>1, <1>a, <3>1 DEF OrderlyAt
    <3>3. DOMAIN q = 1..Len(q)
      BY HeadTailProperties, LenProperties DEF q
    <3>4. Len(q) = 0
      BY <1>1, <3>2
    <3>5. \A k : k \notin DOMAIN q
      BY <3>3, <3>4
    <3> QED BY <3>5 DEF Inside
  <2> QED BY <1>5, <2>2, <2>3
<1> QED BY <1>2, <1>3, <1>7, <1>8 DEF Opens, q

(* The first operations of the handler. *)
LEMMA HandlerBegins ==
  LET h == SignalHandler
  IN  /\ h # <<>> /\ Head(h) = Lock("singleton")
      /\ Tail(h) # <<>> /\ Head(Tail(h)) = Unlock("singleton")
      /\ Tail(Tail(h)) # <<>> /\ Head(Tail(Tail(h))) = Lock("log")
BY DEF SignalHandler, GetInstance, Log

(* A step of a thread keeps OInv. *)
LEMMA StepOInv == ASSUME IInv, OInv, NEW t \in Thread, Step(t) PROVE OInv'
<1>1. Rest(t) # <<>> /\ Advance(t) /\ UNCHANGED handling
  BY DEF Step, Acquire, Release, Do
<1>2. /\ todo'[t][Top(t)] = Tail(Rest(t))
      /\ \A u \in Thread, l \in Layer : <<u, l>> # <<t, Top(t)>> => todo'[u][l] = todo[u][l]
      /\ Top(t) \in Layer /\ Rest(t) \in Seq(Operation) /\ Balanced(Rest(t))
      /\ Next1(t) \in Operation
  BY <1>1, Advances
<1>3. Orderly(Rest(t)) /\ Opens(Rest(t))
  BY <1>2 DEF Rest, OInv, OrderOK
<1>4. /\ Orderly(Tail(Rest(t))) /\ Opens(Tail(Rest(t)))
      /\ Installs(Tail(Rest(t))) => Installs(Rest(t)) /\ Next1(t) # Other("install")
  BY <1>1, <1>2, <1>3, OrderlyTail DEF Next1
<1>5. OrderOK'
  <2> SUFFICES ASSUME NEW u \in Thread, NEW l \in Layer
               PROVE  Orderly(todo'[u][l]) /\ Opens(todo'[u][l])
    BY DEF OrderOK
  <2> QED BY <1>2, <1>4 DEF OInv, OrderOK
<1>6. installed' = (installed \/ Next1(t) = Other("install"))
  <2>1. Next1(t) = Other("install") <=> Next1(t).op = "install"
    BY <1>2 DEF Operation, Lock, Unlock, Other
  <2>2. installed \in BOOLEAN
    BY DEF IInv, TypeOK
  <2>3. CASE Acquire(t) \/ Release(t)
    <3>1. installed' = installed /\ Next1(t).op # "install"
      BY <2>3 DEF Acquire, Release
    <3> QED BY <2>1, <2>2, <3>1
  <2>4. CASE Do(t)
    BY <2>1, <2>2, <2>4 DEF Do
  <2> QED BY <2>3, <2>4 DEF Step
<1>7. ~installed => t = MainThread /\ Top(t) = "program"
  BY <1>1, <1>2 DEF OInv, AloneOK, Rest, Top, Layer
<1>8. AloneOK'
  <2>1. ASSUME NEW u \in Thread, NEW l \in Layer, Installs(todo'[u][l])
        PROVE  u = MainThread /\ l = "program" /\ ~installed'
    <3>1. Installs(todo[u][l])
      BY <1>2, <1>4, <2>1 DEF Rest
    <3>2. u = MainThread /\ l = "program" /\ ~installed
      BY <3>1 DEF OInv, AloneOK
    <3>3. <<u, l>> = <<t, Top(t)>>
      BY <1>7, <3>2
    <3> QED BY <1>2, <1>4, <1>6, <2>1, <3>2, <3>3
  <2>2. ASSUME ~installed', NEW u \in Thread
        PROVE  /\ ~handling'[u] /\ todo'[u]["handler"] = <<>>
               /\ u # MainThread => todo'[u]["program"] = <<>>
    BY <1>1, <1>2, <1>6, <1>7, <2>2 DEF OInv, AloneOK, Layer
  <2> QED BY <2>1, <2>2 DEF AloneOK
<1>9. StuckOK'
  <2> SUFFICES ASSUME NEW u \in Thread, handling'[u]
               PROVE  /\ holder'["singleton"] = <<u, "program">> =>
                           todo'[u]["handler"] = SignalHandler
                      /\ holder'["log"] = <<u, "program">> =>
                           todo'[u]["handler"] \in {SignalHandler, Tail(SignalHandler),
                                                    Tail(Tail(SignalHandler))}
    BY DEF StuckOK
  <2>1. handling[u] /\ (u = t => Top(t) = "handler" /\ Rest(t) = todo[t]["handler"])
    BY <1>1 DEF Top, Rest
  <2>2. ASSUME NEW m \in Mutex, holder'[m] = <<u, "program">>
        PROVE  holder[m] = <<u, "program">>
    <3>1. holder' = holder \/ (\E w \in {Nobody, <<t, Top(t)>>}, n \in Mutex :
                                 holder' = [holder EXCEPT ![n] = w])
      <4>1. Acquire(t) \/ Release(t) => Next1(t).mutex \in Mutex
        BY <1>2, OperationForms DEF Acquire, Release
      <4> QED BY <4>1 DEF Step, Acquire, Release, Do
    <3> QED BY <2>1, <2>2, <3>1 DEF Nobody, IInv, TypeOK
  <2>3. CASE u # t
    BY <1>2, <2>1, <2>2, <2>3 DEF OInv, StuckOK, Layer, Mutex
  <2>4. CASE u = t
    <3>1. todo'[u]["handler"] = Tail(todo[u]["handler"])
      BY <1>2, <2>1, <2>4
    <3>2. \A m \in Mutex : holder[m] = <<u, "program">> => Head(todo[u]["handler"]) # Lock(m)
      <4>1. ASSUME NEW m \in Mutex, Next1(t) = Lock(m) PROVE holder[m] = Nobody
        <5>1. Next1(t).op = "lock" /\ Next1(t).mutex = m
          BY <4>1 DEF Lock
        <5> QED BY <5>1 DEF Step, Acquire, Release, Do
      <4>2. Next1(t) = Head(todo[u]["handler"])
        BY <2>1, <2>4 DEF Next1
      <4>3. \A w : <<w, "program">> # Nobody
        BY DEF Nobody
      <4> QED BY <4>1, <4>2, <4>3
    <3>3. holder["singleton"] # <<u, "program">>
      BY <2>1, <3>2, HandlerBegins DEF OInv, StuckOK, Mutex
    <3>4. holder["log"] = <<u, "program">> =>
            todo[u]["handler"] \in {SignalHandler, Tail(SignalHandler)}
      BY <2>1, <3>2, HandlerBegins DEF OInv, StuckOK, Mutex
    <3> QED BY <2>2, <3>1, <3>3, <3>4 DEF Mutex
  <2> QED BY <2>3, <2>4
<1> QED BY <1>5, <1>8, <1>9 DEF OInv

(* Call and Interrupt keep OInv. *)
LEMMA CallOInv == ASSUME IInv, OInv, NEW t \in Thread, Call(t) PROVE OInv'
<1>1. PICK p \in {Log, GetInstance} : todo' = [todo EXCEPT ![t]["program"] = p]
  BY DEF Call, Calls
<1>2. Orderly(p) /\ Opens(p) /\ ~Installs(p)
  <2>1. p # MainBegins
    BY DEF Log, GetInstance, MainBegins
  <2> QED BY <2>1, ProgramsOrderly
<1>3. /\ todo'[t]["program"] = p
      /\ \A u \in Thread, l \in Layer : <<u, l>> # <<t, "program">> => todo'[u][l] = todo[u][l]
  BY <1>1 DEF IInv, ProgramsOK, Layer
<1>4. installed' /\ installed /\ handling' = handling /\ holder' = holder
  BY DEF Call
<1>5. OrderOK'
  <2> SUFFICES ASSUME NEW u \in Thread, NEW l \in Layer
               PROVE  Orderly(todo'[u][l]) /\ Opens(todo'[u][l])
    BY DEF OrderOK
  <2> QED BY <1>2, <1>3 DEF OInv, OrderOK
<1>6. AloneOK'
  <2>1. ASSUME NEW u \in Thread, NEW l \in Layer PROVE ~Installs(todo'[u][l])
    BY <1>2, <1>3, <1>4 DEF OInv, AloneOK
  <2> QED BY <1>4, <2>1 DEF AloneOK
<1>7. \A u \in Thread : todo'[u]["handler"] = todo[u]["handler"]
  BY <1>3 DEF Layer
<1> QED BY <1>4, <1>5, <1>6, <1>7 DEF OInv, StuckOK

LEMMA InterruptOInv == ASSUME IInv, OInv, NEW t \in Thread, Interrupt(t) PROVE OInv'
<1>1. CASE ~installed
  BY <1>1 DEF Interrupt, OInv, OrderOK, AloneOK, StuckOK
<1>2. CASE installed
  <2>1. /\ todo'[t]["handler"] = SignalHandler
        /\ \A u \in Thread, l \in Layer : <<u, l>> # <<t, "handler">> => todo'[u][l] = todo[u][l]
    BY <1>2 DEF Interrupt, IInv, ProgramsOK, Layer
  <2>2. Orderly(SignalHandler) /\ Opens(SignalHandler) /\ ~Installs(SignalHandler)
    <3>1. SignalHandler # MainBegins
      <4>1. SignalHandler[1] # MainBegins[1]
        BY DEF SignalHandler, MainBegins, Log, GetInstance, Lock
      <4> QED BY <4>1
    <3> QED BY <3>1, ProgramsOrderly
  <2>3. installed' /\ holder' = holder /\ \A u \in Thread : u # t => handling'[u] = handling[u]
    BY <1>2 DEF Interrupt, IInv, TypeOK
  <2>4. OrderOK'
    <3> SUFFICES ASSUME NEW u \in Thread, NEW l \in Layer
                 PROVE  Orderly(todo'[u][l]) /\ Opens(todo'[u][l])
      BY DEF OrderOK
    <3> QED BY <2>1, <2>2 DEF OInv, OrderOK
  <2>5. AloneOK'
    <3>1. ASSUME NEW u \in Thread, NEW l \in Layer PROVE ~Installs(todo'[u][l])
      BY <1>2, <2>1, <2>2 DEF OInv, AloneOK
    <3> QED BY <2>3, <3>1 DEF AloneOK
  <2>6. StuckOK'
    <3>1. \A u \in Thread : u # t => todo'[u]["handler"] = todo[u]["handler"]
      BY <2>1 DEF Layer
    <3> QED BY <2>1, <2>3, <3>1 DEF OInv, StuckOK
  <2> QED BY <2>4, <2>5, <2>6 DEF OInv
<1> QED BY <1>1, <1>2

(* OInv holds initially and every step keeps it. *)
LEMMA OrderInductive == Spec => []OInv
<1>1. Init => OInv
  <2> SUFFICES ASSUME Init PROVE OInv
    OBVIOUS
  <2>1. \A t \in Thread, l \in Layer :
          todo[t][l] = IF t = MainThread /\ l = "program" THEN MainBegins ELSE <<>>
    BY DEF Init
  <2>2. OrderOK
    BY <2>1, ProgramsOrderly DEF OrderOK
  <2>3. <<>> # MainBegins
    BY DEF MainBegins, Log
  <2>4. AloneOK
    BY <2>1, <2>3, ProgramsOrderly DEF AloneOK, Init, Layer
  <2>5. StuckOK
    BY DEF StuckOK, Init
  <2> QED BY <2>2, <2>4, <2>5 DEF OInv
<1>2. IInv /\ OInv /\ [Next]_vars => OInv'
  <2> SUFFICES ASSUME IInv, OInv, [Next]_vars PROVE OInv'
    OBVIOUS
  <2>1. CASE UNCHANGED vars
    BY <2>1 DEF vars, OInv, OrderOK, AloneOK, StuckOK
  <2>2. CASE Next
    BY <2>2, StepOInv, CallOInv, InterruptOInv DEF Next
  <2> QED BY <2>1, <2>2
<1> QED BY <1>1, <1>2, Inductive, PTL DEF Spec

-----------------------------------------------------------------------------

(* The owner of a mutex has something to do in the layer that owns it; and, *)
(* unless the handler has interrupted it there, it can go on, when another  *)
(* waits for the mutex.                                                     *)
LEMMA OwnerGoesOn ==
  ASSUME IInv, OInv, NEW m \in Mutex, NEW u \in Thread, NEW l \in Layer,
         holder[m] = <<u, l>>
  PROVE  /\ l = Top(u) \/ (l = "program" /\ handling[u])
         /\ \A t \in Thread :
              Rest(t) # <<>> /\ Next1(t) = Lock(m) /\ l = Top(u) => CanStep(u)
<1>1. Inside(todo[u][l], m)
  BY DEF IInv, TypeOK
<1>2. l = Top(u) \/ (l = "program" /\ handling[u])
  <2>1. ~handling[u] => l # "handler"
    BY <1>1, ProgramsBalanced DEF IInv, ProgramsOK
  <2> QED BY <2>1 DEF Top, Layer
<1>3. ASSUME NEW t \in Thread, Rest(t) # <<>>, Next1(t) = Lock(m), l = Top(u)
      PROVE  CanStep(u)
  <2>1. Top(t) \in Layer /\ \A v \in Thread : Rest(v) = todo[v][Top(v)]
    BY DEF Top, Layer, Rest
  <2>2. Rest(u) \in Seq(Operation) /\ Balanced(Rest(u)) /\ Opens(Rest(u)) /\ Inside(Rest(u), m)
    BY <1>1, <1>3, <2>1 DEF IInv, ProgramsOK, OInv, OrderOK
  <2>3. Rest(u) # <<>> /\ Next1(u) = Rest(u)[1]
    BY <2>2, ProgramsBalanced, HeadTailProperties DEF Next1
  <2>4. Next1(u) # Lock(m)
    BY <2>2, <2>3, AfterOperation DEF Next1
  <2>5. installed
    <3>1. SUFFICES ASSUME ~installed PROVE FALSE
      OBVIOUS
    <3>2. t = MainThread /\ u = MainThread
      BY <1>3, <2>1, <2>3, <3>1 DEF OInv, AloneOK, Top
    <3> QED BY <1>3, <2>4, <3>2
  <2>6. ~Installs(Rest(u))
    BY <1>3, <2>1, <2>5 DEF OInv, AloneOK
  <2>7. Next1(u) = Unlock(m)
    BY <2>2, <2>3, <2>6 DEF Opens, Mutex
  <2> QED BY <2>3, <2>7 DEF CanStep, Unlock
<1> QED BY <1>2, <1>3

(* Who waits for the singleton mutex waits for a thread that can go on or   *)
(* has locked itself up.                                                    *)
LEMMA SingletonSettled ==
  ASSUME IInv, OInv, NEW t \in Thread, Rest(t) # <<>>, Next1(t) = Lock("singleton"),
         ~CanStep(t)
  PROVE  WaitsFor(t) \in Thread /\ Settled(WaitsFor(t))
<1>1. "singleton" \in Mutex /\ Next1(t).mutex = "singleton"
  BY DEF Mutex, Lock
<1>2. PICK u \in Thread, l \in Layer : holder["singleton"] = <<u, l>>
  BY <1>1 DEF CanStep, IInv, TypeOK
<1>3. WaitsFor(t) = u
  BY <1>1, <1>2 DEF WaitsFor
<1>4. CASE l = Top(u)
  BY <1>1, <1>2, <1>3, <1>4, OwnerGoesOn DEF Settled
<1>5. CASE l = "program" /\ handling[u]
  <2>1. todo[u]["handler"] = SignalHandler
    BY <1>2, <1>5 DEF OInv, StuckOK
  <2>2. Rest(u) = SignalHandler
    BY <1>5, <2>1 DEF Rest, Top
  <2>3. Rest(u) # <<>> /\ Next1(u) = Lock("singleton")
    BY <2>2, HandlerBegins DEF Next1
  <2> QED BY <1>2, <1>3, <1>5, <2>3 DEF Settled, SelfLocked, Lock
<1> QED BY <1>1, <1>2, <1>4, <1>5, OwnerGoesOn

(* Who waits for the log mutex waits for such a thread, or for one that     *)
(* waits for the singleton mutex.                                           *)
LEMMA LogSettled ==
  ASSUME IInv, OInv, NEW t \in Thread, Rest(t) # <<>>, Next1(t) = Lock("log"),
         ~CanStep(t)
  PROVE  Settled(WaitsFor(t)) \/ Settled(WaitsFor(WaitsFor(t)))
<1>1. "log" \in Mutex /\ Next1(t).mutex = "log"
  BY DEF Mutex, Lock
<1>2. PICK u \in Thread, l \in Layer : holder["log"] = <<u, l>>
  BY <1>1 DEF CanStep, IInv, TypeOK
<1>3. WaitsFor(t) = u
  BY <1>1, <1>2 DEF WaitsFor
<1>4. CASE l = Top(u)
  BY <1>1, <1>2, <1>3, <1>4, OwnerGoesOn DEF Settled
<1>5. CASE l = "program" /\ handling[u]
  <2>1. /\ Rest(u) \in {SignalHandler, Tail(SignalHandler), Tail(Tail(SignalHandler))}
        /\ holder["log"] = <<u, "program">>
    BY <1>2, <1>5 DEF OInv, StuckOK, Rest, Top
  <2>2. CASE Rest(u) = SignalHandler
    <3>1. Rest(u) # <<>> /\ Next1(u) = Lock("singleton")
      BY <2>2, HandlerBegins DEF Next1
    <3>2. Settled(u) \/ Settled(WaitsFor(u))
      BY <3>1, SingletonSettled DEF Settled
    <3> QED BY <1>3, <3>2
  <2>3. CASE Rest(u) = Tail(SignalHandler)
    <3>1. Rest(u) # <<>> /\ Next1(u) = Unlock("singleton")
      BY <2>3, HandlerBegins DEF Next1
    <3> QED BY <1>3, <3>1 DEF Settled, CanStep, Unlock
  <2>4. CASE Rest(u) = Tail(Tail(SignalHandler))
    <3>1. Rest(u) # <<>> /\ Next1(u) = Lock("log")
      BY <2>4, HandlerBegins DEF Next1
    <3> QED BY <1>3, <1>5, <2>1, <3>1 DEF Settled, SelfLocked, Lock
  <2> QED BY <2>1, <2>2, <2>3, <2>4
<1> QED BY <1>1, <1>2, <1>4, <1>5, OwnerGoesOn

(* The only deadlock over the two mutexes is a handler that waits for the   *)
(* program it interrupted (manager.cpp:184, logger.h:65): no circle of      *)
(* threads forms, however many threads there are and whichever of them      *)
(* SIGINT interrupts, although main() logs while it holds the singleton     *)
(* mutex and the handlers take one mutex after the other.                   *)
THEOREM NoOtherDeadlock == Spec => []OnlySelfLocks
<1>1. IInv /\ OInv => OnlySelfLocks
  <2> SUFFICES ASSUME IInv, OInv, NEW t \in Thread, Rest(t) # <<>>, ~CanStep(t)
               PROVE  Settled(WaitsFor(t)) \/ Settled(WaitsFor(WaitsFor(t)))
    BY DEF OnlySelfLocks, Settled
  <2>1. Next1(t).op = "lock"
    BY DEF CanStep
  <2>2. Next1(t) \in Operation
    <3>1. Rest(t) \in Seq(Operation)
      BY DEF IInv, ProgramsOK, Rest, Top, Layer
    <3> QED BY <3>1, HeadTailProperties DEF Next1
  <2>3. Next1(t) = Lock("log") \/ Next1(t) = Lock("singleton")
    BY <2>1, <2>2, OperationForms DEF Mutex
  <2> QED BY <2>3, LogSettled, SingletonSettled
<1> QED BY <1>1, Inductive, OrderInductive, PTL
=============================================================================
