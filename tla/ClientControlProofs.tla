------------------------- MODULE ClientControlProofs -------------------------
(***************************************************************************)
(* Theorems about the client's throttling, for any number of threads and   *)
(* of concurrent /parallel queries, whatever they ask for.                 *)
(***************************************************************************)
EXTENDS ClientControl, SequenceTheorems, FiniteSetTheorems, TLAPS

\* Next, one disjunct per action.
LEMMA ControlCases ==
  ASSUME Next
  PROVE  \/ ReceiveFinished \/ SendPermit \/ ReceiveValue \/ Kick \/ Return \/ Quit
         \/ \E i \in Thread : Start(i) \/ Complete(i) \/ Fail(i) \/ Finish(i)
         \/ \E h \in Handler : Ask(h) \/ SendValue(h) \/ ReceiveCount(h) \/ Store(h)
  BY DEF Next, MainLoop, Request, Parallelization

\* The threads are the numbers below ReqMax.
LEMMA ThreadNumbers ==
  /\ ReqMax \in Nat
  /\ \A i : i \in Thread <=> i \in Nat /\ i < ReqMax
  BY ControlAssumption DEF ControlAssumption, Thread

\* A value is cut down to a setting that the main loop can have.
LEMMA ClampInRange ==
  ASSUME NEW value \in Int
  PROVE  Clamp(value) \in 0 .. ReqMax
  BY ThreadNumbers DEF Clamp

\* Taking the first element of a sequence leaves a shorter one of its kind.
LEMMA TailTyped ==
  ASSUME NEW S, NEW s \in Seq(S), s # <<>>
  PROVE  /\ Head(s) \in S
         /\ Tail(s) \in Seq(S)
         /\ Len(Tail(s)) = Len(s) - 1
         /\ \A k \in 1 .. Len(Tail(s)) : Tail(s)[k] = s[k + 1]
  BY HeadTailProperties

\* Initially every variable has its type.
LEMMA ControlTypeInit ==
  ASSUME Init
  PROVE  TypeOK
<1>1. main \in [pc : {"select", "permit", "kick"}, reqnow : 0 .. ReqMax,
                target : 0 .. ReqMax, next : 0 .. ReqMax]
  BY ControlAssumption DEF ControlAssumption, Init, Selecting
<1>2. main.pc = "select"
  BY DEF Init, Selecting
<1>3. proceed \in [Thread -> 0 .. ProceedCap]
  BY DEF Init, ProceedCap
<1>4. /\ thread \in [Thread -> {"wait", "busy", "finish"}]
      /\ handler \in [Handler -> [pc : {"idle", "send", "receive", "store"}, value : Int]]
  BY DEF Init, IdleHandler
<1>5. /\ finished \in Seq(Thread) /\ Len(finished) <= ReqMax
      /\ parallel \in Seq(Int) /\ Len(parallel) <= ParallelCap
  BY ThreadNumbers DEF Init, ParallelCap
<1>6. shown \in Int /\ exited \in BOOLEAN
  <2>1. ReqStart \in Int
    BY ControlAssumption DEF ControlAssumption
  <2> QED
    BY <2>1 DEF Init
<1> QED
  BY <1>1, <1>2, <1>3, <1>4, <1>5, <1>6 DEF TypeOK

\* Every step keeps the types.
LEMMA ControlTypeNext ==
  ASSUME TypeOK, [Next]_vars
  PROVE  TypeOK'
<1> USE DEF TypeOK
<1>1. CASE ReceiveFinished
  <2>1. /\ Head(finished) \in Thread /\ Tail(finished) \in Seq(Thread)
        /\ Len(Tail(finished)) = Len(finished) - 1
    BY <1>1, TailTyped DEF ReceiveFinished
  <2>2. Head(finished) \in 0 .. ReqMax /\ Head(finished) < ReqMax
    BY <2>1, ThreadNumbers
  <2>3. /\ main' \in [pc : {"select", "permit", "kick"}, reqnow : 0 .. ReqMax,
                      target : 0 .. ReqMax, next : 0 .. ReqMax]
        /\ main'.pc = "permit" => main'.next < ReqMax
    BY <1>1, <2>2 DEF ReceiveFinished
  <2>4. finished' \in Seq(Thread) /\ Len(finished') <= ReqMax
    BY <1>1, <2>1, ThreadNumbers DEF ReceiveFinished
  <2> QED
    BY <1>1, <2>3, <2>4 DEF ReceiveFinished
<1>2. CASE SendPermit
  <2>1. main.next \in Thread
    BY <1>2, ThreadNumbers DEF SendPermit
  <2>2. proceed[main.next] + 1 \in 0 .. ProceedCap
    <3>1. proceed[main.next] \in 0 .. ProceedCap
      BY <2>1
    <3>2. proceed[main.next] < ProceedCap
      BY <1>2 DEF SendPermit
    <3> QED
      BY <3>1, <3>2 DEF ProceedCap
  <2>3. proceed' \in [Thread -> 0 .. ProceedCap]
    BY <1>2, <2>2 DEF SendPermit
  <2>4. /\ main' \in [pc : {"select", "permit", "kick"}, reqnow : 0 .. ReqMax,
                      target : 0 .. ReqMax, next : 0 .. ReqMax]
        /\ main'.pc = "select"
    BY <1>2, ThreadNumbers DEF SendPermit, Selecting
  <2> QED
    BY <1>2, <2>3, <2>4 DEF SendPermit
<1>3. CASE ReceiveValue
  <2>1. /\ Head(parallel) \in Int /\ Tail(parallel) \in Seq(Int)
        /\ Len(Tail(parallel)) = Len(parallel) - 1
    BY <1>3, TailTyped DEF ReceiveValue
  <2>2. Clamp(Head(parallel)) \in 0 .. ReqMax
    BY <2>1, ClampInRange
  <2>3. /\ main' \in [pc : {"select", "permit", "kick"}, reqnow : 0 .. ReqMax,
                      target : 0 .. ReqMax, next : 0 .. ReqMax]
        /\ main'.pc = "kick"
    BY <1>3, <2>2 DEF ReceiveValue
  <2>4. parallel' \in Seq(Int) /\ Len(parallel') <= ParallelCap
    BY <1>3, <2>1 DEF ReceiveValue, ParallelCap
  <2> QED
    BY <1>3, <2>3, <2>4 DEF ReceiveValue
<1>4. CASE Kick
  <2>1. main.next \in Thread /\ main.next + 1 \in 0 .. ReqMax
    BY <1>4, ThreadNumbers DEF Kick
  <2>2. proceed[main.next] + 1 \in 0 .. ProceedCap
    <3>1. proceed[main.next] \in 0 .. ProceedCap
      BY <2>1
    <3>2. proceed[main.next] < ProceedCap
      BY <1>4 DEF Kick
    <3> QED
      BY <3>1, <3>2 DEF ProceedCap
  <2>3. proceed' \in [Thread -> 0 .. ProceedCap]
    BY <1>4, <2>2 DEF Kick
  <2>4. /\ main' \in [pc : {"select", "permit", "kick"}, reqnow : 0 .. ReqMax,
                      target : 0 .. ReqMax, next : 0 .. ReqMax]
        /\ main'.pc = "kick"
    BY <1>4, <2>1 DEF Kick
  <2> QED
    BY <1>4, <2>3, <2>4 DEF Kick
<1>5. CASE Return
  <2>1. /\ main' \in [pc : {"select", "permit", "kick"}, reqnow : 0 .. ReqMax,
                      target : 0 .. ReqMax, next : 0 .. ReqMax]
        /\ main'.pc = "select"
    BY <1>5, ThreadNumbers DEF Return, Selecting
  <2>2. main.target \in Int
    OBVIOUS
  <2>3. parallel' \in Seq(Int) /\ Len(parallel') <= ParallelCap
    BY <1>5, <2>2 DEF Return, Returned, ParallelCap
  <2> QED
    BY <1>5, <2>1, <2>3 DEF Return
<1>6. CASE Quit
  BY <1>6 DEF Quit
<1>7. ASSUME NEW i \in Thread, Start(i)
      PROVE  TypeOK'
  <2>1. proceed[i] - 1 \in 0 .. ProceedCap
    BY <1>7 DEF Start, ProceedCap
  <2>2. proceed' \in [Thread -> 0 .. ProceedCap]
    BY <1>7, <2>1 DEF Start
  <2> QED
    BY <1>7, <2>2 DEF Start
<1>8. ASSUME NEW i \in Thread, Complete(i)
      PROVE  TypeOK'
  BY <1>8 DEF Complete
<1>9. ASSUME NEW i \in Thread, Fail(i)
      PROVE  TypeOK'
  BY <1>9 DEF Fail
<1>10. ASSUME NEW i \in Thread, Finish(i)
       PROVE  TypeOK'
  <2>1. finished' \in Seq(Thread) /\ Len(finished') = Len(finished) + 1
    BY <1>10 DEF Finish
  <2>2. Len(finished') <= ReqMax
    BY <1>10, <2>1, ThreadNumbers DEF Finish
  <2> QED
    BY <1>10, <2>1, <2>2 DEF Finish
<1>11. ASSUME NEW h \in Handler, Ask(h)
       PROVE  TypeOK'
  <2>1. handler' \in [Handler -> [pc : {"idle", "send", "receive", "store"}, value : Int]]
    BY <1>11, ControlAssumption DEF ControlAssumption, Ask
  <2> QED
    BY <1>11, <2>1 DEF Ask
<1>12. ASSUME NEW h \in Handler, SendValue(h)
       PROVE  TypeOK'
  <2>1. handler' \in [Handler -> [pc : {"idle", "send", "receive", "store"}, value : Int]]
    BY <1>12 DEF SendValue
  <2>2. handler[h].value \in Int
    OBVIOUS
  <2>3. parallel' \in Seq(Int) /\ Len(parallel') <= ParallelCap
    BY <1>12, <2>2 DEF SendValue, ParallelCap
  <2> QED
    BY <1>12, <2>1, <2>3 DEF SendValue
<1>13. ASSUME NEW h \in Handler, ReceiveCount(h)
       PROVE  TypeOK'
  <2>1. /\ Head(parallel) \in Int /\ Tail(parallel) \in Seq(Int)
        /\ Len(Tail(parallel)) = Len(parallel) - 1
    BY <1>13, TailTyped DEF ReceiveCount
  <2>2. handler' \in [Handler -> [pc : {"idle", "send", "receive", "store"}, value : Int]]
    BY <1>13, <2>1 DEF ReceiveCount
  <2>3. parallel' \in Seq(Int) /\ Len(parallel') <= ParallelCap
    BY <1>13, <2>1 DEF ReceiveCount, ParallelCap
  <2> QED
    BY <1>13, <2>2, <2>3 DEF ReceiveCount
<1>14. ASSUME NEW h \in Handler, Store(h)
       PROVE  TypeOK'
  BY <1>14 DEF Store, IdleHandler
<1>15. CASE UNCHANGED vars
  BY <1>15 DEF vars
<1> QED
  BY <1>1, <1>2, <1>3, <1>4, <1>5, <1>6, <1>7, <1>8, <1>9, <1>10, <1>11, <1>12, <1>13,
     <1>14, <1>15, ControlCases

\* Every variable of the client's throttling always has its type: channels
\* stay within their capacities, and permits go to existing threads only.
THEOREM ControlTypeCorrect == Spec => []TypeOK
<1>1. Init => TypeOK
  BY ControlTypeInit
<1>2. TypeOK /\ [Next]_vars => TypeOK'
  BY ControlTypeNext
<1> QED
  BY <1>1, <1>2, PTL DEF Spec

-----------------------------------------------------------------------------
(* NoLostPermit.  While the main loop hands out permits for a raised setting, *)
(* it does not show yet in reqnow; the inductive invariant counts the threads *)
(* that were given one.                                                       *)

\* The setting as far as permits were handed out for it.
Granted(i) == i < main.reqnow \/ (main.pc = "kick" /\ i < main.next)

PermitsKept == \A i \in Thread : Granted(i) => HasPermit(i)

\* A thread has a permit if it has one before the step and keeps everything
\* that makes it have one.
LEMMA PermitStays ==
  ASSUME NEW i \in Thread, HasPermit(i),
         proceed'[i] = proceed[i], thread'[i] = thread[i], finished' = finished,
         main.pc # "permit" \/ (main'.pc = "permit" /\ main'.next = main.next)
  PROVE  HasPermit(i)'
  BY DEF HasPermit

\* Every step of the main loop keeps the permits.
LEMMA MainKeepsPermits ==
  ASSUME TypeOK, PermitsKept, MainLoop
  PROVE  PermitsKept'
<1>1. CASE ReceiveFinished
  <2> SUFFICES ASSUME NEW i \in Thread, Granted(i)'
               PROVE  HasPermit(i)'
    BY DEF PermitsKept
  <2>1. /\ main.pc = "select" /\ finished # <<>> /\ finished' = Tail(finished)
        /\ UNCHANGED <<proceed, thread>>
        /\ main' = IF Allowed(Head(finished))
                   THEN [main EXCEPT !.pc = "permit", !.next = Head(finished)] ELSE main
    BY <1>1 DEF ReceiveFinished
  <2>2. i < main.reqnow
    BY <2>1 DEF Granted, TypeOK
  <2>3. HasPermit(i)
    BY <2>2 DEF PermitsKept, Granted
  <2>4. CASE i = Head(finished)
    <3>1. main'.pc = "permit" /\ main'.next = i
      BY <2>1, <2>2, <2>4 DEF Allowed, TypeOK
    <3> QED
      BY <3>1 DEF HasPermit
  <2>5. CASE i # Head(finished)
    <3>1. CASE \E k \in DOMAIN finished : finished[k] = i
      <4>1. PICK k \in DOMAIN finished : finished[k] = i
        BY <3>1
      <4>2. /\ Head(finished) = finished[1]
            /\ Len(Tail(finished)) = Len(finished) - 1
            /\ \A j \in 1 .. Len(Tail(finished)) : Tail(finished)[j] = finished[j + 1]
            /\ Tail(finished) \in Seq(Thread) /\ Len(finished) \in Nat
        BY <2>1, TailTyped DEF TypeOK
      <4>3. k \in 1 .. Len(finished) /\ k # 1
        BY <2>5, <4>1, <4>2 DEF TypeOK
      <4>4. k - 1 \in 1 .. Len(Tail(finished)) /\ (k - 1) + 1 = k
        BY <4>2, <4>3
      <4>5. finished'[k - 1] = i /\ k - 1 \in DOMAIN finished'
        BY <2>1, <4>1, <4>2, <4>4
      <4> QED
        BY <4>5 DEF HasPermit
    <3>2. CASE ~\E k \in DOMAIN finished : finished[k] = i
      BY <2>1, <2>3, <3>2 DEF HasPermit
    <3> QED
      BY <3>1, <3>2
  <2> QED
    BY <2>4, <2>5
<1>2. CASE SendPermit
  <2> SUFFICES ASSUME NEW i \in Thread, Granted(i)'
               PROVE  HasPermit(i)'
    BY DEF PermitsKept
  <2>1. /\ main.pc = "permit" /\ UNCHANGED <<thread, finished>>
        /\ proceed' = [proceed EXCEPT ![main.next] = @ + 1]
        /\ main'.pc = "select" /\ main'.reqnow = main.reqnow
    BY <1>2 DEF SendPermit, Selecting
  <2>2. HasPermit(i)
    BY <2>1 DEF PermitsKept, Granted
  <2>3. CASE i = main.next
    <3>1. proceed'[i] = proceed[i] + 1 /\ proceed[i] \in Nat
      BY <2>1, <2>3 DEF TypeOK, ProceedCap
    <3> QED
      BY <3>1 DEF HasPermit
  <2>4. CASE i # main.next
    BY <2>1, <2>2, <2>4 DEF HasPermit, TypeOK
  <2> QED
    BY <2>3, <2>4
<1>3. CASE ReceiveValue
  <2> SUFFICES ASSUME NEW i \in Thread, Granted(i)'
               PROVE  HasPermit(i)'
    BY DEF PermitsKept
  <2>1. /\ main.pc = "select" /\ UNCHANGED <<proceed, thread, finished>>
        /\ main'.pc = "kick" /\ main'.next = main.reqnow /\ main'.reqnow = main.reqnow
    BY <1>3 DEF ReceiveValue, TypeOK
  <2>2. HasPermit(i)
    BY <2>1 DEF PermitsKept, Granted
  <2> QED
    BY <2>1, <2>2, PermitStays
<1>4. CASE Kick
  <2> SUFFICES ASSUME NEW i \in Thread, Granted(i)'
               PROVE  HasPermit(i)'
    BY DEF PermitsKept
  <2>1. /\ main.pc = "kick" /\ UNCHANGED <<thread, finished>>
        /\ proceed' = [proceed EXCEPT ![main.next] = @ + 1]
        /\ main'.pc = "kick" /\ main'.reqnow = main.reqnow
        /\ main'.next = main.next + 1
    BY <1>4 DEF Kick, TypeOK
  <2>2. CASE i = main.next
    <3>1. proceed'[i] = proceed[i] + 1 /\ proceed[i] \in Nat
      BY <2>1, <2>2 DEF TypeOK, ProceedCap
    <3> QED
      BY <3>1 DEF HasPermit
  <2>3. CASE i # main.next
    <3>1. Granted(i)
      BY <2>1, <2>3, ThreadNumbers DEF Granted, TypeOK
    <3>2. HasPermit(i)
      BY <3>1 DEF PermitsKept
    <3>3. proceed'[i] = proceed[i]
      BY <2>1, <2>3 DEF TypeOK
    <3> QED
      BY <2>1, <3>2, <3>3, PermitStays
  <2> QED
    BY <2>2, <2>3
<1>5. CASE Return
  <2> SUFFICES ASSUME NEW i \in Thread, Granted(i)'
               PROVE  HasPermit(i)'
    BY DEF PermitsKept
  <2>1. /\ main.pc = "kick" /\ UNCHANGED <<proceed, thread, finished>>
        /\ main.next >= main.target
        /\ main'.pc = "select" /\ main'.reqnow = main.target
    BY <1>5 DEF Return, Selecting
  <2>2. Granted(i)
    BY <2>1, ThreadNumbers DEF Granted, TypeOK
  <2>3. HasPermit(i)
    BY <2>2 DEF PermitsKept
  <2> QED
    BY <2>1, <2>3, PermitStays
<1> QED
  BY <1>1, <1>2, <1>3, <1>4, <1>5 DEF MainLoop

\* Every step of a thread keeps the permits.
LEMMA ThreadKeepsPermits ==
  ASSUME TypeOK, PermitsKept, NEW t \in Thread, Start(t) \/ Complete(t) \/ Finish(t)
  PROVE  PermitsKept'
<1> SUFFICES ASSUME NEW i \in Thread, Granted(i)'
             PROVE  HasPermit(i)'
  BY DEF PermitsKept
<1>1. UNCHANGED main
  BY DEF Start, Complete, Finish
<1>2. HasPermit(i)
  BY <1>1 DEF PermitsKept, Granted
<1>3. CASE Start(t)
  <2>1. /\ proceed' = [proceed EXCEPT ![t] = @ - 1]
        /\ thread' = [thread EXCEPT ![t] = "busy"] /\ UNCHANGED finished
    BY <1>3 DEF Start
  <2> QED
    BY <1>1, <1>2, <2>1 DEF HasPermit, TypeOK
<1>4. CASE Complete(t)
  BY <1>1, <1>2, <1>4 DEF Complete, HasPermit, TypeOK
<1>5. CASE Finish(t)
  <2>1. /\ thread' = [thread EXCEPT ![t] = "wait"] /\ UNCHANGED proceed
        /\ finished' = Append(finished, t)
    BY <1>5 DEF Finish
  <2>2. finished \in Seq(Thread) /\ Len(finished) \in Nat
    BY DEF TypeOK
  <2>3. /\ DOMAIN finished' = 1 .. Len(finished) + 1
        /\ finished'[Len(finished) + 1] = t
        /\ \A k \in DOMAIN finished : finished'[k] = finished[k] /\ k \in DOMAIN finished'
    BY <2>1, <2>2
  <2>4. CASE i = t
    BY <2>2, <2>3, <2>4 DEF HasPermit
  <2>5. CASE i # t
    <3>1. thread'[i] = thread[i]
      BY <2>1, <2>5 DEF TypeOK
    <3> QED
      BY <1>1, <1>2, <2>1, <2>3, <3>1 DEF HasPermit
  <2> QED
    BY <2>4, <2>5
<1> QED
  BY <1>3, <1>4, <1>5

\* Initially exactly the threads that may proceed have a permit.
LEMMA PermitsInit ==
  ASSUME Init
  PROVE  PermitsKept
<1>1. main.pc = "select" /\ main.reqnow = ReqStart
  BY DEF Init, Selecting
<1>2. \A i \in Thread : i < ReqStart => proceed[i] = 1
  BY DEF Init
<1> QED
  BY <1>1, <1>2 DEF PermitsKept, Granted, HasPermit

\* Every step keeps the permits.
LEMMA PermitsNext ==
  ASSUME TypeOK, PermitsKept, [Next]_vars
  PROVE  PermitsKept'
<1>1. CASE UNCHANGED <<main, proceed, thread, finished>>
  BY <1>1 DEF PermitsKept, Granted, HasPermit
<1>2. CASE MainLoop
  BY <1>2, MainKeepsPermits
<1>3. ASSUME NEW t \in Thread, Start(t) \/ Complete(t) \/ Finish(t)
      PROVE  PermitsKept'
  BY <1>3, ThreadKeepsPermits
<1>4. Quit => UNCHANGED <<main, proceed, thread, finished>>
  BY DEF Quit
<1>5. \A i \in Thread : Fail(i) => UNCHANGED <<main, proceed, thread, finished>>
  BY DEF Fail
<1>6. \A h \in Handler : Ask(h) \/ Parallelization(h)
                           => UNCHANGED <<main, proceed, thread, finished>>
  BY DEF Ask, Parallelization, SendValue, ReceiveCount, Store
<1>7. UNCHANGED vars => UNCHANGED <<main, proceed, thread, finished>>
  BY DEF vars
<1> QED
  BY <1>1, <1>2, <1>3, <1>4, <1>5, <1>6, <1>7 DEF Next, Request

\* An allowed thread never loses its permit, for any number of threads and any
\* changes of the setting.
THEOREM PermitsNeverLost == Spec => []NoLostPermit
<1>1. Init => PermitsKept
  BY PermitsInit
<1>2. TypeOK /\ PermitsKept /\ [Next]_vars => PermitsKept'
  BY PermitsNext
<1>3. PermitsKept => NoLostPermit
  BY DEF PermitsKept, Granted, NoLostPermit
<1> QED
  BY <1>1, <1>2, <1>3, ControlTypeCorrect, PTL DEF Spec

-----------------------------------------------------------------------------
(* HandlersAnswered is inductive, given the types. *)

\* A step that changes no handler's waiting keeps the count if what is in the
\* channel and what the main loop works on stay as many.
LEMMA SameReceivers ==
  ASSUME HandlersAnswered, Receiving' = Receiving,
         Len(parallel') + InWork' = Len(parallel) + InWork
  PROVE  HandlersAnswered'
  BY DEF HandlersAnswered

\* The waiting handlers are finitely many.
LEMMA ReceivingFinite == IsFiniteSet(Receiving) /\ Cardinality(Receiving) \in Nat
<1>1. IsFiniteSet(Receiving)
  BY ControlAssumption, FS_Subset DEF ControlAssumption, Receiving
<1> QED
  BY <1>1, FS_CardinalityType

\* Every step keeps the handlers and the values in balance.
LEMMA HandlersNext ==
  ASSUME TypeOK, HandlersAnswered, [Next]_vars
  PROVE  HandlersAnswered'
<1>1. ASSUME UNCHANGED <<handler, parallel>>, InWork' = InWork
      PROVE  HandlersAnswered'
  BY <1>1, SameReceivers DEF Receiving
<1>2. CASE ReceiveFinished
  <2>1. UNCHANGED <<handler, parallel>> /\ InWork' = InWork
    BY <1>2 DEF ReceiveFinished, InWork, TypeOK
  <2> QED
    BY <1>1, <2>1
<1>3. CASE SendPermit
  <2>1. UNCHANGED <<handler, parallel>> /\ InWork' = InWork
    BY <1>3 DEF SendPermit, Selecting, InWork
  <2> QED
    BY <1>1, <2>1
<1>4. CASE ReceiveValue
  <2>1. InWork = 0 /\ InWork' = 1 /\ Receiving' = Receiving
    BY <1>4 DEF ReceiveValue, InWork, Receiving, TypeOK
  <2>2. Len(parallel') = Len(parallel) - 1 /\ Len(parallel) \in Nat
    BY <1>4, TailTyped DEF ReceiveValue, TypeOK
  <2> QED
    BY <2>1, <2>2, SameReceivers
<1>5. CASE Kick
  <2>1. UNCHANGED <<handler, parallel>> /\ InWork' = InWork
    BY <1>5 DEF Kick, InWork, TypeOK
  <2> QED
    BY <1>1, <2>1
<1>6. CASE Return
  <2>1. InWork = 1 /\ InWork' = 0 /\ Receiving' = Receiving
    BY <1>6 DEF Return, Selecting, InWork, Receiving
  <2>2. Len(parallel') = Len(parallel) + 1 /\ Len(parallel) \in Nat
    BY <1>6 DEF Return, Returned, TypeOK
  <2> QED
    BY <2>1, <2>2, SameReceivers
<1>7. CASE Quit
  <2>1. UNCHANGED <<handler, parallel>> /\ InWork' = InWork
    BY <1>7 DEF Quit, InWork
  <2> QED
    BY <1>1, <2>1
<1>8. ASSUME NEW i \in Thread, Start(i) \/ Complete(i) \/ Fail(i) \/ Finish(i)
      PROVE  HandlersAnswered'
  <2>1. UNCHANGED <<handler, parallel>> /\ InWork' = InWork
    BY <1>8 DEF Start, Complete, Fail, Finish, InWork
  <2> QED
    BY <1>1, <2>1
<1>9. ASSUME NEW h \in Handler, Ask(h) \/ Store(h)
      PROVE  HandlersAnswered'
  <2>1. handler[h].pc # "receive" /\ handler'[h].pc # "receive"
    BY <1>9 DEF Ask, Store, IdleHandler, TypeOK
  <2>2. \A g \in Handler \ {h} : handler'[g] = handler[g]
    BY <1>9 DEF Ask, Store, TypeOK
  <2>3. Receiving' = Receiving
    BY <2>1, <2>2 DEF Receiving
  <2>4. Len(parallel') + InWork' = Len(parallel) + InWork
    BY <1>9 DEF Ask, Store, InWork
  <2> QED
    BY <2>3, <2>4, SameReceivers
<1>10. ASSUME NEW h \in Handler, SendValue(h)
       PROVE  HandlersAnswered'
  <2>1. handler[h].pc = "send" /\ handler'[h].pc = "receive"
    BY <1>10 DEF SendValue, TypeOK
  <2>2. \A g \in Handler \ {h} : handler'[g] = handler[g]
    BY <1>10 DEF SendValue, TypeOK
  <2>3. Receiving' = Receiving \cup {h} /\ h \notin Receiving
    BY <2>1, <2>2 DEF Receiving
  <2>4. Cardinality(Receiving') = Cardinality(Receiving) + 1
    BY <2>3, ReceivingFinite, FS_AddElement
  <2>5. Len(parallel') = Len(parallel) + 1 /\ Len(parallel) \in Nat /\ InWork' = InWork
    BY <1>10 DEF SendValue, InWork, TypeOK
  <2>6. InWork \in Nat
    BY DEF InWork
  <2> QED
    BY <2>4, <2>5, <2>6 DEF HandlersAnswered
<1>11. ASSUME NEW h \in Handler, ReceiveCount(h)
       PROVE  HandlersAnswered'
  <2>1. handler[h].pc = "receive" /\ handler'[h].pc = "store"
    BY <1>11 DEF ReceiveCount, TypeOK
  <2>2. \A g \in Handler \ {h} : handler'[g] = handler[g]
    BY <1>11 DEF ReceiveCount, TypeOK
  <2>3. Receiving' = Receiving \ {h} /\ h \in Receiving
    BY <2>1, <2>2 DEF Receiving
  <2>4. Cardinality(Receiving') = Cardinality(Receiving) - 1
    BY <2>3, ReceivingFinite, FS_RemoveElement
  <2>5. Len(parallel') = Len(parallel) - 1 /\ Len(parallel) \in Nat /\ InWork' = InWork
    BY <1>11, TailTyped DEF ReceiveCount, InWork, TypeOK
  <2>6. InWork \in Nat
    BY DEF InWork
  <2> QED
    BY <2>4, <2>5, <2>6 DEF HandlersAnswered
<1>12. CASE UNCHANGED vars
  <2>1. UNCHANGED <<handler, parallel>> /\ InWork' = InWork
    BY <1>12 DEF vars, InWork
  <2> QED
    BY <1>1, <2>1
<1> QED
  BY <1>2, <1>3, <1>4, <1>5, <1>6, <1>7, <1>8, <1>9, <1>10, <1>11, <1>12, ControlCases

\* As many handlers wait for the shared channel as there are values for them in
\* it or with the main loop, for any number of concurrent queries.
THEOREM HandlersBalanced == Spec => []HandlersAnswered
<1>1. Init => HandlersAnswered
  <2> SUFFICES ASSUME Init
               PROVE  HandlersAnswered
    OBVIOUS
  <2>1. Receiving = {} /\ InWork = 0 /\ Len(parallel) = 0
    BY DEF Init, Receiving, InWork, Selecting, IdleHandler
  <2> QED
    BY <2>1, FS_EmptySet DEF HandlersAnswered
<1>2. TypeOK /\ HandlersAnswered /\ [Next]_vars => HandlersAnswered'
  BY HandlersNext
<1> QED
  BY <1>1, <1>2, ControlTypeCorrect, PTL DEF Spec

-----------------------------------------------------------------------------
(* Permits and the setting. *)

\* The thread that is about to get its next permit is within the setting.
PermitInv == main.pc = "permit" => main.next < main.reqnow

\* The setting does not change while a permit is being sent.
LEMMA PermitNext ==
  ASSUME TypeOK, PermitInv, [Next]_vars
  PROVE  PermitInv'
<1> USE DEF PermitInv
<1>1. CASE ReceiveFinished
  BY <1>1 DEF ReceiveFinished, Allowed, TypeOK
<1>2. CASE SendPermit \/ ReceiveValue \/ Kick \/ Return
  <2>1. main \in [pc : {"select", "permit", "kick"}, reqnow : 0 .. ReqMax,
                 target : 0 .. ReqMax, next : 0 .. ReqMax]
    BY DEF TypeOK
  <2>2. SendPermit \/ Return => main'.pc = "select"
    BY DEF SendPermit, Return, Selecting
  <2>3. ReceiveValue => main'.pc = "kick"
    BY <2>1 DEF ReceiveValue
  <2>4. Kick => main'.pc = "kick"
    BY <2>1 DEF Kick
  <2> QED BY <1>2, <2>2, <2>3, <2>4
<1>3. CASE UNCHANGED main
  BY <1>3
<1>4. CASE Quit \/ UNCHANGED vars
  BY <1>3, <1>4 DEF Quit, vars
<1>5. ASSUME NEW i \in Thread, Start(i) \/ Complete(i) \/ Fail(i) \/ Finish(i)
      PROVE  PermitInv'
  BY <1>3, <1>5 DEF Start, Complete, Fail, Finish
<1>6. ASSUME NEW h \in Handler, Ask(h) \/ SendValue(h) \/ ReceiveCount(h) \/ Store(h)
      PROVE  PermitInv'
  BY <1>3, <1>6 DEF Ask, SendValue, ReceiveCount, Store
<1> QED BY <1>1, <1>2, <1>4, <1>5, <1>6, ControlCases

\* Which step gives a thread a permit, and to whom.
LEMMA PermitGiven ==
  ASSUME TypeOK, PermitInv, [Next]_vars, NEW i \in Thread, proceed'[i] > proceed[i]
  PROVE  \/ i < main.reqnow
         \/ main.pc = "kick" /\ i < main.target
<1>0. proceed[i] \in Int /\ proceed'[i] # proceed[i]
  BY DEF TypeOK
<1>1. CASE SendPermit
  BY <1>0, <1>1 DEF SendPermit, TypeOK, PermitInv
<1>2. CASE Kick
  BY <1>0, <1>2 DEF Kick, TypeOK
<1>3. ASSUME NEW t \in Thread, Start(t)
      PROVE  FALSE
  BY <1>0, <1>3 DEF Start, TypeOK
<1>4. ASSUME UNCHANGED proceed
      PROVE  FALSE
  BY <1>0, <1>4
<1>5. \/ ReceiveFinished \/ ReceiveValue \/ Return \/ Quit \/ UNCHANGED vars
      => UNCHANGED proceed
  BY DEF ReceiveFinished, ReceiveValue, Return, Quit, vars
<1>6. \A t \in Thread : Complete(t) \/ Fail(t) \/ Finish(t) => UNCHANGED proceed
  BY DEF Complete, Fail, Finish
<1>7. \A h \in Handler : Ask(h) \/ SendValue(h) \/ ReceiveCount(h) \/ Store(h)
                           => UNCHANGED proceed
  BY DEF Ask, SendValue, ReceiveCount, Store
<1> QED BY <1>1, <1>2, <1>3, <1>4, <1>5, <1>6, <1>7, ControlCases

\* A thread above the setting gets no permit, for any number of threads and any
\* changes of the setting (doParallelRequests).
THEOREM PermitsStayWithinSetting == Spec => PermitsWithinSetting
<1>1. Init => PermitInv
  BY DEF Init, Selecting, PermitInv
<1>2. TypeOK /\ PermitInv /\ [Next]_vars => PermitInv'
  BY PermitNext
<1>3. TypeOK /\ PermitInv /\ [Next]_vars
        => [\A i \in Thread : proceed'[i] > proceed[i] =>
              \/ i < main.reqnow
              \/ main.pc = "kick" /\ i < main.target]_vars
  BY PermitGiven
<1> QED BY <1>1, <1>2, <1>3, ControlTypeCorrect, PTL DEF Spec, PermitsWithinSetting

-----------------------------------------------------------------------------
(* When what the code violates does hold. *)

\* Every number that is on its way to stats.parallel is a possible setting.
ShownInv ==
  /\ \A k \in DOMAIN parallel : parallel[k] \in 0 .. ReqMax
  /\ \A h \in Handler : handler[h].value \in 0 .. ReqMax
  /\ shown \in 0 .. ReqMax

\* If only possible settings are asked for, only such ones are on their way.
LEMMA ShownNext ==
  ASSUME Value \subseteq 0 .. ReqMax, TypeOK, ShownInv, [Next]_vars
  PROVE  ShownInv'
<1> USE DEF ShownInv
<1>0. /\ parallel \in Seq(Int) /\ ReqMax \in Nat
      /\ handler \in [Handler -> [pc : {"idle", "send", "receive", "store"}, value : Int]]
  BY ThreadNumbers DEF TypeOK
<1>1. parallel # <<>> => /\ Head(parallel) \in 0 .. ReqMax
                         /\ \A k \in DOMAIN Tail(parallel) : Tail(parallel)[k] \in 0 .. ReqMax
  BY <1>0, HeadTailProperties
<1>2. ASSUME NEW v \in 0 .. ReqMax
      PROVE  \A k \in DOMAIN Append(parallel, v) : Append(parallel, v)[k] \in 0 .. ReqMax
  BY <1>0
<1>3. CASE ReceiveValue
  BY <1>1, <1>3 DEF ReceiveValue
<1>4. CASE Return
  <2>1. main.target \in 0 .. ReqMax
    BY DEF TypeOK
  <2> QED BY <1>2, <1>4, <2>1 DEF Return, Returned
<1>5. ASSUME NEW h \in Handler, Ask(h)
      PROVE  ShownInv'
  <2>1. PICK v \in Value : handler' = [handler EXCEPT ![h] = [pc |-> "send", value |-> v]]
    BY <1>5 DEF Ask
  <2> QED BY <1>0, <1>5, <2>1 DEF Ask
<1>6. ASSUME NEW h \in Handler, SendValue(h)
      PROVE  ShownInv'
  <2>1. \A g \in Handler : handler'[g].value = handler[g].value
    BY <1>0, <1>6 DEF SendValue
  <2> QED BY <1>2, <1>6, <2>1 DEF SendValue
<1>7. ASSUME NEW h \in Handler, ReceiveCount(h)
      PROVE  ShownInv'
  <2>1. \A g \in Handler : handler'[g].value \in {handler[g].value, Head(parallel)}
    BY <1>0, <1>7 DEF ReceiveCount
  <2> QED BY <1>1, <1>7, <2>1 DEF ReceiveCount
<1>8. ASSUME NEW h \in Handler, Store(h)
      PROVE  ShownInv'
  BY <1>0, <1>8 DEF Store, IdleHandler
<1>9. CASE UNCHANGED <<parallel, handler, shown>>
  BY <1>9
<1>10. ReceiveFinished \/ SendPermit \/ Kick \/ Quit \/ UNCHANGED vars
         => UNCHANGED <<parallel, handler, shown>>
  BY DEF ReceiveFinished, SendPermit, Kick, Quit, vars
<1>11. \A i \in Thread : Start(i) \/ Complete(i) \/ Fail(i) \/ Finish(i)
                           => UNCHANGED <<parallel, handler, shown>>
  BY DEF Start, Complete, Fail, Finish
<1> QED BY <1>3, <1>4, <1>5, <1>6, <1>7, <1>8, <1>9, <1>10, <1>11, ControlCases

\* What is left of ShownWithinMax: the number of parallel requests that is shown
\* is a setting as long as every query asks for one.
THEOREM ShownRightIfAskedRight ==
  ASSUME Value \subseteq 0 .. ReqMax
  PROVE  Spec => []ShownWithinMax
<1>1. Init => ShownInv
  BY ControlAssumption DEF ControlAssumption, Init, IdleHandler, ShownInv
<1>2. TypeOK /\ ShownInv /\ [Next]_vars => ShownInv'
  BY ShownNext
<1>3. ShownInv => ShownWithinMax
  BY DEF ShownInv, ShownWithinMax
<1> QED BY <1>1, <1>2, <1>3, ControlTypeCorrect, PTL DEF Spec

\* Each thread has at most one permit: in its channel, in use, reported as
\* finished, or about to be renewed.
Used(i) ==
  \/ thread[i] \in {"busy", "finish"}
  \/ \E k \in DOMAIN finished : finished[k] = i
  \/ main.pc = "permit" /\ main.next = i

OnePermit ==
  /\ \A i \in Thread : proceed[i] <= 1 /\ (Used(i) => proceed[i] = 0)
  /\ \A k \in DOMAIN finished : thread[finished[k]] = "wait"
  /\ \A k, l \in DOMAIN finished : finished[k] = finished[l] => k = l
  /\ main.pc = "permit" => /\ thread[main.next] = "wait"
                           /\ \A k \in DOMAIN finished : finished[k] # main.next

\* That stays so as long as the setting is not raised.
LEMMA OnePermitNext ==
  ASSUME TypeOK, OnePermit, [Next /\ ~Kick]_vars
  PROVE  OnePermit'
<1>0. /\ proceed \in [Thread -> 0 .. ProceedCap] /\ finished \in Seq(Thread)
      /\ thread \in [Thread -> {"wait", "busy", "finish"}]
      /\ main \in [pc : {"select", "permit", "kick"}, reqnow : 0 .. ReqMax,
                   target : 0 .. ReqMax, next : 0 .. ReqMax]
      /\ main.pc = "permit" => main.next \in Thread
  BY ThreadNumbers DEF TypeOK
<1>1. CASE ReceiveFinished
  <2>1. /\ Head(finished) = finished[1] /\ Head(finished) \in Thread /\ 1 \in DOMAIN finished
        /\ \A k \in DOMAIN Tail(finished) :
             k + 1 \in DOMAIN finished /\ k + 1 # 1 /\ Tail(finished)[k] = finished[k + 1]
    BY <1>0, <1>1, HeadTailProperties DEF ReceiveFinished
  <2>2. /\ finished' = Tail(finished) /\ thread' = thread /\ proceed' = proceed
        /\ main.pc = "select"
        /\ main'.pc = "permit" => main'.next = finished[1]
    BY <1>0, <1>1, <2>1 DEF ReceiveFinished
  <2>3. \A i \in Thread : Used(i)' => Used(i)
    BY <2>1, <2>2 DEF Used
  <2>4. \A k \in DOMAIN finished' : finished'[k] # finished[1]
    BY <2>1, <2>2 DEF OnePermit
  <2>5. \A k \in DOMAIN finished' : thread'[finished'[k]] = "wait"
    BY <2>1, <2>2 DEF OnePermit
  <2>6. \A k, l \in DOMAIN finished' : finished'[k] = finished'[l] => k = l
    <3>1. ASSUME NEW k \in DOMAIN finished', NEW l \in DOMAIN finished', finished'[k] = finished'[l]
          PROVE  k = l
      <4>1. /\ k + 1 \in DOMAIN finished /\ l + 1 \in DOMAIN finished
            /\ finished[k + 1] = finished[l + 1]
        BY <2>1, <2>2, <3>1
      <4>2. k + 1 = l + 1
        <5>1. \A i, j \in DOMAIN finished : finished[i] = finished[j] => i = j
          BY DEF OnePermit
        <5> QED BY <4>1, <5>1
      <4>3. k \in Nat /\ l \in Nat
        <5>1. Tail(finished) \in Seq(Thread)
          BY <1>0, <1>1, HeadTailProperties DEF ReceiveFinished
        <5>2. DOMAIN Tail(finished) \subseteq Nat
          BY <5>1
        <5> QED BY <2>2, <5>2
      <4> QED BY <4>2, <4>3
    <3> QED BY <3>1
  <2>7. thread[finished[1]] = "wait"
    BY <2>1 DEF OnePermit
  <2>8. \A i \in Thread : proceed'[i] <= 1 /\ (Used(i)' => proceed'[i] = 0)
    BY <2>2, <2>3 DEF OnePermit
  <2> QED BY <2>2, <2>4, <2>5, <2>6, <2>7, <2>8 DEF OnePermit
<1>2. CASE SendPermit
  <2> DEFINE n == main.next
  <2>1. /\ n \in Thread /\ proceed' = [proceed EXCEPT ![n] = @ + 1] /\ main'.pc = "select"
        /\ thread' = thread /\ finished' = finished /\ main.pc = "permit"
    BY <1>0, <1>2 DEF SendPermit, Selecting
  <2>2. proceed[n] = 0 /\ thread[n] = "wait" /\ \A k \in DOMAIN finished : finished[k] # n
    BY <2>1 DEF OnePermit, Used
  <2>3. \A i \in Thread : Used(i)' => i # n /\ Used(i)
    <3>1. ASSUME NEW i \in Thread, Used(i)'
          PROVE  \/ thread[i] \in {"busy", "finish"}
                 \/ \E k \in DOMAIN finished : finished[k] = i
      BY <2>1, <3>1 DEF Used
    <3> QED BY <2>2, <3>1 DEF Used
  <2> HIDE DEF n
  <2>4. proceed'[n] = 1 /\ \A i \in Thread \ {n} : proceed'[i] = proceed[i]
    BY <1>0, <2>1, <2>2
  <2>5. \A i \in Thread : proceed'[i] <= 1 /\ (Used(i)' => proceed'[i] = 0)
    <3>1. ASSUME NEW i \in Thread
          PROVE  proceed'[i] <= 1 /\ (Used(i)' => proceed'[i] = 0)
      <4>1. CASE i = n
        BY <2>3, <2>4, <4>1
      <4>2. CASE i # n
        BY <2>3, <2>4, <4>2 DEF OnePermit
      <4> QED BY <4>1, <4>2
    <3> QED BY <3>1
  <2> QED BY <2>1, <2>5 DEF OnePermit
<1>3. CASE ReceiveValue \/ Return
  <2>1. UNCHANGED <<proceed, thread, finished>> /\ main.pc # "permit"
    BY <1>3 DEF ReceiveValue, Return
  <2>2. ReceiveValue => main'.pc = "kick"
    BY <1>0 DEF ReceiveValue
  <2>3. Return => main'.pc = "select"
    BY DEF Return, Selecting
  <2>4. main'.pc # "permit"
    BY <1>3, <2>2, <2>3
  <2>5. \A i \in Thread : Used(i)' => Used(i)
    BY <2>1, <2>4 DEF Used
  <2> QED BY <2>1, <2>4, <2>5 DEF OnePermit
<1>4. ASSUME NEW t \in Thread, Start(t)
      PROVE  OnePermit'
  <2>1. /\ proceed' = [proceed EXCEPT ![t] = @ - 1] /\ thread' = [thread EXCEPT ![t] = "busy"]
        /\ main' = main /\ finished' = finished /\ proceed[t] > 0
    BY <1>4 DEF Start
  <2>2. proceed[t] = 1 /\ ~Used(t)
    BY <1>0, <2>1 DEF OnePermit
  <2>3. proceed'[t] = 0 /\ \A i \in Thread \ {t} : proceed'[i] = proceed[i] /\ thread'[i] = thread[i]
    BY <1>0, <2>1, <2>2
  <2>4. \A i \in Thread \ {t} : Used(i)' => Used(i)
    BY <2>1, <2>3 DEF Used
  <2>5. \A i \in Thread : proceed'[i] <= 1 /\ (Used(i)' => proceed'[i] = 0)
    BY <2>3, <2>4 DEF OnePermit
  <2>6. \A k \in DOMAIN finished : finished[k] \in Thread /\ finished[k] # t
    BY <1>0, <2>2 DEF Used
  <2>7. main.pc = "permit" => main.next # t /\ main.next \in Thread
    BY <1>0, <2>2 DEF Used
  <2> QED BY <2>1, <2>3, <2>5, <2>6, <2>7 DEF OnePermit
<1>5. ASSUME NEW t \in Thread, Complete(t)
      PROVE  OnePermit'
  <2>1. /\ thread' = [thread EXCEPT ![t] = "finish"] /\ thread[t] = "busy"
        /\ UNCHANGED <<main, proceed, finished>>
    BY <1>5 DEF Complete
  <2>2. /\ \A k \in DOMAIN finished : finished[k] \in Thread /\ finished[k] # t
        /\ main.pc = "permit" => main.next # t
    BY <1>0, <2>1 DEF OnePermit
  <2>3. \A i \in Thread : Used(i)' => Used(i)
    BY <1>0, <2>1 DEF Used
  <2> QED BY <1>0, <2>1, <2>2, <2>3 DEF OnePermit
<1>6. ASSUME NEW t \in Thread, Finish(t)
      PROVE  OnePermit'
  <2>1. /\ thread' = [thread EXCEPT ![t] = "wait"] /\ thread[t] = "finish"
        /\ finished' = Append(finished, t) /\ UNCHANGED <<main, proceed>>
    BY <1>6 DEF Finish
  <2>2. /\ \A k \in DOMAIN finished : finished[k] \in Thread /\ finished[k] # t
        /\ main.pc = "permit" => main.next # t /\ main.next \in Thread
    BY <1>0, <2>1 DEF OnePermit
  <2>3. /\ DOMAIN finished' = DOMAIN finished \cup {Len(finished) + 1}
        /\ finished'[Len(finished) + 1] = t
        /\ \A k \in DOMAIN finished : finished'[k] = finished[k]
    BY <1>0, <2>1
  <2>4. \A i \in Thread : Used(i)' => Used(i)
    BY <1>0, <2>1, <2>3 DEF Used
  <2>5. \A i \in Thread : proceed'[i] <= 1 /\ (Used(i)' => proceed'[i] = 0)
    BY <2>1, <2>4 DEF OnePermit
  <2>6. \A k \in DOMAIN finished' : thread'[finished'[k]] = "wait"
    BY <1>0, <2>1, <2>2, <2>3 DEF OnePermit
  <2>7. \A k, l \in DOMAIN finished' : finished'[k] = finished'[l] => k = l
    BY <2>2, <2>3 DEF OnePermit
  <2>8. main'.pc = "permit" => /\ thread'[main'.next] = "wait"
                               /\ \A k \in DOMAIN finished' : finished'[k] # main'.next
    BY <1>0, <2>1, <2>2, <2>3 DEF OnePermit
  <2> QED BY <2>5, <2>6, <2>7, <2>8 DEF OnePermit
<1>7. CASE UNCHANGED <<main, proceed, thread, finished>>
  BY <1>7 DEF OnePermit, Used
<1>8. CASE Quit \/ UNCHANGED vars
  BY <1>7, <1>8 DEF Quit, vars
<1>9. ASSUME NEW t \in Thread, Fail(t)
      PROVE  OnePermit'
  BY <1>7, <1>9 DEF Fail
<1>10. ASSUME NEW h \in Handler, Ask(h) \/ SendValue(h) \/ ReceiveCount(h) \/ Store(h)
       PROVE  OnePermit'
  BY <1>7, <1>10 DEF Ask, SendValue, ReceiveCount, Store
<1>11. CASE Next /\ ~Kick
  BY <1>1, <1>2, <1>3, <1>4, <1>5, <1>6, <1>8, <1>9, <1>10, <1>11, ControlCases
<1> QED BY <1>8, <1>11

\* The threads that may start have one permit, which nobody uses yet.
LEMMA OnePermitInit ==
  ASSUME Init
  PROVE  OnePermit
<1>1. main.pc = "select" /\ finished = <<>> /\ \A i \in Thread : thread[i] = "wait"
  BY DEF Init, Selecting
<1>2. \A i \in Thread : proceed[i] \in {0, 1}
  BY DEF Init
<1> QED BY <1>1, <1>2 DEF OnePermit, Used

\* What is left of NoSendCycle: the main loop, a thread's permits and the finished
\* channel can wait for each other only once the setting has been raised.
THEOREM CycleNeedsRaise == Spec /\ [][~Kick]_vars => []NoSendCycle
<1>1. Init => OnePermit
  BY OnePermitInit
<1>2. TypeOK /\ OnePermit /\ [Next]_vars /\ [~Kick]_vars => OnePermit'
  BY OnePermitNext
<1>3. TypeOK /\ OnePermit => NoSendCycle
  <2> SUFFICES ASSUME TypeOK, OnePermit, SendCycle
               PROVE  FALSE
    BY DEF NoSendCycle
  <2>1. main.next \in Thread
    BY ThreadNumbers DEF SendCycle, TypeOK
  <2>2. proceed[main.next] = 2 /\ proceed[main.next] <= 1
    BY <2>1 DEF SendCycle, OnePermit, ProceedCap
  <2> QED BY <2>2
<1> QED BY <1>1, <1>2, <1>3, ControlTypeCorrect, PTL DEF Spec

-----------------------------------------------------------------------------
(* Waiting.  An action of the main loop, of a thread and of a query can be      *)
(* taken if one of these holds; signals, failures and new queries are left out. *)

MainReady ==
  \/ main.pc = "select" /\ (finished # <<>> \/ parallel # <<>>)
  \/ main.pc = "permit" /\ proceed[main.next] < ProceedCap
  \/ main.pc = "kick" /\ main.next < main.target /\ proceed[main.next] < ProceedCap
  \/ main.pc = "kick" /\ main.next >= main.target /\ Len(parallel) < ParallelCap

ThreadReady(i) ==
  \/ thread[i] = "wait" /\ proceed[i] > 0
  \/ thread[i] = "busy"
  \/ thread[i] = "finish" /\ Len(finished) < ReqMax

HandlerReady(h) ==
  \/ handler[h].pc = "send" /\ Len(parallel) < ParallelCap
  \/ handler[h].pc = "receive" /\ parallel # <<>>
  \/ handler[h].pc = "store"

SomebodyReady ==
  MainReady \/ (\E i \in Thread : ThreadReady(i)) \/ \E h \in Handler : HandlerReady(h)

\* All requests were switched off and have ended, and no query is in progress.
AtRest ==
  /\ main.pc = "select" /\ main.reqnow = 0
  /\ \A i \in Thread : thread[i] = "wait"
  /\ \A h \in Handler : handler[h].pc = "idle"

\* When the main loop waits in its select, everybody else can go on or is done.
LEMMA SelectWaits ==
  ASSUME TypeOK, NoLostPermit, HandlersAnswered, main.pc = "select", ~SomebodyReady
  PROVE  AtRest
<1>1. finished = <<>> /\ parallel = <<>> /\ Len(finished) = 0 /\ Len(parallel) = 0
  BY DEF SomebodyReady, MainReady
<1>2. \A i \in Thread : thread[i] = "wait" /\ proceed[i] <= 0
  <2>1. ReqMax \in Nat /\ ReqMax >= 0 /\ proceed \in [Thread -> 0 .. ProceedCap]
    BY ThreadNumbers DEF TypeOK
  <2> SUFFICES ASSUME NEW i \in Thread
               PROVE  thread[i] = "wait" /\ proceed[i] <= 0
    OBVIOUS
  <2>2. ReqMax > 0
    BY <2>1 DEF Thread
  <2>3. thread[i] = "wait"
    BY <1>1, <2>2 DEF SomebodyReady, ThreadReady, TypeOK
  <2> QED BY <2>1, <2>3 DEF SomebodyReady, ThreadReady
<1>3. \A h \in Handler : handler[h].pc = "idle"
  <2>1. Cardinality(Receiving) = 0
    BY <1>1 DEF HandlersAnswered, InWork
  <2>2. Receiving = {}
    BY <2>1, ReceivingFinite, FS_EmptySet
  <2>3. \A h \in Handler : handler[h].pc \in {"idle", "send", "store"}
    BY <2>2 DEF Receiving, TypeOK
  <2> QED BY <1>1, <2>3 DEF SomebodyReady, HandlerReady, ParallelCap
<1>4. main.reqnow = 0
  <2>0. \A i \in Thread : proceed[i] \in Int
    BY DEF TypeOK
  <2>1. \A i \in Thread : ~HasPermit(i)
    <3>1. DOMAIN finished = {}
      BY <1>1
    <3>2. \A i \in Thread : ~(proceed[i] > 0)
      BY <1>2, <2>0
    <3>3. \A i \in Thread : thread[i] \notin {"busy", "finish"}
      BY <1>2
    <3> QED BY <3>1, <3>2, <3>3 DEF HasPermit
  <2>2. \A i \in Thread : ~(i < main.reqnow)
    BY <2>1 DEF NoLostPermit
  <2>3. main.reqnow \in 0 .. ReqMax /\ ReqMax \in Nat
    BY ThreadNumbers DEF TypeOK
  <2> QED BY <2>2, <2>3 DEF Thread
<1> QED BY <1>2, <1>3, <1>4 DEF AtRest

\* When it waits for room in the channel of a thread, that thread takes permits
\* from there sooner or later, unless it waits in turn for the main loop.
LEMMA PermitWaits ==
  ASSUME TypeOK, ~SomebodyReady,
         main.pc = "permit" \/ (main.pc = "kick" /\ main.next < main.target)
  PROVE  SendCycle
<1>1. /\ main.next \in Thread /\ proceed[main.next] \in 0 .. ProceedCap
      /\ thread[main.next] \in {"wait", "busy", "finish"}
  BY ThreadNumbers DEF TypeOK
<1>2. proceed[main.next] = ProceedCap /\ proceed[main.next] > 0
  BY <1>1 DEF SomebodyReady, MainReady, ProceedCap
<1>3. thread[main.next] = "finish" /\ ~(Len(finished) < ReqMax)
  BY <1>1, <1>2 DEF SomebodyReady, ThreadReady
<1>4. Len(finished) \in Nat /\ Len(finished) <= ReqMax /\ ReqMax \in Nat
  BY ThreadNumbers DEF TypeOK
<1>5. Len(finished) = ReqMax
  BY <1>3, <1>4
<1> QED BY <1>2, <1>3, <1>5 DEF SendCycle

\* When it waits for room in the channel of the queries, a query waits for the
\* value that is in there.
LEMMA AnswerWaits ==
  ASSUME TypeOK, HandlersAnswered, main.pc = "kick", main.next >= main.target
  PROVE  SomebodyReady
<1>1. Len(parallel) \in Nat /\ (Len(parallel) >= 1 => parallel # <<>>)
  BY DEF TypeOK
<1>2. CASE Len(parallel) < ParallelCap
  BY <1>2 DEF SomebodyReady, MainReady
<1>3. CASE ~(Len(parallel) < ParallelCap)
  <2>1. parallel # <<>> /\ Cardinality(Receiving) # 0
    BY <1>1, <1>3 DEF ParallelCap, HandlersAnswered, InWork
  <2>2. PICK h \in Handler : handler[h].pc = "receive"
    BY <2>1, FS_EmptySet DEF Receiving
  <2> QED BY <2>1, <2>2 DEF SomebodyReady, HandlerReady
<1> QED BY <1>2, <1>3

\* The cycle of NoSendCycle is the only one: as long as the process runs, somebody
\* can go on, unless the requests are switched off and nobody asks for more.
THEOREM OnlyTheCycleBlocks == Spec => [](SomebodyReady \/ SendCycle \/ AtRest)
<1>1. TypeOK /\ NoLostPermit /\ HandlersAnswered => SomebodyReady \/ SendCycle \/ AtRest
  <2> SUFFICES ASSUME TypeOK, NoLostPermit, HandlersAnswered, ~SomebodyReady
               PROVE  SendCycle \/ AtRest
    OBVIOUS
  <2>1. CASE main.pc = "select"
    BY <2>1, SelectWaits
  <2>2. CASE main.pc = "permit" \/ (main.pc = "kick" /\ main.next < main.target)
    BY <2>2, PermitWaits
  <2>3. ~(main.pc = "kick" /\ main.next >= main.target)
    BY AnswerWaits
  <2>4. /\ main.pc \in {"select", "permit", "kick"}
        /\ main.next \in Int /\ main.target \in Int
    BY ThreadNumbers DEF TypeOK
  <2> QED BY <2>1, <2>2, <2>3, <2>4
<1> QED BY <1>1, ControlTypeCorrect, PermitsNeverLost, HandlersBalanced, PTL

\* And it is never left: nothing but the end of the process gets the main loop
\* and the thread apart, whoever else goes on.
THEOREM CycleIsForGood == Spec => [][SendCycle => SendCycle']_vars
<1>1. ASSUME TypeOK, [Next]_vars, SendCycle
      PROVE  SendCycle'
  <2> DEFINE n == main.next
  <2>1. /\ n \in Thread /\ proceed[n] = ProceedCap /\ thread[n] = "finish"
        /\ Len(finished) = ReqMax /\ main.pc # "select"
        /\ main.pc = "kick" => main.next < main.target
    BY <1>1, ThreadNumbers DEF SendCycle, TypeOK
  <2>2. /\ proceed \in [Thread -> 0 .. ProceedCap] /\ ProceedCap = 2 /\ ReqMax \in Nat
        /\ thread \in [Thread -> {"wait", "busy", "finish"}]
        /\ main.next \in Int /\ main.target \in Int
    BY <1>1, ThreadNumbers DEF TypeOK, ProceedCap
  <2>3. /\ ~ReceiveFinished /\ ~SendPermit /\ ~ReceiveValue /\ ~Kick /\ ~Return /\ ~Quit
        /\ \A i \in Thread : ~Finish(i)
    BY <2>1, <2>2 DEF ReceiveFinished, SendPermit, ReceiveValue, Kick, Return, Quit, Finish
  <2>4. ASSUME NEW i \in Thread, Start(i) \/ Complete(i) \/ Fail(i)
        PROVE  SendCycle'
    <3>1. i # n \/ UNCHANGED thread
      BY <2>1, <2>4 DEF Start, Complete, Fail
    <3>2. thread'[n] = "finish" /\ proceed'[n] = proceed[n] /\ UNCHANGED <<main, finished>>
      BY <2>1, <2>2, <2>4 DEF Start, Complete, Fail
    <3> QED BY <1>1, <2>1, <3>2 DEF SendCycle
  <2>5. CASE UNCHANGED <<main, proceed, thread, finished>>
    BY <1>1, <2>5 DEF SendCycle
  <2>6. ASSUME NEW h \in Handler, Ask(h) \/ SendValue(h) \/ ReceiveCount(h) \/ Store(h)
        PROVE  SendCycle'
    BY <2>5, <2>6 DEF Ask, SendValue, ReceiveCount, Store
  <2>7. CASE UNCHANGED vars
    BY <2>5, <2>7 DEF vars
  <2> QED BY <1>1, <2>3, <2>4, <2>6, <2>7, ControlCases
<1> QED BY <1>1, ControlTypeCorrect, PTL DEF Spec

=============================================================================
