-------------------------- MODULE BlockQueueProofs ---------------------------
(***************************************************************************)
(* Proofs about the ring of chap-26: its types, that no thread sleeps      *)
(* beside a waiting client, and, while fewer clients wait than the ring    *)
(* has elements, that it hands every descriptor to one thread in order.    *)
(***************************************************************************)
EXTENDS BlockQueue, FiniteSetTheorems, SequenceTheorems, TLAPS

-----------------------------------------------------------------------------
(* Types *)

\* The state main starts the threads in has the types of TypeOK.
LEMMA InitTypes == Init => TypeOK
BY QueueAssumption DEF Init, TypeOK

\* Each step of main, of a thread and of a client keeps the types.
LEMMA NextTypes == TypeOK /\ [Next]_vars => TypeOK'
<1> SUFFICES ASSUME TypeOK, [Next]_vars
             PROVE  TypeOK'
  OBVIOUS
<1> USE QueueAssumption DEF TypeOK, queueVars
<1>1. ASSUME NEW t \in Threads \cup {Main}, Lock(t)
      PROVE  TypeOK'
  BY <1>1 DEF Lock
<1>2. CASE Push
  <2>1. /\ ring' \in [0..Number - 1 -> Fds \cup {Nobody}]
        /\ rear' \in 0..Number - 1
        /\ mutex' = Nobody
        /\ client' \in [Threads \cup {Main} -> Fds \cup {Nobody}]
        /\ UNCHANGED <<front, accepted, popped, alive>>
    BY <1>2 DEF Push, Store, NextIndex
  <2>2. pc' \in [Threads \cup {Main} ->
                    {"accept", "lock", "push", "check", "condWait", "serve"}]
    BY <1>2 DEF Push, Signal
  <2> QED
    BY <2>1, <2>2
<1>3. ASSUME NEW f \in Fds, Accept(f)
      PROVE  TypeOK'
  BY <1>3 DEF Accept
<1>4. ASSUME NEW t \in Threads, WaitForClient(t) \/ SpuriousWakeup(t)
      PROVE  TypeOK'
  BY <1>4 DEF WaitForClient, SpuriousWakeup
<1>5. ASSUME NEW t \in Threads, Pop(t)
      PROVE  TypeOK'
  BY <1>5 DEF Pop, NextIndex
<1>6. ASSUME NEW t \in Threads, ClientLeaves(t) \/ EchoFails(t)
      PROVE  TypeOK'
  BY <1>6 DEF ClientLeaves, EchoFails
<1>7. CASE UNCHANGED vars
  BY <1>7 DEF vars
<1> QED
  BY <1>1, <1>2, <1>3, <1>4, <1>5, <1>6, <1>7 DEF Next, MainStep, ThreadStep

\* Every variable keeps its type: in particular front and rear wrap around at
\* the end of the array, and a thread never pops an element out of range.
THEOREM TypeCorrect == Spec => []TypeOK
BY InitTypes, NextTypes, PTL DEF Spec

-----------------------------------------------------------------------------
(* The ring *)

\* The elements of the ring have places of their own in the array; the first
\* is at front, and the one after the last is at rear.
LEMMA SlotFacts ==
    ASSUME TypeOK
    PROVE  /\ Size \in 0..Number - 1
           /\ \A k \in 1..Number : Slot(k) \in 0..Number - 1
           /\ \A j, k \in 1..Number : j # k => Slot(j) # Slot(k)
           /\ Slot(1) = front
           /\ Slot(Size + 1) = rear
           /\ Size = 0 <=> front = rear
BY QueueAssumption DEF TypeOK, Size, Slot

\* A push makes the queue longer by the element at its end, or empty when it
\* fills the last free element; what was there keeps its place.
LEMMA PushSlots ==
    ASSUME TypeOK, Push
    PROVE  /\ Size' = IF Size + 1 = Number THEN 0 ELSE Size + 1
           /\ \A k \in 1..Number : Slot(k)' = Slot(k)
           /\ ring'[rear] = client[Main]
           /\ \A i \in 0..Number - 1 : i # rear => ring'[i] = ring[i]
BY QueueAssumption DEF TypeOK, Size, Slot, Push, Store, NextIndex

\* A pop takes the first element; the others move up.
LEMMA PopSlots ==
    ASSUME TypeOK, NEW t \in Threads, Pop(t)
    PROVE  /\ Size > 0
           /\ Size' = Size - 1
           /\ \A k \in 1..Number - 1 : Slot(k)' = Slot(k + 1)
BY QueueAssumption DEF TypeOK, Size, Slot, Pop, NextIndex

-----------------------------------------------------------------------------
(* No thread sleeps beside work *)

\* A push adds one descriptor and, while somebody sleeps, one awake thread; a
\* pop takes one of each; a thread goes to sleep only on an empty ring.
LEMMA SleeperStep ==
    ASSUME IsFiniteSet(Threads), TypeOK, NoSleeperBesideWork, [Next]_vars
    PROVE  NoSleeperBesideWork'
<1>1. IsFiniteSet(Awake) /\ Cardinality(Awake) \in Nat
  BY FS_Subset, FS_CardinalityType DEF Awake
<1> USE QueueAssumption
<1>2. ASSUME UNCHANGED <<front, rear, pc>>
      PROVE  NoSleeperBesideWork'
  BY <1>2 DEF NoSleeperBesideWork, Size, Awake
<1>3. ASSUME UNCHANGED <<front, rear>>, Awake' = Awake,
             \A t \in Threads : pc'[t] = "condWait" => pc[t] = "condWait"
      PROVE  NoSleeperBesideWork'
  BY <1>3 DEF NoSleeperBesideWork, Size
<1>4. ASSUME NEW t \in Threads, t \notin Awake, Awake' = Awake \cup {t}
      PROVE  Cardinality(Awake)' = Cardinality(Awake) + 1
  BY <1>1, <1>4, FS_AddElement
<1>5. ASSUME NEW t \in Threads \cup {Main}, Lock(t)
      PROVE  NoSleeperBesideWork'
  BY <1>3, <1>5 DEF Lock, TypeOK, Awake, queueVars
<1>6. CASE Push
  <2>1. Size' <= Size + 1
    BY <1>6, PushSlots, SlotFacts
  <2>2. CASE \A t \in Threads : pc[t] # "condWait"
    BY <1>6, <2>2 DEF Push, Signal, NoSleeperBesideWork, TypeOK
  <2>3. ASSUME NEW t \in Threads, pc[t] = "condWait",
               pc' = [pc EXCEPT ![Main] = "accept", ![t] = "lock"]
        PROVE  NoSleeperBesideWork'
    <3>1. Awake' = Awake \cup {t} /\ t \notin Awake
      BY <2>3 DEF Awake, TypeOK
    <3>2. Size <= Cardinality(Awake)
      BY <2>3 DEF NoSleeperBesideWork
    <3> QED
      BY <1>1, <1>4, <2>1, <3>1, <3>2, SlotFacts, PushSlots, <1>6
      DEF NoSleeperBesideWork
  <2> QED
    BY <1>6, <2>2, <2>3 DEF Push, Signal
<1>7. ASSUME NEW f \in Fds, Accept(f)
      PROVE  NoSleeperBesideWork'
  BY <1>3, <1>7 DEF Accept, TypeOK, Awake, queueVars
<1>8. ASSUME NEW t \in Threads, WaitForClient(t)
      PROVE  NoSleeperBesideWork'
  <2>1. Size' = 0
    BY <1>8 DEF WaitForClient, Size, TypeOK, queueVars
  <2>2. Cardinality(Awake') \in Nat
    BY FS_Subset, FS_CardinalityType DEF Awake
  <2> QED
    BY <2>1, <2>2 DEF NoSleeperBesideWork
<1>9. ASSUME NEW t \in Threads, Pop(t)
      PROVE  NoSleeperBesideWork'
  <2>1. t \in Awake /\ Awake' = Awake \ {t}
    BY <1>9 DEF Pop, Awake, TypeOK
  <2>2. Cardinality(Awake)' = Cardinality(Awake) - 1
    BY <1>1, <2>1, FS_RemoveElement
  <2>3. \A u \in Threads : pc'[u] = "condWait" => pc[u] = "condWait"
    BY <1>9 DEF Pop, TypeOK
  <2> QED
    BY <1>1, <1>9, <2>2, <2>3, PopSlots, SlotFacts DEF NoSleeperBesideWork
<1>10. ASSUME NEW t \in Threads, SpuriousWakeup(t) \/ ClientLeaves(t)
       PROVE  NoSleeperBesideWork'
  <2>1. /\ t \notin Awake
        /\ Awake' = Awake \cup {t}
        /\ UNCHANGED <<front, rear>>
        /\ \A u \in Threads : pc'[u] = "condWait" => pc[u] = "condWait"
    BY <1>10 DEF SpuriousWakeup, ClientLeaves, Awake, TypeOK, queueVars
  <2>2. Size' = Size /\ Size \in Nat
    BY <2>1, SlotFacts DEF Size
  <2> QED
    BY <1>1, <1>4, <2>1, <2>2 DEF NoSleeperBesideWork
<1>11. ASSUME NEW t \in Threads, EchoFails(t)
       PROVE  NoSleeperBesideWork'
  BY <1>2, <1>11 DEF EchoFails, queueVars
<1>12. CASE UNCHANGED vars
  BY <1>2, <1>12 DEF vars, queueVars
<1> QED
  BY <1>5, <1>6, <1>7, <1>8, <1>9, <1>10, <1>11, <1>12
  DEF Next, MainStep, ThreadStep

\* For any number of threads and any size of the ring, even when it overflows,
\* one signal per push is enough: while a thread waits on the condition,
\* a thread is on its way to the queue for every descriptor in it.
THEOREM NoSleeperCorrect ==
    ASSUME IsFiniteSet(Threads)
    PROVE  Spec => []NoSleeperBesideWork
<1>1. Init => NoSleeperBesideWork
  BY DEF Init, NoSleeperBesideWork, TypeOK
<1> QED
  BY <1>1, InitTypes, NextTypes, SleeperStep, PTL DEF Spec

-----------------------------------------------------------------------------
(* The ring hands over every descriptor, in order *)

\* Main has a descriptor in its hands exactly between accept and push.
MainInv == /\ pc[Main] \in {"accept", "lock", "push"}
           /\ pc[Main] = "accept" <=> client[Main] = Nobody

\* What was accepted and not yet popped is in the ring or in main's hands,
\* once.
ContentInv ==
    /\ popped \subseteq accepted
    /\ NoDescriptorLost
    /\ \A k \in 1..Size : ring[Slot(k)] \in Fds \ (popped \cup {client[Main]})
    /\ \A j, k \in 1..Size : j # k => ring[Slot(j)] # ring[Slot(k)]
    /\ client[Main] \notin popped

\* So the ring never gets more than MaxBacklog elements.
InHand == IF client[Main] = Nobody THEN 0 ELSE 1
CountInv == /\ IsFiniteSet(accepted \ popped)
            /\ Cardinality(accepted \ popped) = Size + InHand
            /\ Size + InHand <= MaxBacklog

IInv == TypeOK /\ MainInv /\ ContentInv /\ CountInv

\* Nothing is accepted, waiting or popped when main starts the threads.
LEMMA InitIInv == Init => IInv
<1> SUFFICES ASSUME Init PROVE IInv
  OBVIOUS
<1> USE QueueAssumption
<1>1. Size = 0
  BY DEF Init, Size
<1>2. MainInv
  BY DEF Init, MainInv
<1>3. ContentInv
  BY <1>1 DEF Init, ContentInv, NoDescriptorLost
<1>4. CountInv
  BY <1>1, FS_EmptySet DEF Init, CountInv, InHand
<1> QED
  BY <1>2, <1>3, <1>4, InitTypes DEF IInv

\* Steps that touch neither the ring nor main's descriptor.
LEMMA FrameStep ==
    ASSUME IInv, TypeOK', UNCHANGED <<queueVars, accepted, popped>>,
           client'[Main] = client[Main],
           pc'[Main] = pc[Main] \/ (pc[Main] = "lock" /\ pc'[Main] = "push")
    PROVE  IInv'
BY QueueAssumption
DEF IInv, MainInv, ContentInv, CountInv, NoDescriptorLost, InHand, Size, Slot,
    Waiting, queueVars

\* While fewer than Number clients wait, Waiting is a sequence of descriptors,
\* as long as the ring takes itself to be.
LEMMA WaitingFacts ==
    ASSUME IInv
    PROVE  /\ Waiting \in Seq(Fds)
           /\ Len(Waiting) = Size
           /\ \A k \in 1..Size : Waiting[k] = ring[Slot(k)]
<1>1. Size \in Nat /\ \A k \in 1..Size : ring[Slot(k)] \in Fds
  BY SlotFacts, QueueAssumption DEF IInv, ContentInv
<1>2. \A k \in 1..Size : Waiting[k] = ring[Slot(k)]
  BY <1>1 DEF Waiting
<1>3. Waiting \in [1..Size -> Fds]
  BY <1>1 DEF Waiting
<1>4. Waiting \in Seq(Fds) /\ Len(Waiting) = Size
  BY <1>1, <1>3, LenProperties
<1> QED
  BY <1>2, <1>4

\* accept makes the backlog one longer and puts the descriptor in main's hands.
LEMMA AcceptStep ==
    ASSUME IInv, TypeOK', NEW f \in Fds, Accept(f)
    PROVE  IInv'
<1> USE QueueAssumption DEF IInv
<1>1. /\ f \notin accepted
      /\ client[Main] = Nobody /\ client'[Main] = f
      /\ accepted' = accepted \cup {f}
      /\ UNCHANGED <<popped, ring, front, rear>>
      /\ pc[Main] = "accept" /\ pc'[Main] = "lock"
  BY DEF Accept, MainInv, TypeOK, queueVars
<1>2. Size' = Size /\ \A k \in 1..Number : Slot(k)' = Slot(k)
  BY <1>1 DEF Size, Slot
<1>3. MainInv'
  BY <1>1 DEF MainInv
<1>4. ContentInv'
  <2>1. \A k \in 1..Size : Waiting[k] = ring[Slot(k)] /\ Waiting'[k] = Waiting[k]
    BY <1>1, <1>2, SlotFacts DEF Waiting
  <2>2. \A k \in 1..Size : ring[Slot(k)] \in accepted
    BY <2>1 DEF ContentInv, NoDescriptorLost
  <2>3. NoDescriptorLost'
    BY <1>1, <1>2, <2>1 DEF ContentInv, NoDescriptorLost
  <2>4. \A k \in 1..Size : Slot(k)' = Slot(k)
    BY <1>2, SlotFacts
  <2> QED
    BY <1>1, <1>2, <2>2, <2>3, <2>4 DEF ContentInv
<1>5. CountInv'
  <2>1. accepted' \ popped' = (accepted \ popped) \cup {f}
    BY <1>1 DEF ContentInv
  <2>2. /\ IsFiniteSet(accepted' \ popped')
        /\ Cardinality(accepted' \ popped') = Cardinality(accepted \ popped) + 1
    BY <1>1, <2>1, FS_AddElement DEF CountInv
  <2>3. Cardinality(accepted \ popped) < MaxBacklog
    BY DEF Accept
  <2> QED
    BY <1>1, <1>2, <2>2, <2>3, SlotFacts DEF CountInv, InHand
<1> QED
  BY <1>3, <1>4, <1>5

\* block_queue_push moves the descriptor from main's hands to the end of
\* Waiting: with the backlog below Number, rear does not run into front.
LEMMA PushStep ==
    ASSUME MaxBacklog < Number, IInv, TypeOK', Push
    PROVE  /\ IInv'
           /\ Size' = Size + 1
           /\ Waiting' = Append(Waiting, client[Main])
           /\ client[Main] \in Fds
<1> USE QueueAssumption DEF IInv
<1>1. /\ client[Main] # Nobody /\ client[Main] \in Fds
      /\ client'[Main] = Nobody
      /\ UNCHANGED <<accepted, popped, front>>
      /\ pc'[Main] = "accept"
  BY DEF Push, Store, Signal, MainInv, TypeOK
<1>2. Size \in Nat /\ Size' = Size + 1 /\ Size + 1 \in 1..Number - 1
  BY <1>1, PushSlots, SlotFacts DEF CountInv, InHand
<1>3. \A k \in 1..Size + 1 :
          /\ Slot(k)' = Slot(k)
          /\ ring'[Slot(k)] = IF k = Size + 1 THEN client[Main] ELSE ring[Slot(k)]
  <2>1. /\ \A k \in 1..Size : Slot(k) # rear /\ Slot(k) \in 0..Number - 1
        /\ Slot(Size + 1) = rear
    BY <1>2, SlotFacts
  <2>2. \A k \in 1..Size + 1 : k \in 1..Number /\ (k = Size + 1 \/ k \in 1..Size)
    BY <1>2
  <2> QED
    BY <2>1, <2>2, PushSlots
<1>4. \A k \in 1..Size + 1 :
          ring'[Slot(k)'] = IF k = Size + 1 THEN client[Main] ELSE Waiting[k]
  <2>1. \A k \in 1..Size + 1 : k = Size + 1 \/ k \in 1..Size
    BY <1>2
  <2> QED
    BY <1>3, <2>1, WaitingFacts
<1>5. Waiting' = Append(Waiting, client[Main])
  <2>1. Waiting \in Seq(Fds) /\ Len(Waiting) = Size
    BY <1>2, WaitingFacts
  <2>2. Waiting' = [k \in 1..Size + 1 |-> ring'[Slot(k)']]
    BY <1>2 DEF Waiting
  <2>3. Append(Waiting, client[Main]) =
            [k \in 1..Size + 1 |-> IF k = Size + 1 THEN client[Main] ELSE Waiting[k]]
    BY <1>2, <2>1
  <2> QED
    BY <1>4, <2>2, <2>3
<1>6. MainInv'
  BY <1>1 DEF MainInv
<1>7. ContentInv'
  <2> DEFINE Now(k) == IF k = Size + 1 THEN client[Main] ELSE ring[Slot(k)]
  <2>1. \A k \in 1..Size' : ring'[Slot(k)'] = Now(k) /\ (k = Size + 1 \/ k \in 1..Size)
    BY <1>2, <1>3
  <2>5. NoDescriptorLost'
    <3>1. \A k \in 1..Size' : Waiting'[k] = Now(k)
      BY <2>1 DEF Waiting
    <3>2. {Waiting'[k] : k \in 1..Size'} =
              {Waiting[k] : k \in 1..Size} \cup {client[Main]}
      <4>1. \A k \in 1..Size : Waiting[k] = Now(k) /\ k \in 1..Size'
        BY <1>2, WaitingFacts
      <4>2. Size + 1 \in 1..Size' /\ Now(Size + 1) = client[Main]
        BY <1>2
      <4> QED
        BY <2>1, <3>1, <4>1, <4>2
    <3> QED
      BY <1>1, <3>2 DEF ContentInv, NoDescriptorLost
  <2>2. \A k \in 1..Size' : ring'[Slot(k)'] \in Fds \ (popped \cup {Nobody})
    BY <1>1, <2>1 DEF ContentInv, TypeOK
  <2>3. \A j, k \in 1..Size' : j # k => ring'[Slot(j)'] # ring'[Slot(k)']
    BY <2>1 DEF ContentInv
  <2>4. Nobody \notin popped
    BY DEF ContentInv, TypeOK
  <2> QED
    BY <1>1, <2>2, <2>3, <2>4, <2>5 DEF ContentInv
<1>8. CountInv'
  BY <1>1, <1>2 DEF CountInv, InHand
<1> QED
  BY <1>1, <1>2, <1>5, <1>6, <1>7, <1>8

\* block_queue_pop moves the first of Waiting into the thread's hands.
LEMMA PopStep ==
    ASSUME IInv, TypeOK', NEW t \in Threads, Pop(t)
    PROVE  /\ IInv'
           /\ Waiting # <<>>
           /\ popped' = popped \cup {Head(Waiting)}
           /\ Waiting' = Tail(Waiting)
<1> USE QueueAssumption DEF IInv
<1> DEFINE f == ring[front]
<1>1. /\ UNCHANGED <<ring, accepted>>
      /\ client'[Main] = client[Main] /\ pc'[Main] = pc[Main]
  BY DEF Pop, TypeOK
<1>2. /\ Size \in Nat \ {0} /\ Size < Number /\ Size' = Size - 1
      /\ \A k \in 1..Size' : Slot(k)' = Slot(k + 1)
      /\ Slot(1) = front
  BY PopSlots, SlotFacts
<1>3. f \in Fds \ (popped \cup {client[Main]}) /\ popped' = popped \cup {f}
  BY <1>2 DEF Pop, ContentInv
<1>4. Waiting \in Seq(Fds) /\ Len(Waiting) = Size
  BY WaitingFacts
<1>5. Waiting # <<>> /\ Head(Waiting) = f
  BY <1>2, <1>4 DEF Waiting
<1>6. Waiting' = Tail(Waiting)
  <2>1. /\ Tail(Waiting) \in Seq(Fds)
        /\ Len(Tail(Waiting)) = Size - 1
        /\ \A k \in 1..Size - 1 : Tail(Waiting)[k] = Waiting[k + 1]
    BY <1>4, <1>5, HeadTailProperties
  <2>2. Tail(Waiting) = [k \in 1..Size - 1 |-> Tail(Waiting)[k]]
    BY <2>1, LenProperties
  <2>3. Waiting' = [k \in 1..Size - 1 |-> ring[Slot(k + 1)]]
    BY <1>1, <1>2 DEF Waiting
  <2>4. \A k \in 1..Size - 1 : ring[Slot(k + 1)] = Waiting[k + 1]
    BY <1>2, WaitingFacts
  <2> QED
    BY <2>1, <2>2, <2>3, <2>4
<1>7. MainInv'
  BY <1>1 DEF MainInv
<1>8. ContentInv'
  <2>1. \A k \in 1..Size' : ring'[Slot(k)'] = ring[Slot(k + 1)] /\ k + 1 \in 2..Size
    BY <1>1, <1>2
  <2>2. f \in accepted
    BY <1>2, <1>3 DEF ContentInv, NoDescriptorLost, Waiting
  <2>3. {Waiting[k] : k \in 1..Size} = {f} \cup {Waiting'[k] : k \in 1..Size'}
    <3>1. \A k \in 1..Size' : Waiting'[k] = Waiting[k + 1]
      BY <1>1, <1>2 DEF Waiting
    <3>2. Waiting[1] = f
      BY <1>2 DEF Waiting
    <3>3. \A k \in 1..Size : k = 1 \/ (k - 1 \in 1..Size' /\ Waiting'[k - 1] = Waiting[k])
      BY <1>2, <3>1
    <3> QED
      BY <1>2, <3>1, <3>2, <3>3
  <2>4. NoDescriptorLost'
    BY <1>1, <1>3, <2>3 DEF ContentInv, NoDescriptorLost
  <2>5. \A k \in 1..Size' : ring'[Slot(k)'] # f
    BY <1>2, <2>1 DEF ContentInv
  <2> QED
    BY <1>1, <1>2, <1>3, <2>1, <2>2, <2>4, <2>5 DEF ContentInv
<1>9. CountInv'
  <2>1. accepted' \ popped' = (accepted \ popped) \ {f} /\ f \in accepted \ popped
    BY <1>1, <1>2, <1>3 DEF ContentInv, NoDescriptorLost, Waiting
  <2>2. /\ IsFiniteSet(accepted' \ popped')
        /\ Cardinality(accepted' \ popped') = Cardinality(accepted \ popped) - 1
    BY <2>1, FS_RemoveElement DEF CountInv
  <2> QED
    BY <1>1, <1>2, <2>2 DEF CountInv, InHand
<1> QED
  BY <1>3, <1>5, <1>6, <1>7, <1>8, <1>9

\* Every step preserves the inductive invariant.
LEMMA StepIInv ==
    ASSUME MaxBacklog < Number, IInv, [Next]_vars
    PROVE  IInv'
<1> USE QueueAssumption
<1>1. TypeOK'
  BY NextTypes DEF IInv
<1>2. ASSUME NEW f \in Fds, Accept(f)
      PROVE  IInv'
  BY <1>1, <1>2, AcceptStep
<1>3. CASE Push
  BY <1>1, <1>3, PushStep
<1>4. ASSUME NEW t \in Threads, Pop(t)
      PROVE  IInv'
  BY <1>1, <1>4, PopStep
<1>5. ASSUME NEW t \in Threads \cup {Main}, Lock(t)
      PROVE  IInv'
  BY <1>1, <1>5, FrameStep DEF queueVars, Lock, IInv, TypeOK
<1>6. ASSUME NEW t \in Threads,
             \/ WaitForClient(t) \/ SpuriousWakeup(t)
             \/ ClientLeaves(t) \/ EchoFails(t)
      PROVE  IInv'
  BY <1>1, <1>6, FrameStep
  DEF queueVars, WaitForClient, SpuriousWakeup, ClientLeaves, EchoFails, IInv, TypeOK
<1>7. CASE UNCHANGED vars
  BY <1>1, <1>7, FrameStep DEF vars, queueVars
<1> QED
  BY <1>2, <1>3, <1>4, <1>5, <1>6, <1>7 DEF Next, MainStep, ThreadStep

\* While fewer clients wait than the ring has elements, no accepted descriptor
\* is lost: it is in main's hands, in the ring or with a thread.
THEOREM NoDescriptorLostCorrect ==
    ASSUME MaxBacklog < Number
    PROVE  Spec => []NoDescriptorLost
<1>1. IInv => NoDescriptorLost
  BY DEF IInv, ContentInv
<1> QED
  BY <1>1, InitIInv, StepIInv, PTL DEF Spec

\* Every step is one of the promise, or leaves its variables alone: Push is its
\* Put, Pop its Take.
LEMMA HandOffStep ==
    ASSUME MaxBacklog < Number, IInv, [Next]_vars
    PROVE  [Fifo!Next]_Fifo!vars
<1> USE QueueAssumption
<1>1. TypeOK'
  BY NextTypes DEF IInv
<1>2. ASSUME UNCHANGED <<queueVars, popped>>
      PROVE  UNCHANGED Fifo!vars
  BY <1>2 DEF Fifo!vars, Waiting, Size, Slot, queueVars
<1>3. CASE Push
  <2>1. \A k \in 1..Len(Waiting) : Waiting[k] # client[Main]
    BY SlotFacts DEF IInv, ContentInv, Waiting
  <2>2. client[Main] \notin popped
    BY DEF IInv, ContentInv
  <2> QED
    BY <1>1, <1>3, <2>1, <2>2, PushStep
    DEF Fifo!Next, Fifo!Put, Push, Store
<1>4. ASSUME NEW t \in Threads, Pop(t)
      PROVE  Fifo!Next
  BY <1>1, <1>4, PopStep DEF Fifo!Next, Fifo!Take
<1>5. ASSUME NEW t \in Threads \cup {Main}, Lock(t)
      PROVE  UNCHANGED Fifo!vars
  BY <1>2, <1>5 DEF Lock
<1>6. ASSUME NEW t \in Threads,
             \/ WaitForClient(t) \/ SpuriousWakeup(t)
             \/ ClientLeaves(t) \/ EchoFails(t)
      PROVE  UNCHANGED Fifo!vars
  BY <1>2, <1>6 DEF WaitForClient, SpuriousWakeup, ClientLeaves, EchoFails
<1>7. ASSUME NEW f \in Fds, Accept(f)
      PROVE  UNCHANGED Fifo!vars
  BY <1>2, <1>7 DEF Accept
<1>8. CASE UNCHANGED vars
  BY <1>2, <1>8 DEF vars
<1> QED
  BY <1>3, <1>4, <1>5, <1>6, <1>7, <1>8 DEF Next, MainStep, ThreadStep

\* While fewer clients wait than the ring has elements, it is a queue: each
\* descriptor is handed to one thread, once, in the order of arrival, whatever
\* the number of threads and however they are woken.
THEOREM HandOffImplemented ==
    ASSUME MaxBacklog < Number
    PROVE  Spec => ImplementsHandOff
<1>1. Init => Fifo!Init
  BY QueueAssumption DEF Init, Fifo!Init, Waiting, Size
<1> QED
  BY <1>1, InitIInv, StepIInv, HandOffStep, PTL
  DEF Spec, ImplementsHandOff, Fifo!Spec
=============================================================================
