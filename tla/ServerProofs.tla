---------------------------- MODULE ServerProofs ----------------------------
(***************************************************************************)
(* Proofs about the threads of the server process: the order they take its *)
(* mutexes in (ServerLocks) and the presence pushes they deliver           *)
(* (PresencePush), for any number of threads and connections.              *)
(*                                                                         *)
(* The mutexes are ranked by their kind, and the ranks of the scopes of a  *)
(* stack increase: whoever waits for a mutex waits for one of a higher     *)
(* rank than any it holds, behind a chain no longer than there are ranks.  *)
(* Of the pushes, DeliveryInv says that whoever has not been told has a    *)
(* thread that will.  That no operation is stuck for ever and that every   *)
(* update arrives (their liveness) is left to TLC.                         *)
(***************************************************************************)
EXTENDS ServerLocks, PresencePush, SequenceTheorems, FiniteSetTheorems, TLAPS

Rank(name) ==
    IF name \in Operations THEN 0
    ELSE IF name \in {"connect", "disconnect", "endpoints", "retire", "deliver", "publish"} THEN 1
    ELSE IF name \in {"service", "restore", "reply", "push"} THEN 2
    ELSE 3

\* The scopes of a stack are of increasing ranks, and only the last one may be a scope
\* that nothing is inside of.
Ordered ==
    \A t \in Threads : \A i, j \in DOMAIN stack[t] :
        i < j => /\ Rank(stack[t][i].name) < Rank(stack[t][j].name)
                 /\ Inner(stack[t][i].name) # <<>>

IInv == TypeOK /\ Ordered

-----------------------------------------------------------------------------
(* Scopes and their ranks *)

LEMMA RankType == \A name \in Names : Rank(name) \in 0 .. 3
  BY DEF Rank

LEMMA StepsInner ==
  ASSUME NEW name \in Operations, NEW i \in 1 .. Len(Steps(name))
  PROVE  Steps(name)[i] \in Names \ Operations
<1>1. CASE name = "request"
  BY <1>1 DEF Steps, Request, Names, Operations
<1>2. CASE name = "hello"
  BY <1>2 DEF Steps, Hello, Names, Operations
<1>3. CASE name = "ending"
  BY <1>3 DEF Steps, Ending, Names, Operations
<1>4. CASE name = "worker"
  BY <1>4 DEF Steps, Worker, Names, Operations
<1>5. CASE name = "publisher"
  BY <1>5 DEF Steps, Publisher, Names, Operations
<1>6. CASE name = "login"
  BY <1>6 DEF Steps, Login, Names, Operations
<1>7. CASE name = "panel"
  BY <1>7 DEF Steps, Panel, Names, Operations
<1>8. CASE name = "hosted"
  BY <1>8 DEF Steps, Hosted, Names, Operations
<1>9. CASE name = "maintenance"
  BY <1>9 DEF Steps, Maintenance, Names, Operations
<1> QED
  BY <1>1, <1>2, <1>3, <1>4, <1>5, <1>6, <1>7, <1>8, <1>9 DEF Operations

LEMMA NestedInner ==
  ASSUME NEW name \in Names \ Operations, NEW i \in 1 .. Len(Nested(name))
  PROVE  /\ Nested(name)[i] \in Names \ Operations
         /\ Rank(name) < Rank(Nested(name)[i])
<1>1. CASE name = "connect"
  BY <1>1 DEF Nested, InConnect, Names, Operations, Rank
<1>2. CASE name = "disconnect"
  BY <1>2 DEF Nested, InDisconnect, Names, Operations, Rank
<1>3. CASE name = "service"
  BY <1>3 DEF Nested, InService, Names, Operations, Rank
<1>4. CASE name = "deliver"
  BY <1>4 DEF Nested, InDeliver, Names, Operations, Rank
<1>5. CASE name = "publish"
  BY <1>5 DEF Nested, InPublish, Names, Operations, Rank
<1>6. CASE name \notin {"connect", "disconnect", "service", "deliver", "publish"}
  BY <1>6 DEF Nested, InPlatform
<1> QED
  BY <1>1, <1>2, <1>3, <1>4, <1>5, <1>6

\* What is reached inside a scope is a scope of a higher rank.
LEMMA InnerRank ==
  ASSUME NEW name \in Names, NEW i \in 1 .. Len(Inner(name))
  PROVE  /\ Inner(name)[i] \in Names \ Operations
         /\ Rank(name) < Rank(Inner(name)[i])
<1>1. CASE name \in Operations
  <2>1. Inner(name) = Steps(name)
    BY <1>1 DEF Inner
  <2>2. Inner(name)[i] \in Names \ Operations
    BY <1>1, <2>1, StepsInner
  <2> QED
    BY <1>1, <2>2 DEF Rank
<1>2. CASE name \notin Operations
  <2>1. Inner(name) = Nested(name)
    BY <1>2 DEF Inner
  <2> QED
    BY <1>2, <2>1, NestedInner
<1> QED
  BY <1>1, <1>2

\* A kind of mutex has one rank.
LEMMA KindRank ==
  ASSUME NEW a \in Names \ Operations, NEW b \in Names \ Operations, Kind(a) = Kind(b)
  PROVE  Rank(a) = Rank(b)
<1>1. \A name \in Names \ Operations :
          Rank(name) = IF Kind(name) \in {"endpointMutex", "endpoint"} THEN 1
                       ELSE IF Kind(name) \in {"storeMutex", "sendMutex"} THEN 2
                       ELSE 3
  BY DEF Rank, Kind, Names, Operations
<1> QED
  BY <1>1

-----------------------------------------------------------------------------
(* The inductive invariant *)

LEMMA InitIInv == Init => IInv
<1> SUFFICES ASSUME Init PROVE IInv
  OBVIOUS
<1>1. <<>> \in Seq(Frames)
  OBVIOUS
<1>2. TypeOK
  BY <1>1 DEF Init, TypeOK
<1>3. Ordered
  BY DEF Init, Ordered
<1> QED
  BY <1>2, <1>3 DEF IInv

\* A thread's stack is a sequence of frames whose last one is Top.
LEMMA TopType ==
  ASSUME TypeOK, NEW t \in Threads, stack[t] # <<>>
  PROVE  /\ stack[t] \in Seq(Frames)
         /\ Len(stack[t]) \in Nat \ {0}
         /\ DOMAIN stack[t] = 1 .. Len(stack[t])
         /\ Top(t) \in Frames
         /\ Top(t) = stack[t][Len(stack[t])]
<1>1. stack[t] \in Seq(Frames)
  BY DEF TypeOK
<1>2. Len(stack[t]) \in Nat /\ DOMAIN stack[t] = 1 .. Len(stack[t])
  BY <1>1
<1>3. Len(stack[t]) # 0
  BY <1>1, EmptySeq
<1>4. stack[t][Len(stack[t])] \in Frames
  BY <1>1, <1>2, <1>3
<1> QED
  BY <1>1, <1>2, <1>3, <1>4 DEF Top

\* The scope a thread waits to enter is of a higher rank than every scope it is in.
LEMMA WantedRank ==
  ASSUME IInv, NEW t \in waiting
  PROVE  /\ t \in Threads /\ stack[t] # <<>>
         /\ Wanted(t) \in Frames
         /\ Wanted(t).name \in Names \ Operations
         /\ Wanted(t).next = 1
         /\ Inner(Top(t).name) # <<>>
         /\ \A i \in DOMAIN stack[t] : Rank(stack[t][i].name) < Rank(Wanted(t).name)
<1>1. t \in Threads /\ stack[t] # <<>> /\ Top(t).next \in 1 .. Len(Inner(Top(t).name))
  BY DEF IInv, TypeOK
<1>2. Top(t) \in Frames
  BY <1>1, TopType DEF IInv
<1> DEFINE name == Inner(Top(t).name)[Top(t).next]
<1>3. Top(t).name \in Names
  BY <1>2 DEF Frames
<1>4. name \in Names \ Operations /\ Rank(Top(t).name) < Rank(name)
  BY <1>1, <1>3, InnerRank
<1>5. /\ Wanted(t) = [name |-> name, own |-> Top(t).own, target |-> Top(t).target, next |-> 1]
  BY DEF Wanted, Scope
<1>6. Wanted(t) \in Frames /\ Wanted(t).name = name /\ Wanted(t).next = 1
  BY <1>2, <1>4, <1>5 DEF Frames
<1>7. Inner(Top(t).name) # <<>>
  BY <1>1
<1>8. ASSUME NEW i \in DOMAIN stack[t]
      PROVE  Rank(stack[t][i].name) < Rank(Wanted(t).name)
  <2>1. i \in 1 .. Len(stack[t]) /\ Len(stack[t]) \in Nat
    BY <1>1, <1>8, TopType DEF IInv
  <2>2. stack[t][i] \in Frames
    BY <1>1, <2>1, TopType DEF IInv
  <2>3. stack[t][i].name \in Names
    BY <2>2 DEF Frames
  <2>4. i < Len(stack[t]) => Rank(stack[t][i].name) < Rank(Top(t).name)
    BY <1>1, <2>1, TopType DEF IInv, Ordered
  <2>5. i = Len(stack[t]) => stack[t][i] = Top(t)
    BY DEF Top
  <2>6. Rank(stack[t][i].name) \in Int /\ Rank(Top(t).name) \in Int /\ Rank(name) \in Int
    BY <1>3, <1>4, <2>3, RankType
  <2> QED
    BY <1>4, <1>6, <2>1, <2>4, <2>5, <2>6
<1> QED
  BY <1>1, <1>4, <1>6, <1>7, <1>8

\* The next scope of the innermost frame is all that changes in a stack.
LEMMA Renumbered ==
  ASSUME NEW s \in Seq(Frames), s # <<>>, NEW n \in Nat \ {0}
  PROVE  LET r == [s EXCEPT ![Len(s)].next = n] IN
         /\ r \in Seq(Frames)
         /\ r # <<>>
         /\ Len(r) = Len(s) /\ DOMAIN r = DOMAIN s
         /\ \A i \in DOMAIN s : r[i].name = s[i].name
         /\ r[Len(r)].next = n
<1> DEFINE r == [s EXCEPT ![Len(s)].next = n]
<1>1. Len(s) \in Nat \ {0} /\ DOMAIN s = 1 .. Len(s)
  BY EmptySeq
<1>2. s[Len(s)] \in Frames
  BY <1>1
<1>3. [s[Len(s)] EXCEPT !.next = n] \in Frames
  BY <1>2 DEF Frames
<1>4. r = [s EXCEPT ![Len(s)] = [s[Len(s)] EXCEPT !.next = n]]
  OBVIOUS
<1>5. r \in Seq(Frames) /\ Len(r) = Len(s)
  BY <1>1, <1>3, <1>4, ExceptSeq
<1>6. DOMAIN r = DOMAIN s
  BY <1>4
<1>7. ASSUME NEW i \in DOMAIN s PROVE r[i].name = s[i].name
  <2>1. CASE i = Len(s)
    <3>1. r[i] = [s[Len(s)] EXCEPT !.next = n]
      BY <1>1, <1>4, <2>1
    <3> QED
      BY <1>2, <2>1, <3>1 DEF Frames
  <2>2. CASE i # Len(s)
    BY <1>4, <2>2
  <2> QED
    BY <2>1, <2>2
<1>8. r[Len(s)] = [s[Len(s)] EXCEPT !.next = n]
  BY <1>1, <1>4
<1>9. r[Len(r)].next = n
  BY <1>2, <1>5, <1>8 DEF Frames
<1> QED
  BY <1>1, <1>5, <1>6, <1>7, <1>9, EmptySeq

\* What is needed of a step that gives a thread the stack s and leaves the others alone.
LEMMA StackIInv ==
  ASSUME IInv, NEW t \in Threads, NEW s \in Seq(Frames),
         stack' = [stack EXCEPT ![t] = s],
         waiting' \ {t} = waiting \ {t}, waiting' \subseteq Threads,
         t \in waiting' => s # <<>> /\ s[Len(s)].next \in 1 .. Len(Inner(s[Len(s)].name)),
         \A i, j \in DOMAIN s :
             i < j => Rank(s[i].name) < Rank(s[j].name) /\ Inner(s[i].name) # <<>>
  PROVE  IInv'
<1>1. stack' \in [Threads -> Seq(Frames)] /\ stack'[t] = s
  BY DEF IInv, TypeOK
<1>2. ASSUME NEW u \in waiting'
      PROVE  stack'[u] # <<>> /\ Top(u)'.next \in 1 .. Len(Inner(Top(u)'.name))
  <2>1. CASE u = t
    BY <1>1, <1>2, <2>1 DEF Top
  <2>2. CASE u # t
    <3>1. u \in waiting /\ u \in Threads /\ stack'[u] = stack[u]
      BY <1>2, <2>2 DEF IInv, TypeOK
    <3> QED
      BY <3>1 DEF IInv, TypeOK, Top
  <2> QED
    BY <2>1, <2>2
<1>3. TypeOK'
  BY <1>1, <1>2 DEF TypeOK
<1>4. ASSUME NEW u \in Threads, NEW i \in DOMAIN stack'[u], NEW j \in DOMAIN stack'[u], i < j
      PROVE  /\ Rank(stack'[u][i].name) < Rank(stack'[u][j].name)
             /\ Inner(stack'[u][i].name) # <<>>
  <2>1. CASE u = t
    BY <1>1, <1>4, <2>1
  <2>2. CASE u # t
    <3>1. stack'[u] = stack[u]
      BY <2>2 DEF IInv, TypeOK
    <3> QED
      BY <1>4, <3>1 DEF IInv, Ordered
  <2> QED
    BY <2>1, <2>2
<1>5. Ordered'
  BY <1>4 DEF Ordered
<1> QED
  BY <1>3, <1>5 DEF IInv

LEMMA BeginIInv ==
  ASSUME IInv, NEW t \in Threads, NEW name \in Operations,
         NEW own \in Clients \cup {NoClient}, NEW target \in Clients \cup {NoClient},
         Begin(t, name, own, target)
  PROVE  IInv'
<1> DEFINE f == [name |-> name, own |-> own, target |-> target, next |-> 1]
           s == <<f>>
<1>1. stack' = [stack EXCEPT ![t] = s] /\ waiting' = waiting /\ stack[t] = <<>>
  BY DEF Begin
<1>2. f \in Frames
  BY DEF Frames, Names
<1>3. s \in Seq(Frames) /\ DOMAIN s = {1}
  <2> HIDE DEF f
  <2> QED
    BY <1>2
<1>4. t \notin waiting' /\ waiting' \subseteq Threads
  BY <1>1 DEF IInv, TypeOK
<1>5. \A i, j \in DOMAIN s : ~(i < j)
  BY <1>3
<1> HIDE DEF s
<1> QED
  BY <1>1, <1>3, <1>4, <1>5, StackIInv

LEMMA ReachIInv ==
  ASSUME IInv, NEW t \in Threads, NEW n \in 1 .. 7, Reach(t, n)
  PROVE  IInv'
<1> DEFINE s == [stack[t] EXCEPT ![Len(stack[t])].next = n]
<1>1. /\ stack[t] # <<>> /\ stack[t] \in Seq(Frames)
      /\ Top(t) = stack[t][Len(stack[t])] /\ Top(t) \in Frames
      /\ Len(stack[t]) \in Nat \ {0} /\ DOMAIN stack[t] = 1 .. Len(stack[t])
  BY TopType DEF IInv, Reach
<1>2. n \in Nat \ {0} /\ n \in Top(t).next .. Len(Inner(Top(t).name))
  BY DEF Reach
<1>3. /\ s \in Seq(Frames) /\ s # <<>>
      /\ Len(s) = Len(stack[t]) /\ DOMAIN s = DOMAIN stack[t]
      /\ \A i \in DOMAIN stack[t] : s[i].name = stack[t][i].name
      /\ s[Len(s)].next = n
  BY <1>1, <1>2, Renumbered
<1>4. stack' = [stack EXCEPT ![t] = s] /\ waiting' = waiting \cup {t}
  BY <1>1 DEF Reach, IInv, TypeOK
<1> HIDE DEF s
<1>5. waiting' \ {t} = waiting \ {t} /\ waiting' \subseteq Threads
  BY <1>4 DEF IInv, TypeOK
<1>6. s[Len(s)].name = Top(t).name
  BY <1>1, <1>3
<1>7. s[Len(s)].next \in 1 .. Len(Inner(s[Len(s)].name))
  <2>1. Top(t).next \in Nat \ {0}
    BY <1>1 DEF Frames
  <2> QED
    BY <1>2, <1>3, <1>6, <2>1
<1>8. \A i, j \in DOMAIN s :
          i < j => Rank(s[i].name) < Rank(s[j].name) /\ Inner(s[i].name) # <<>>
  BY <1>3 DEF IInv, Ordered
<1> QED
  BY <1>3, <1>4, <1>5, <1>7, <1>8, StackIInv

LEMMA EnterIInv ==
  ASSUME IInv, NEW t \in Threads, Enter(t)
  PROVE  IInv'
<1> DEFINE n == Top(t).next + 1
           r == [stack[t] EXCEPT ![Len(stack[t])].next = n]
           w == Wanted(t)
           s == Append(r, w)
<1>1. t \in waiting
  BY DEF Enter
<1>2. /\ stack[t] # <<>> /\ stack[t] \in Seq(Frames)
      /\ Top(t) = stack[t][Len(stack[t])] /\ Top(t) \in Frames
      /\ Len(stack[t]) \in Nat \ {0} /\ DOMAIN stack[t] = 1 .. Len(stack[t])
  BY <1>1, TopType, WantedRank DEF IInv
<1>3. /\ w \in Frames /\ w.next = 1
      /\ Inner(Top(t).name) # <<>>
      /\ \A i \in DOMAIN stack[t] : Rank(stack[t][i].name) < Rank(w.name)
  BY <1>1, WantedRank
<1>4. n \in Nat \ {0}
  BY <1>2 DEF Frames
<1>5. stack' = [stack EXCEPT ![t] = s] /\ waiting' = waiting \ {t}
  <2>1. [stack[t] EXCEPT ![Len(stack[t])].next = @ + 1] = r
    BY <1>2
  <2> QED
    BY <2>1 DEF Enter
<1> HIDE DEF n, w
<1>6. /\ r \in Seq(Frames) /\ r # <<>>
      /\ Len(r) = Len(stack[t]) /\ DOMAIN r = DOMAIN stack[t]
      /\ \A i \in DOMAIN stack[t] : r[i].name = stack[t][i].name
  BY <1>2, <1>4, Renumbered
<1> HIDE DEF r
<1>7. /\ s \in Seq(Frames)
      /\ DOMAIN s = 1 .. (Len(stack[t]) + 1)
      /\ s[Len(stack[t]) + 1] = w
      /\ \A i \in 1 .. Len(stack[t]) : s[i] = r[i]
  BY <1>2, <1>3, <1>6
<1> HIDE DEF s
<1>8. ASSUME NEW i \in DOMAIN s, NEW j \in DOMAIN s, i < j
      PROVE  Rank(s[i].name) < Rank(s[j].name) /\ Inner(s[i].name) # <<>>
  <2>1. i \in DOMAIN stack[t] /\ s[i].name = stack[t][i].name
    BY <1>2, <1>6, <1>7, <1>8
  <2>2. CASE j \in DOMAIN stack[t]
    <3>1. s[j].name = stack[t][j].name
      BY <1>2, <1>6, <1>7, <2>2
    <3> QED
      BY <1>8, <2>1, <2>2, <3>1 DEF IInv, Ordered
  <2>3. CASE j \notin DOMAIN stack[t]
    <3>1. s[j] = w
      BY <1>2, <1>7, <2>3
    <3>2. Inner(stack[t][i].name) # <<>>
      <4>1. CASE i = Len(stack[t])
        BY <1>2, <1>3, <4>1
      <4>2. CASE i # Len(stack[t])
        BY <1>2, <2>1, <4>2 DEF IInv, Ordered
      <4> QED
        BY <4>1, <4>2
    <3> QED
      BY <1>3, <2>1, <3>1, <3>2
  <2> QED
    BY <2>2, <2>3
<1>9. t \notin waiting' /\ waiting' \ {t} = waiting \ {t} /\ waiting' \subseteq Threads
  BY <1>5 DEF IInv, TypeOK
<1> QED
  BY <1>5, <1>7, <1>8, <1>9, StackIInv

LEMMA LeaveIInv ==
  ASSUME IInv, NEW t \in Threads, Leave(t)
  PROVE  IInv'
<1> DEFINE m == Len(stack[t]) - 1
           s == SubSeq(stack[t], 1, m)
<1>1. /\ stack[t] \in Seq(Frames)
      /\ Len(stack[t]) \in Nat \ {0} /\ DOMAIN stack[t] = 1 .. Len(stack[t])
  BY TopType DEF IInv, Leave
<1>2. /\ s \in Seq(Frames)
      /\ DOMAIN s = 1 .. m
      /\ \A i \in 1 .. m : s[i] = stack[t][i]
  BY <1>1
<1>3. stack' = [stack EXCEPT ![t] = s] /\ waiting' = waiting /\ t \notin waiting
  BY DEF Leave
<1> HIDE DEF s
<1>4. ASSUME NEW i \in DOMAIN s, NEW j \in DOMAIN s, i < j
      PROVE  Rank(s[i].name) < Rank(s[j].name) /\ Inner(s[i].name) # <<>>
  <2>1. i \in DOMAIN stack[t] /\ j \in DOMAIN stack[t]
    BY <1>1, <1>2
  <2> QED
    BY <1>2, <1>4, <2>1 DEF IInv, Ordered
<1>5. waiting' \subseteq Threads
  BY <1>3 DEF IInv, TypeOK
<1> QED
  BY <1>2, <1>3, <1>4, <1>5, StackIInv

LEMMA NextIInv == IInv /\ [Next]_vars => IInv'
<1> SUFFICES ASSUME IInv, [Next]_vars PROVE IInv'
  OBVIOUS
<1>1. CASE UNCHANGED vars
  <2>1. stack' = stack /\ waiting' = waiting
    BY <1>1 DEF vars
  <2>2. TypeOK'
    BY <2>1 DEF IInv, TypeOK, Top
  <2>3. Ordered'
    BY <2>1 DEF IInv, Ordered
  <2> QED
    BY <2>2, <2>3 DEF IInv
<1>2. CASE Next
  <2>1. PICK t \in Threads :
            \/ \E name \in Operations, own, target \in Clients \cup {NoClient} :
                   Begin(t, name, own, target)
            \/ \E i \in 1 .. 7 : Reach(t, i)
            \/ Enter(t)
            \/ Leave(t)
    BY <1>2 DEF Next
  <2> QED
    BY <2>1, BeginIInv, ReachIInv, EnterIInv, LeaveIInv
<1> QED
  BY <1>1, <1>2

THEOREM Invariance == Spec => []IInv
BY InitIInv, NextIInv, PTL DEF Spec

-----------------------------------------------------------------------------
(* What follows *)

\* The stacks hold frames of known scopes, and who waits has a next scope to wait for.
THEOREM TypeSafe == Spec => []TypeOK
<1>1. IInv => TypeOK
  BY DEF IInv
<1> QED
  BY <1>1, Invariance, PTL

\* Whoever holds the mutex that t waits for, and waits, waits for one of a higher rank.
LEMMA Climbs ==
  ASSUME IInv, NEW t \in waiting, NEW u \in waiting, Holds(u, Mutex(Wanted(t)))
  PROVE  Rank(Wanted(t).name) < Rank(Wanted(u).name)
<1>1. PICK i \in DOMAIN stack[u] :
          stack[u][i].name \notin Operations /\ Mutex(stack[u][i]) = Mutex(Wanted(t))
  BY DEF Holds
<1>2. u \in Threads /\ stack[u] # <<>>
  BY WantedRank
<1>3. stack[u][i] \in Frames
  BY <1>1, <1>2, TopType DEF IInv
<1>4. stack[u][i].name \in Names \ Operations
  BY <1>1, <1>3 DEF Frames
<1>5. Kind(stack[u][i].name) = Kind(Wanted(t).name)
  BY <1>1 DEF Mutex
<1>6. Wanted(t).name \in Names \ Operations
  BY WantedRank
<1>7. Rank(stack[u][i].name) = Rank(Wanted(t).name)
  BY <1>4, <1>5, <1>6, KindRank
<1>8. Rank(stack[u][i].name) < Rank(Wanted(u).name)
  BY WantedRank
<1> QED
  BY <1>7, <1>8

LEMMA NoCircle == IInv => NoCircularWait
<1> SUFFICES ASSUME IInv, NEW group \in (SUBSET Threads) \ {{}},
                    \A t \in group : t \in waiting /\ \E u \in group : Holds(u, Mutex(Wanted(t)))
             PROVE  FALSE
  BY DEF NoCircularWait
<1> DEFINE W(t) == Rank(Wanted(t).name)
<1>1. \A t \in group : W(t) \in 0 .. 3
  BY WantedRank, RankType
<1>2. \A t \in group : \E u \in group : W(t) < W(u)
  BY Climbs
<1> HIDE DEF W
<1>3. PICK t0 \in group : TRUE
  OBVIOUS
<1>4. PICK t1 \in group : W(t0) < W(t1)
  BY <1>2
<1>5. PICK t2 \in group : W(t1) < W(t2)
  BY <1>2
<1>6. PICK t3 \in group : W(t2) < W(t3)
  BY <1>2
<1>7. PICK t4 \in group : W(t3) < W(t4)
  BY <1>2
<1> QED
  BY <1>1, <1>4, <1>5, <1>6, <1>7

\* No threads wait for each other in a circle.
THEOREM DeadlockFree == Spec => []NoCircularWait
BY Invariance, NoCircle, PTL

\* A chain of n threads from t, each waiting for the next one, to one that can go on.
Chain(t, n, chain) ==
  /\ chain \in [1 .. n -> Threads] /\ chain[1] = t
  /\ \A i \in 1 .. n - 1 :
         chain[i] \in waiting /\ Holds(chain[i + 1], Mutex(Wanted(chain[i])))
  /\ CanGoOn(chain[n])

LEMMA ChainOfOne ==
  ASSUME NEW t \in Threads, CanGoOn(t)
  PROVE  \E chain : Chain(t, 1, chain)
<1>1. Chain(t, 1, [i \in 1 .. 1 |-> t])
  BY DEF Chain
<1> QED
  BY <1>1

\* A thread that waits for the first of a chain is the first of a longer one.
LEMMA ChainOfMore ==
  ASSUME NEW t \in waiting, t \in Threads, NEW u \in Threads, Holds(u, Mutex(Wanted(t))),
         NEW n \in Nat \ {0}, NEW chain, Chain(u, n, chain)
  PROVE  \E longer : Chain(t, n + 1, longer)
<1> DEFINE longer == [i \in 1 .. n + 1 |-> IF i = 1 THEN t ELSE chain[i - 1]]
<1>1. \A i \in 2 .. n + 1 : i - 1 \in 1 .. n /\ longer[i] = chain[i - 1]
  OBVIOUS
<1>2. longer[1] = t /\ longer[n + 1] = chain[n] /\ longer[2] = u
  BY <1>1 DEF Chain
<1>3. longer \in [1 .. n + 1 -> Threads]
  BY DEF Chain
<1> HIDE DEF longer
<1>4. ASSUME NEW i \in 1 .. n
      PROVE  longer[i] \in waiting /\ Holds(longer[i + 1], Mutex(Wanted(longer[i])))
  <2>1. CASE i = 1
    BY <1>2, <2>1
  <2>2. CASE i # 1
    <3>1. i - 1 \in 1 .. n - 1 /\ longer[i] = chain[i - 1] /\ longer[i + 1] = chain[(i - 1) + 1]
      BY <1>1, <2>2
    <3> QED
      BY <3>1 DEF Chain
  <2> QED
    BY <2>1, <2>2
<1>5. CanGoOn(longer[n + 1])
  BY <1>2 DEF Chain
<1>6. 1 .. (n + 1) - 1 = 1 .. n
  OBVIOUS
<1> QED
  BY <1>2, <1>3, <1>4, <1>5, <1>6 DEF Chain

\* The higher the rank of what a thread waits for, the shorter its chain.
LEMMA ChainByRank ==
  ASSUME IInv, NEW k \in 0 .. 2,
         \A u \in waiting : Rank(Wanted(u).name) > 3 - k =>
             \E n \in 1 .. k + 1 : \E chain : Chain(u, n, chain),
         NEW t \in waiting, Rank(Wanted(t).name) = 3 - k
  PROVE  \E n \in 1 .. k + 2 : \E chain : Chain(t, n, chain)
<1>1. t \in Threads
  BY WantedRank
<1>2. CASE CanGoOn(t)
  BY <1>1, <1>2, ChainOfOne
<1>3. CASE ~CanGoOn(t)
  <2>1. PICK u \in Threads : Holds(u, Mutex(Wanted(t)))
    BY <1>3 DEF CanGoOn
  <2>2. CASE u \notin waiting
    <3>1. PICK chain : Chain(u, 1, chain)
      BY <2>2, ChainOfOne DEF CanGoOn
    <3>2. \E longer : Chain(t, 1 + 1, longer)
      BY <1>1, <2>1, <3>1, ChainOfMore
    <3> QED
      BY <3>2
  <2>3. CASE u \in waiting
    <3>1. Rank(Wanted(u).name) > 3 - k
      <4>1. Rank(Wanted(t).name) < Rank(Wanted(u).name)
        BY <2>1, <2>3, Climbs
      <4>2. Wanted(u).name \in Names
        BY <2>3, WantedRank
      <4>3. Rank(Wanted(u).name) \in 0 .. 3
        BY <4>2, RankType
      <4> QED
        BY <4>1, <4>3
    <3>2. PICK n \in 1 .. k + 1 : \E chain : Chain(u, n, chain)
      BY <2>3, <3>1
    <3>3. PICK chain : Chain(u, n, chain)
      BY <3>2
    <3>4. \E longer : Chain(t, n + 1, longer)
      BY <1>1, <2>1, <3>3, ChainOfMore
    <3> QED
      BY <3>4
  <2> QED
    BY <2>2, <2>3
<1> QED
  BY <1>2, <1>3

LEMMA WaitsAreShort == IInv => ShortWaits
<1> SUFFICES ASSUME IInv, NEW t \in waiting
             PROVE  \E n \in 1 .. 4 : \E chain : Chain(t, n, chain)
  BY DEF ShortWaits, Chain
<1>1. \A u \in waiting : Rank(Wanted(u).name) \in 1 .. 3
  <2> TAKE u \in waiting
  <2>1. Wanted(u).name \in Names \ Operations
    BY WantedRank
  <2> QED
    BY <2>1 DEF Rank
<1>2. ASSUME NEW u \in waiting, Rank(Wanted(u).name) > 2
      PROVE  \E n \in 1 .. 2 : \E chain : Chain(u, n, chain)
  <2>1. \A v \in waiting : ~(Rank(Wanted(v).name) > 3 - 0)
    BY <1>1
  <2>2. Rank(Wanted(u).name) = 3 - 0
    BY <1>1, <1>2
  <2>3. \E n \in 1 .. 0 + 2 : \E chain : Chain(u, n, chain)
    BY <2>1, <2>2, ChainByRank
  <2> QED
    BY <2>3
<1>3. ASSUME NEW u \in waiting, Rank(Wanted(u).name) > 1
      PROVE  \E n \in 1 .. 3 : \E chain : Chain(u, n, chain)
  <2>1. CASE Rank(Wanted(u).name) > 2
    BY <1>2, <2>1
  <2>2. CASE Rank(Wanted(u).name) = 3 - 1
    <3>1. \A v \in waiting : Rank(Wanted(v).name) > 3 - 1 =>
              \E n \in 1 .. 1 + 1 : \E chain : Chain(v, n, chain)
      BY <1>2
    <3>2. \E n \in 1 .. 1 + 2 : \E chain : Chain(u, n, chain)
      BY <2>2, <3>1, ChainByRank
    <3> QED
      BY <3>2
  <2> QED
    BY <1>1, <1>3, <2>1, <2>2
<1>4. CASE Rank(Wanted(t).name) > 1
  BY <1>3, <1>4
<1>5. CASE Rank(Wanted(t).name) = 3 - 2
  <2>1. \A v \in waiting : Rank(Wanted(v).name) > 3 - 2 =>
            \E n \in 1 .. 2 + 1 : \E chain : Chain(v, n, chain)
    BY <1>3
  <2>2. \E n \in 1 .. 2 + 2 : \E chain : Chain(t, n, chain)
    BY <1>5, <2>1, ChainByRank
  <2> QED
    BY <2>2
<1> QED
  BY <1>1, <1>4, <1>5

\* A thread that waits is, after at most three waits of others, behind one that can go on:
\* with a scope that ends, somebody's wait does.  The ranks of the mutexes bound the chain,
\* not the number of threads.
THEOREM WaitsBounded == Spec => []ShortWaits
BY Invariance, WaitsAreShort, PTL

LEMMA NoneUnderService == IInv => NoSendUnderService
<1> SUFFICES ASSUME IInv, NEW t \in Threads, Writes(t),
                    NEW kind \in {"storeMutex", "platform", "online"},
                    Holds(t, <<kind, NoClient>>)
             PROVE  FALSE
  BY DEF NoSendUnderService
<1>1. PICK j \in DOMAIN stack[t] :
          stack[t][j].name \notin Operations /\ Mutex(stack[t][j]) = <<kind, NoClient>>
  BY DEF Holds
<1>2. stack[t] \in Seq(Frames)
  BY DEF IInv, TypeOK
<1>3. ASSUME NEW i \in DOMAIN stack[t] PROVE i \in Nat /\ stack[t][i].name \in Names
  <2>1. i \in Nat /\ stack[t][i] \in Frames
    BY <1>2
  <2> QED
    BY <2>1 DEF Frames
<1>4. Kind(stack[t][j].name) = kind
  BY <1>1 DEF Mutex
<1>5. stack[t][j].name \in {"service", "restore", "platform", "online"}
  BY <1>1, <1>3, <1>4 DEF Kind, Names, Operations
<1>6. CASE \E i \in DOMAIN stack[t] : stack[t][i].name \in {"reply", "push"}
  <2>1. PICK i \in DOMAIN stack[t] : stack[t][i].name \in {"reply", "push"}
    BY <1>6
  <2>2. ~(i < j)
    <3>1. Inner(stack[t][i].name) = <<>>
      BY <2>1 DEF Inner, Nested, Operations
    <3> QED
      BY <3>1 DEF IInv, Ordered
  <2>3. ~(j < i)
    <3>1. Rank(stack[t][i].name) = 2 /\ Rank(stack[t][j].name) \in {2, 3}
      BY <1>5, <2>1 DEF Rank, Operations
    <3> QED
      BY <3>1 DEF IInv, Ordered
  <2>4. i # j
    BY <1>5, <2>1
  <2> QED
    BY <1>3, <2>2, <2>3, <2>4
<1>7. CASE t \in waiting /\ Kind(Wanted(t).name) \in {"endpoint", "sendMutex"}
  <2>1. Wanted(t).name \in Names \ Operations
    BY <1>7, WantedRank
  <2>2. Rank(Wanted(t).name) \in {1, 2}
    BY <1>7, <2>1 DEF Kind, Rank, Names, Operations
  <2>3. Rank(stack[t][j].name) \in {2, 3}
    BY <1>5 DEF Rank, Operations
  <2>4. Rank(stack[t][j].name) < Rank(Wanted(t).name)
    BY <1>7, WantedRank
  <2> QED
    BY <2>2, <2>3, <2>4
<1> QED
  BY <1>6, <1>7 DEF Writes

\* Whoever writes a frame holds none of the mutexes that everybody needs.
THEOREM SendsAlone == Spec => []NoSendUnderService
BY Invariance, NoneUnderService, PTL

(***************************************************************************)
(* PresencePush.                                                           *)
(***************************************************************************)
\* No push, snapshot or mark is newer than the presence.
Dated ==
    /\ revision \in Nat
    /\ \A c \in Connections :
         /\ push[c].revision <= revision /\ reply[c] <= revision
         /\ heard[c] <= revision /\ told[c] <= revision
    /\ lost <= revision

\* A thread that takes requests serves a registered connection; one that ends does not.
Serving ==
    \A c \in Connections :
        /\ stage[c] \in {"idle", "late", "reply"} => c \in endpoints
        /\ stage[c] \in {"away", "leaving"} => c \notin endpoints

\* A push is a publication of the registered connection that carries it, or tells its end.
Carried ==
    \A c \in Connections : push[c] # NoPush =>
        c \in Publishers /\ (c \notin endpoints => ~push[c].online)

\* A thread that writes holds the endpoint, and what it writes is not older than what the
\* connection has heard.
Locked ==
    \A c \in Connections : stage[c] = "write" =>
        /\ writing[c] \in Subscribers /\ holder[writing[c]] = c
        /\ heard[writing[c]] <= push[c].revision

\* The connection has not outlived its session.
Trusted(c) == c \in endpoints => c \in valid

\* The newest push says what is published, but that one made for a session that had ended may
\* say less.
Truthful ==
    \A c \in Connections :
        push[c] # NoPush /\ push[c].revision = revision /\ lost # revision =>
            /\ push[c].document = document.id
            /\ push[c].online => document.online /\ publishedOnline
            /\ Trusted(c) => push[c].online = (document.online /\ publishedOnline)

\* Beside updates only the end of a publisher's connection, once for each, revises.
Unspent ==
    {p \in Publishers : stage[p] \in {"away", "leaving"} \/ p \in endpoints}
Budget == revision + Cardinality(Unspent) <= document.id + Cardinality(Publishers)

PresenceInv ==
    PresenceTypeOK /\ Dated /\ Serving /\ Carried /\ Locked /\ Truthful /\ Budget

LEMMA PublishersCount ==
    ASSUME NEW S \in SUBSET Publishers
    PROVE  IsFiniteSet(S) /\ Cardinality(S) \in 0 .. Cardinality(Publishers)
           /\ Cardinality(Publishers) \in Nat
  <1>1. IsFiniteSet(Publishers) /\ IsFiniteSet(S) /\ Cardinality(S) <= Cardinality(Publishers)
    BY PresenceAssumption, FS_Subset
  <1>2. Cardinality(S) \in Nat /\ Cardinality(Publishers) \in Nat
    BY <1>1, FS_CardinalityType
  <1>3. QED
    BY <1>1, <1>2

LEMMA PresenceInitInv == PresenceInit => PresenceInv
  <1> SUFFICES ASSUME PresenceInit PROVE PresenceInv
    OBVIOUS
  <1> USE PresenceAssumption DEF PresenceInit
  <1>1. Cardinality(Publishers) \in Nat
    BY PublishersCount
  <1>2. PresenceTypeOK
    <2>1. 0 \in Revisions /\ NoPush \in Pushes
      BY <1>1 DEF NoPush, Pushes, Revisions
    <2>2. /\ push \in [Connections -> Pushes] /\ reply \in [Connections -> Revisions]
          /\ heard \in [Connections -> Revisions] /\ told \in [Connections -> Revisions]
      BY <2>1
    <2>3. targets \in [Connections -> SUBSET Subscribers]
      OBVIOUS
    <2>4. document \in [online : BOOLEAN, id : 0 .. MaxUpdates]
      OBVIOUS
    <2>5. /\ stage \in [Connections -> {"away", "idle", "late", "reply", "leaving", "retire",
                                       "route", "deliver", "write", "gone"}]
          /\ writing \in [Connections -> Subscribers \cup {Nobody}]
          /\ holder \in [Connections -> Connections \cup {Nobody}]
      OBVIOUS
    <2>6. /\ endpoints \subseteq Connections /\ valid \subseteq Connections
          /\ writer \subseteq Subscribers
          /\ follows \subseteq Subscribers
      OBVIOUS
    <2>7. revision \in Revisions /\ lost \in Revisions /\ failures \in 0 .. MaxFailures
      BY <2>1
    <2>8. publishedOnline \in BOOLEAN /\ subscribed \in BOOLEAN
      OBVIOUS
    <2>9. QED
      BY <2>2, <2>3, <2>4, <2>5, <2>6, <2>7, <2>8 DEF PresenceTypeOK
  <1>3. Dated /\ Serving /\ Carried /\ Locked /\ Truthful
    BY DEF Dated, Serving, Carried, Locked, Truthful, NoPush
  <1>4. Unspent = Publishers
    BY DEF Unspent, Connections
  <1>5. Budget
    BY <1>1, <1>4 DEF Budget
  <1>6. QED
    BY <1>2, <1>3, <1>5 DEF PresenceInv

\* The budget keeps the revisions in their range.
LEMMA BudgetFits ==
    ASSUME NEW S \in SUBSET Publishers, NEW rev \in Nat, NEW id \in 0 .. MaxUpdates,
           rev + Cardinality(S) <= id + Cardinality(Publishers)
    PROVE  rev \in Revisions
  <1>1. Cardinality(S) \in Nat /\ Cardinality(Publishers) \in Nat
    BY PublishersCount
  <1>2. QED
    BY <1>1, PresenceAssumption DEF Revisions

\* Whatever changes neither the presence nor adds a push keeps the pushes truthful and dated.
LEMMA TruthfulKept ==
    ASSUME Truthful, UNCHANGED <<document, publishedOnline, revision>>, lost' \in {lost, revision},
           \A c \in Connections :
               push'[c] = NoPush \/ (push'[c] = push[c] /\ (Trusted(c)' => Trusted(c)))
    PROVE  Truthful'
  BY DEF Truthful

LEMMA UnspentKept ==
    ASSUME Budget, UNCHANGED <<document, revision>>, Unspent' = Unspent
    PROVE  Budget'
  BY DEF Budget

LEMMA ConnectInv ==
    ASSUME PresenceInv, NEW c \in Connections, Connect(c)
    PROVE  PresenceInv'
  <1> USE PresenceAssumption DEF PresenceInv, store, work, clients, lease
  <1>1. PresenceTypeOK'
    BY DEF Connect, PresenceTypeOK
  <1>2. Dated'
    BY DEF Connect, Dated, PresenceTypeOK
  <1>3. Serving'
    BY DEF Connect, Serving, PresenceTypeOK
  <1>4. Carried'
    BY DEF Connect, Carried, Serving, NoPush, PresenceTypeOK
  <1>5. Locked'
    BY DEF Connect, Locked, Dated, PresenceTypeOK
  <1>6. Truthful'
    BY TruthfulKept DEF Connect, Trusted, Serving, PresenceTypeOK
  <1>7. Budget'
    <2>1. Unspent' = Unspent
      BY DEF Connect, Unspent, Serving, PresenceTypeOK
    <2>2. QED
      BY <2>1, UnspentKept DEF Connect
  <1>8. QED
    BY <1>1, <1>2, <1>3, <1>4, <1>5, <1>6, <1>7

LEMMA SubscribeInv ==
    ASSUME PresenceInv, NEW c \in Connections, Subscribe(c), c \in Subscribers
    PROVE  PresenceInv'
  <1> USE PresenceAssumption DEF PresenceInv, store, work, clients, lease
  <1>1. PresenceTypeOK'
    BY DEF Subscribe, PresenceTypeOK
  <1>2. Dated'
    BY DEF Subscribe, Dated, PresenceTypeOK
  <1>3. Serving'
    BY DEF Subscribe, Dispatched, Serving, PresenceTypeOK
  <1>4. Carried'
    BY DEF Subscribe, Carried, Serving, PresenceTypeOK
  <1>5. Locked'
    BY DEF Subscribe, Locked, Dated, PresenceTypeOK
  <1>6. Truthful'
    BY TruthfulKept DEF Subscribe, Trusted, PresenceTypeOK
  <1>7. Budget'
    <2>1. Unspent' = Unspent
      BY DEF Subscribe, Unspent, Serving, PresenceTypeOK
    <2>2. QED
      BY <2>1, UnspentKept DEF Subscribe
  <1>8. QED
    BY <1>1, <1>2, <1>3, <1>4, <1>5, <1>6, <1>7

LEMMA UnsubscribeInv ==
    ASSUME PresenceInv, NEW c \in Connections, Unsubscribe(c), c \in Subscribers
    PROVE  PresenceInv'
  <1> USE PresenceAssumption DEF PresenceInv, store, work, clients, lease
  <1>1. PresenceTypeOK'
    BY DEF Unsubscribe, PresenceTypeOK
  <1>2. Dated'
    BY DEF Unsubscribe, Dated, PresenceTypeOK
  <1>3. Serving'
    BY DEF Unsubscribe, Dispatched, Serving, PresenceTypeOK
  <1>4. Carried'
    BY DEF Unsubscribe, Carried, Serving, PresenceTypeOK
  <1>5. Locked'
    BY DEF Unsubscribe, Locked, Dated, PresenceTypeOK
  <1>6. Truthful'
    BY TruthfulKept DEF Unsubscribe, Trusted, PresenceTypeOK
  <1>7. Budget'
    <2>1. Unspent' = Unspent
      BY DEF Unsubscribe, Unspent, Serving, PresenceTypeOK
    <2>2. QED
      BY <2>1, UnspentKept DEF Unsubscribe
  <1>8. QED
    BY <1>1, <1>2, <1>3, <1>4, <1>5, <1>6, <1>7

LEMMA ExpireInv ==
    ASSUME PresenceInv, NEW c \in Connections, Expire(c)
    PROVE  PresenceInv'
  <1> USE PresenceAssumption DEF PresenceInv, store, work, clients, lease
  <1>1. PresenceTypeOK'
    BY DEF Expire, Fails, PresenceTypeOK
  <1>2. Dated'
    BY DEF Expire, Dated, PresenceTypeOK
  <1>3. Serving'
    BY DEF Expire, Serving, PresenceTypeOK
  <1>4. Carried'
    BY DEF Expire, Carried, PresenceTypeOK
  <1>5. Locked'
    BY DEF Expire, Locked, PresenceTypeOK
  <1>6. Truthful'
    BY TruthfulKept DEF Expire, Trusted, PresenceTypeOK
  <1>7. Budget'
    <2>1. Unspent' = Unspent
      BY DEF Expire, Unspent, Serving, PresenceTypeOK, Connections
    <2>2. QED
      BY <2>1, UnspentKept DEF Expire
  <1>8. QED
    BY <1>1, <1>2, <1>3, <1>4, <1>5, <1>6, <1>7

LEMMA ReplyInv ==
    ASSUME PresenceInv, NEW c \in Connections, Reply(c)
    PROVE  PresenceInv'
  <1> USE PresenceAssumption DEF PresenceInv, store, work, clients, lease
  <1>1. PresenceTypeOK'
    <2>1. 0 \in Revisions /\ reply'[c] = 0 /\ \A a, b \in Revisions : Newest(a, b) \in Revisions
      BY PublishersCount DEF Revisions, Newest, Reply, PresenceTypeOK
    <2>2. Newest(told[c], reply[c]) \in Revisions
      BY <2>1 DEF PresenceTypeOK
    <2>3. told' \in [Connections -> Revisions] /\ reply' \in [Connections -> Revisions]
      BY <2>1, <2>2 DEF Reply, PresenceTypeOK
    <2>4. QED
      BY <2>3 DEF Reply, PresenceTypeOK
  <1>2. Dated'
    BY DEF Reply, Dated, PresenceTypeOK, Newest
  <1>3. Serving'
    BY DEF Reply, Serving, PresenceTypeOK, Newest
  <1>4. Carried'
    BY DEF Reply, Carried, Serving, PresenceTypeOK, Newest
  <1>5. Locked'
    BY DEF Reply, Locked, Dated, PresenceTypeOK, Newest
  <1>6. Truthful'
    BY TruthfulKept DEF Reply, Trusted, PresenceTypeOK, Newest
  <1>7. Budget'
    <2>1. Unspent' = Unspent
      BY DEF Reply, Unspent, Serving, PresenceTypeOK, Newest
    <2>2. QED
      BY <2>1, UnspentKept DEF Reply
  <1>8. QED
    BY <1>1, <1>2, <1>3, <1>4, <1>5, <1>6, <1>7

LEMMA LeaveServeInv ==
    ASSUME PresenceInv, NEW c \in Connections, LeaveServe(c)
    PROVE  PresenceInv'
  <1> USE PresenceAssumption DEF PresenceInv, store, work, clients, lease
  <1>1. PresenceTypeOK'
    <2>1. 0 \in Revisions /\ NoPush \in Pushes /\ push[c].revision \in Revisions
      BY PublishersCount DEF Revisions, NoPush, Pushes, PresenceTypeOK
    <2>2. reply' \in [Connections -> Revisions] /\ push' \in [Connections -> Pushes]
      BY <2>1 DEF LeaveServe, PresenceTypeOK
    <2>3. lost' \in Revisions /\ failures' \in 0 .. MaxFailures
      BY <2>1 DEF LeaveServe, PresenceTypeOK, GivenUp, Fails
    <2>4. QED
      BY <2>2, <2>3 DEF LeaveServe, PresenceTypeOK
  <1>2. Dated'
    <2>1. lost' <= revision
      BY DEF LeaveServe, Dated, GivenUp
    <2>2. push'[c] = NoPush /\ reply'[c] = 0
      BY DEF LeaveServe, PresenceTypeOK
    <2>3. \A d \in Connections : push'[d].revision <= revision /\ reply'[d] <= revision
      BY <2>2 DEF LeaveServe, Dated, NoPush, PresenceTypeOK
    <2>4. QED
      BY <2>1, <2>3 DEF LeaveServe, Dated
  <1>3. Serving'
    BY DEF LeaveServe, Serving, PresenceTypeOK, GivenUp, Fails
  <1>4. Carried'
    BY DEF LeaveServe, Carried, Serving, PresenceTypeOK, GivenUp, Fails
  <1>5. Locked'
    BY DEF LeaveServe, Locked, Dated, PresenceTypeOK, GivenUp, Fails
  <1>6. Truthful'
    BY TruthfulKept DEF LeaveServe, Trusted, PresenceTypeOK, GivenUp, Fails
  <1>7. Budget'
    <2>1. Unspent' = Unspent
      BY DEF LeaveServe, Unspent, Serving, PresenceTypeOK, GivenUp, Fails
    <2>2. QED
      BY <2>1, UnspentKept DEF LeaveServe
  <1>8. QED
    BY <1>1, <1>2, <1>3, <1>4, <1>5, <1>6, <1>7

LEMMA RetireInv ==
    ASSUME PresenceInv, NEW c \in Connections, Retire(c)
    PROVE  PresenceInv'
  <1> USE PresenceAssumption DEF PresenceInv, store, work, clients, lease
  <1>1. PresenceTypeOK'
    BY DEF Retire, PresenceTypeOK
  <1>2. Dated'
    BY DEF Retire, Dated, PresenceTypeOK
  <1>3. Serving'
    BY DEF Retire, Serving, PresenceTypeOK
  <1>4. Carried'
    BY DEF Retire, Carried, Serving, PresenceTypeOK
  <1>5. Locked'
    BY DEF Retire, Locked, Dated, PresenceTypeOK
  <1>6. Truthful'
    BY TruthfulKept DEF Retire, Trusted, PresenceTypeOK
  <1>7. Budget'
    <2>1. Unspent' = Unspent
      BY DEF Retire, Unspent, Serving, PresenceTypeOK
    <2>2. QED
      BY <2>1, UnspentKept DEF Retire
  <1>8. QED
    BY <1>1, <1>2, <1>3, <1>4, <1>5, <1>6, <1>7

LEMMA RouteInv ==
    ASSUME PresenceInv, NEW c \in Connections, Route(c)
    PROVE  PresenceInv'
  <1> USE PresenceAssumption DEF PresenceInv, store, work, clients, lease
  <1>1. PresenceTypeOK'
    BY DEF Route, PresenceTypeOK
  <1>2. Dated'
    BY DEF Route, Dated, PresenceTypeOK
  <1>3. Serving'
    BY DEF Route, Serving, PresenceTypeOK
  <1>4. Carried'
    BY DEF Route, Carried, Serving, PresenceTypeOK
  <1>5. Locked'
    BY DEF Route, Locked, Dated, PresenceTypeOK
  <1>6. Truthful'
    BY TruthfulKept DEF Route, Trusted, PresenceTypeOK
  <1>7. Budget'
    <2>1. Unspent' = Unspent
      BY DEF Route, Unspent, Serving, PresenceTypeOK
    <2>2. QED
      BY <2>1, UnspentKept DEF Route
  <1>8. QED
    BY <1>1, <1>2, <1>3, <1>4, <1>5, <1>6, <1>7

LEMMA DeliveredInv ==
    ASSUME PresenceInv, NEW c \in Connections, Delivered(c)
    PROVE  PresenceInv'
  <1> USE PresenceAssumption DEF PresenceInv, store, work, clients, lease
  <1>1. PresenceTypeOK'
    <2>1. NoPush \in Pushes
      BY PublishersCount DEF Revisions, NoPush, Pushes
    <2>2. push' \in [Connections -> Pushes] /\ targets' \in [Connections -> SUBSET Subscribers]
      BY <2>1 DEF Delivered, PresenceTypeOK
    <2>3. QED
      BY <2>2 DEF Delivered, PresenceTypeOK, Rest
  <1>2. Dated'
    BY DEF Delivered, Dated, PresenceTypeOK, Rest, NoPush
  <1>3. Serving'
    BY DEF Delivered, Serving, PresenceTypeOK, Rest, NoPush
  <1>4. Carried'
    BY DEF Delivered, Carried, Serving, PresenceTypeOK, Rest, NoPush
  <1>5. Locked'
    BY DEF Delivered, Locked, Dated, PresenceTypeOK, Rest, NoPush
  <1>6. Truthful'
    BY TruthfulKept DEF Delivered, Trusted, PresenceTypeOK, Rest, NoPush
  <1>7. Budget'
    <2>1. Unspent' = Unspent
      BY DEF Delivered, Unspent, Serving, PresenceTypeOK, Rest, NoPush
    <2>2. QED
      BY <2>1, UnspentKept DEF Delivered
  <1>8. QED
    BY <1>1, <1>2, <1>3, <1>4, <1>5, <1>6, <1>7

LEMMA ValidateInv ==
    ASSUME PresenceInv, NEW c \in Connections, Validate(c)
    PROVE  PresenceInv'
  <1> USE PresenceAssumption DEF PresenceInv, store, work, clients, lease
  <1>1. PresenceTypeOK'
    <2> PICK s \in targets[c] :
            /\ holder[s] = Nobody
            /\ holder' = [holder EXCEPT ![s] = c]
            /\ writing' = [writing EXCEPT ![c] = s]
      BY DEF Validate
    <2>1. s \in Subscribers
      BY DEF PresenceTypeOK
    <2>2. /\ writing' \in [Connections -> Subscribers \cup {Nobody}]
          /\ holder' \in [Connections -> Connections \cup {Nobody}]
      BY <2>1 DEF PresenceTypeOK
    <2>3. QED
      BY <2>2 DEF Validate, PresenceTypeOK
  <1>2. Dated'
    BY DEF Validate, Dated, PresenceTypeOK
  <1>3. Serving'
    BY DEF Validate, Serving, PresenceTypeOK
  <1>4. Carried'
    BY DEF Validate, Carried, Serving, PresenceTypeOK
  <1>5. Locked'
    <2> PICK s \in targets[c] :
            /\ holder[s] = Nobody
            /\ holder' = [holder EXCEPT ![s] = c]
            /\ writing' = [writing EXCEPT ![c] = s]
      BY DEF Validate
    <2>1. s \in Subscribers /\ s \in Connections /\ c # Nobody
      BY DEF PresenceTypeOK, Connections
    <2>2. stage' = [stage EXCEPT ![c] = "write"] /\ UNCHANGED <<push, heard>>
      BY DEF Validate
    <2>3. heard[s] <= push[c].revision
      BY <2>1 DEF Validate, Dated
    <2>4. writing'[c] = s /\ holder'[s] = c
      BY <2>1 DEF PresenceTypeOK
    <2> SUFFICES ASSUME NEW d \in Connections, stage'[d] = "write"
                 PROVE  /\ writing'[d] \in Subscribers /\ holder'[writing'[d]] = d
                        /\ heard[writing'[d]] <= push[d].revision
      BY <2>2 DEF Locked
    <2>5. CASE d = c
      BY <2>1, <2>3, <2>4, <2>5
    <2>6. CASE d # c
      <3>1. stage[d] = "write" /\ writing'[d] = writing[d]
        BY <2>2, <2>6 DEF PresenceTypeOK
      <3>2. /\ writing[d] \in Subscribers /\ holder[writing[d]] = d
            /\ heard[writing[d]] <= push[d].revision
        BY <3>1 DEF Locked
      <3>3. writing[d] # s /\ writing[d] \in Connections
        BY <3>2 DEF Connections
      <3>4. holder'[writing[d]] = d
        BY <3>2, <3>3 DEF PresenceTypeOK
      <3>5. QED
        BY <3>1, <3>2, <3>4
    <2>7. QED
      BY <2>5, <2>6
  <1>6. Truthful'
    BY TruthfulKept DEF Validate, Trusted, PresenceTypeOK
  <1>7. Budget'
    <2>1. Unspent' = Unspent
      BY DEF Validate, Unspent, Serving, PresenceTypeOK
    <2>2. QED
      BY <2>1, UnspentKept DEF Validate
  <1>8. QED
    BY <1>1, <1>2, <1>3, <1>4, <1>5, <1>6, <1>7

LEMMA WriteInv ==
    ASSUME PresenceInv, NEW c \in Connections, Write(c)
    PROVE  PresenceInv'
  <1> USE PresenceAssumption DEF PresenceInv, store, work, clients, lease
  <1>1. PresenceTypeOK'
    <2> DEFINE s == writing[c]
    <2>1. s \in Subscribers /\ s \in Connections /\ push[c].revision \in Revisions
      BY DEF Write, Locked, PresenceTypeOK, Pushes, Connections
    <2>2. Newest(told[s], push[c].revision) \in Revisions
      BY <2>1 DEF Newest, PresenceTypeOK
    <2>3. /\ heard' \in [Connections -> Revisions] /\ told' \in [Connections -> Revisions]
          /\ writer' \subseteq Subscribers /\ failures' \in 0 .. MaxFailures
      BY <2>1, <2>2 DEF Write, Fails, PresenceTypeOK
    <2>4. /\ targets' \in [Connections -> SUBSET Subscribers]
          /\ writing' \in [Connections -> Subscribers \cup {Nobody}]
          /\ holder' \in [Connections -> Connections \cup {Nobody}]
      BY <2>1 DEF Write, PresenceTypeOK
    <2>5. QED
      BY <2>3, <2>4 DEF Write, PresenceTypeOK
  <1>2. Dated'
    BY DEF Write, Dated, PresenceTypeOK, Newest, Fails
  <1>3. Serving'
    BY DEF Write, Serving, PresenceTypeOK, Newest, Fails
  <1>4. Carried'
    BY DEF Write, Carried, Serving, PresenceTypeOK, Newest, Fails
  <1>5. Locked'
    <2> DEFINE s == writing[c]
    <2>1. s \in Connections /\ holder[s] = c
      BY DEF Write, Locked, Connections
    <2>2. /\ stage' = [stage EXCEPT ![c] = "deliver"] /\ UNCHANGED push
          /\ holder' = [holder EXCEPT ![s] = Nobody]
          /\ writing' = [writing EXCEPT ![c] = Nobody]
          /\ heard' = heard \/ heard' = [heard EXCEPT ![s] = push[c].revision]
      BY DEF Write
    <2> SUFFICES ASSUME NEW d \in Connections, stage'[d] = "write"
                 PROVE  /\ writing'[d] \in Subscribers /\ holder'[writing'[d]] = d
                        /\ heard'[writing'[d]] <= push[d].revision
      BY <2>2 DEF Locked
    <2>3. d # c /\ stage[d] = "write" /\ writing'[d] = writing[d]
      BY <2>2 DEF PresenceTypeOK
    <2>4. /\ writing[d] \in Subscribers /\ holder[writing[d]] = d
          /\ heard[writing[d]] <= push[d].revision
      BY <2>3 DEF Locked
    <2>5. writing[d] # s /\ writing[d] \in Connections
      BY <2>1, <2>3, <2>4 DEF Connections
    <2>6. holder'[writing[d]] = d /\ heard'[writing[d]] = heard[writing[d]]
      BY <2>2, <2>4, <2>5 DEF PresenceTypeOK
    <2>7. QED
      BY <2>3, <2>4, <2>6
  <1>6. Truthful'
    BY TruthfulKept DEF Write, Trusted, PresenceTypeOK, Newest, Fails
  <1>7. Budget'
    <2>1. Unspent' = Unspent
      BY DEF Write, Unspent, Serving, PresenceTypeOK, Newest, Fails
    <2>2. QED
      BY <2>1, UnspentKept DEF Write
  <1>8. QED
    BY <1>1, <1>2, <1>3, <1>4, <1>5, <1>6, <1>7

\* The connection that takes requests is one of the player's.
LEMMA ServesPublisher ==
    ASSUME PresenceInv, NEW c \in Publishers, Dispatched(c)
    PROVE  /\ c \in Connections /\ c \in endpoints /\ c \in Unspent
           /\ Trusted(c) => Connected
  BY DEF PresenceInv, Serving, Connected, Connections, Unspent, Dispatched, Trusted

\* An update is paid for by the document it writes.
LEMMA UpdateFits ==
    ASSUME PresenceInv, document.id < MaxUpdates
    PROVE  /\ revision + 1 \in Revisions /\ document.id + 1 \in 0 .. MaxUpdates
           /\ revision + 1 + Cardinality(Unspent) <= document.id + 1 + Cardinality(Publishers)
  <1>1. document.id \in 0 .. MaxUpdates /\ document.id + 1 \in 0 .. MaxUpdates
    BY PresenceAssumption DEF PresenceInv, PresenceTypeOK
  <1>2. revision \in Nat /\ Unspent \in SUBSET Publishers
    BY DEF PresenceInv, Dated, Unspent
  <1>3. Cardinality(Unspent) \in Nat /\ Cardinality(Publishers) \in Nat
    BY <1>2, PublishersCount
  <1>4. revision + 1 + Cardinality(Unspent) <= document.id + 1 + Cardinality(Publishers)
    BY <1>1, <1>2, <1>3 DEF PresenceInv, Budget
  <1>5. QED
    BY <1>1, <1>2, <1>4, BudgetFits

LEMMA SetPresenceInv ==
    ASSUME PresenceInv, NEW c \in Publishers, NEW online \in BOOLEAN, SetPresence(c, online)
    PROVE  PresenceInv'
  <1> USE PresenceAssumption DEF PresenceInv, store, work, clients, lease, Revised
  <1> DEFINE new == Notified(revision + 1, document', online)
  <1>1. /\ c \in Connections /\ c \in endpoints /\ c \in Unspent
        /\ Trusted(c) => Connected
        /\ revision + 1 \in Revisions /\ document.id + 1 \in 0 .. MaxUpdates
        /\ revision + 1 + Cardinality(Unspent) <= document.id + 1 + Cardinality(Publishers)
    BY ServesPublisher, UpdateFits DEF SetPresence
  <1>2. /\ document' = [online |-> online, id |-> document.id + 1]
        /\ publishedOnline' = online /\ revision' = revision + 1
        /\ push' = [push EXCEPT ![c] = new] /\ stage' = [stage EXCEPT ![c] = "reply"]
        /\ UNCHANGED <<endpoints, valid, lost>>
    BY DEF SetPresence
  <1>3. /\ push'[c] = new
        /\ \A d \in Connections : d # c => push'[d] = push[d]
    BY <1>1, <1>2 DEF PresenceTypeOK
  <1>4. \/ new = NoPush
        \/ /\ new \in [revision : {revision + 1}, online : BOOLEAN, document : {document.id + 1}]
           /\ new.online = (document'.online /\ online /\ Connected)
    <2>1. \A shown \in BOOLEAN :
              LET made == [revision |-> revision + 1, online |-> shown,
                           document |-> document.id + 1]
              IN  /\ made \in [revision : {revision + 1}, online : BOOLEAN,
                               document : {document.id + 1}]
                  /\ made.online = shown
      OBVIOUS
    <2>2. document'.id = document.id + 1 /\ document'.online \in BOOLEAN
      BY <1>2
    <2>3. new = NoPush
          \/ new = [revision |-> revision + 1,
                    online |-> document'.online /\ online /\ Connected,
                    document |-> document.id + 1]
      BY <2>2 DEF Notified, Push, Presence
    <2>4. (document'.online /\ online /\ Connected) \in BOOLEAN
      OBVIOUS
    <2> HIDE DEF new
    <2>5. QED
      BY <2>1, <2>3, <2>4, Zenon
  <1>5. PresenceTypeOK'
    <2>1. NoPush \in Pushes
      BY PublishersCount DEF NoPush, Pushes, Revisions
    <2>2. new \in Pushes
      BY <1>1, <1>4, <2>1 DEF Pushes
    <2>3. push' \in [Connections -> Pushes] /\ document' \in [online : BOOLEAN, id : 0 .. MaxUpdates]
      BY <1>1, <1>2, <2>2 DEF PresenceTypeOK
    <2>4. QED
      BY <1>1, <1>2, <2>3 DEF SetPresence, PresenceTypeOK
  <1>6. Dated'
    <2>1. new.revision <= revision + 1
      BY <1>4 DEF NoPush, Dated
    <2>2. \A d \in Connections : push'[d].revision <= revision + 1
      BY <1>1, <1>3, <2>1 DEF Dated, PresenceTypeOK, Pushes, Revisions
    <2>3. QED
      BY <1>2, <2>2 DEF SetPresence, Dated, PresenceTypeOK, Revisions
  <1>7. Serving' /\ Carried'
    <2>2. Carried'
      BY <1>1, <1>2, <1>3 DEF Carried
    <2>3. stage' = [stage EXCEPT ![c] = "reply"] /\ UNCHANGED endpoints
      BY <1>2
    <2>4. Serving'
      BY <1>1, <2>3 DEF Serving, PresenceTypeOK, SetPresence
    <2>5. QED
      BY <2>2, <2>4
  <1>8. Locked'
    BY <1>1, <1>3 DEF SetPresence, Locked, PresenceTypeOK
  <1>9. Truthful'
    <2> SUFFICES ASSUME NEW d \in Connections, push'[d] # NoPush, push'[d].revision = revision + 1
                 PROVE  /\ push'[d].document = document'.id
                        /\ push'[d].online => document'.online /\ online
                        /\ Trusted(d)' => push'[d].online = (document'.online /\ online)
      BY <1>2 DEF Truthful
    <2>1. d = c
      BY <1>3 DEF Dated, PresenceTypeOK, Pushes, Revisions
    <2>2. Trusted(c)' => Connected
      BY <1>1, <1>2 DEF Trusted
    <2>3. push'[c] = new /\ document'.id = document.id + 1
      BY <1>2, <1>3
    <2>4. QED
      BY <1>4, <2>1, <2>2, <2>3
  <1>10. Budget'
    <2>1. Unspent' = Unspent
      BY <1>1, <1>2 DEF Unspent, Serving, SetPresence, PresenceTypeOK
    <2>2. QED
      BY <1>1, <1>2, <2>1 DEF Budget
  <1>11. QED
    BY <1>5, <1>6, <1>7, <1>8, <1>9, <1>10

LEMMA SetPresenceThrowsInv ==
    ASSUME PresenceInv, NEW c \in Publishers, NEW online \in BOOLEAN, SetPresenceThrows(c, online)
    PROVE  PresenceInv'
  <1> USE PresenceAssumption DEF PresenceInv, store, work, clients, lease, Revised
  <1>1. /\ c \in Connections /\ c \in endpoints /\ c \in Unspent
        /\ Trusted(c) => Connected
        /\ revision + 1 \in Revisions /\ document.id + 1 \in 0 .. MaxUpdates
        /\ revision + 1 + Cardinality(Unspent) <= document.id + 1 + Cardinality(Publishers)
    BY ServesPublisher, UpdateFits DEF SetPresenceThrows
  <1>2. PresenceTypeOK'
    BY <1>1 DEF SetPresenceThrows, Fails, PresenceTypeOK
  <1>3. Dated'
    BY DEF SetPresenceThrows, Dated, PresenceTypeOK, Pushes, Revisions
  <1>4. Serving' /\ Carried'
    BY <1>1 DEF SetPresenceThrows, Serving, Carried, PresenceTypeOK
  <1>5. Locked'
    BY <1>1 DEF SetPresenceThrows, Locked, PresenceTypeOK
  <1>6. Truthful'
    BY DEF SetPresenceThrows, Truthful
  <1>7. Budget'
    <2>1. Unspent' = Unspent
      BY <1>1 DEF Unspent, Serving, SetPresenceThrows, PresenceTypeOK
    <2>2. QED
      BY <1>1, <2>1 DEF Budget, SetPresenceThrows
  <1>8. QED
    BY <1>2, <1>3, <1>4, <1>5, <1>6, <1>7

\* The end of a publisher's connection is paid for by the connection.
LEMMA EndFits ==
    ASSUME PresenceInv, NEW c \in Connections, stage[c] = "leaving",
           stage' = [stage EXCEPT ![c] = "retire"], UNCHANGED <<endpoints, document>>,
           revision' = revision \/ (c \in Publishers /\ revision' = revision + 1)
    PROVE  Budget' /\ revision' \in Revisions
  <1> USE PresenceAssumption DEF PresenceInv
  <1>1. /\ revision \in Nat /\ Unspent \in SUBSET Publishers
        /\ document.id \in 0 .. MaxUpdates
    BY DEF Dated, Unspent, PresenceTypeOK
  <1>2. /\ Cardinality(Unspent) \in Nat /\ Cardinality(Publishers) \in Nat
        /\ IsFiniteSet(Unspent)
    BY <1>1, PublishersCount
  <1>3. Unspent' = Unspent \ {c}
    BY DEF Unspent, Serving, PresenceTypeOK
  <1>4. revision' + Cardinality(Unspent \ {c}) <= document.id + Cardinality(Publishers)
    <2>1. CASE c \in Publishers
      <3>1. c \in Unspent
        BY <2>1 DEF Unspent
      <3>2. Cardinality(Unspent \ {c}) = Cardinality(Unspent) - 1
        BY <1>2, <3>1, FS_RemoveElement
      <3>3. QED
        BY <1>1, <1>2, <3>2 DEF Budget
    <2>2. CASE c \notin Publishers
      <3>1. Unspent \ {c} = Unspent
        BY <2>2 DEF Unspent
      <3>2. QED
        BY <2>2, <3>1 DEF Budget
    <2>3. QED
      BY <2>1, <2>2
  <1>5. Budget'
    BY <1>3, <1>4 DEF Budget
  <1>6. Unspent \ {c} \in SUBSET Publishers /\ revision' \in Nat
    BY <1>1
  <1>7. QED
    BY <1>1, <1>4, <1>5, <1>6, BudgetFits

LEMMA DisconnectInv ==
    ASSUME PresenceInv, NEW c \in Connections, Disconnect(c)
    PROVE  PresenceInv'
  <1> USE PresenceAssumption DEF PresenceInv, store, work, clients, lease, Revised
  <1> DEFINE new == Notified(revision + 1, document, FALSE)
  <1>1. /\ stage[c] = "leaving" /\ stage' = [stage EXCEPT ![c] = "retire"]
        /\ UNCHANGED <<document, endpoints, valid, reply, targets, writing, holder, writer, heard,
                       told>>
    BY DEF Disconnect
  \* What the end of a connection may do to the publication.
  <1>2. \/ /\ UNCHANGED <<revision, push, lost, failures>>
           /\ publishedOnline' = publishedOnline
        \/ /\ c \in Publishers /\ ~publishedOnline' /\ revision' = revision + 1
           /\ push' = [push EXCEPT ![c] = new]
           /\ UNCHANGED <<lost, failures>>
        \/ /\ c \in Publishers /\ ~publishedOnline' /\ lost' = revision /\ Fails
           /\ UNCHANGED <<revision, push>>
    <2>1. CASE endpoints \cap Peers(c) \cap valid # {}
      BY <2>1 DEF Disconnect, Peers, PresenceTypeOK
    <2>2. CASE endpoints \cap Peers(c) \cap valid = {} /\ c \in Subscribers
      BY <2>2 DEF Disconnect, Disconnected, Connections
    <2>3. CASE endpoints \cap Peers(c) \cap valid = {} /\ c \notin Subscribers
      BY <2>3 DEF Disconnect, Disconnected, Connections, PresenceTypeOK
    <2>4. QED
      BY <2>1, <2>2, <2>3
  <1>3. \/ new = NoPush
        \/ /\ new \in [revision : Nat, online : BOOLEAN, document : 0 .. MaxUpdates]
           /\ new.revision = revision + 1 /\ new.document = document.id /\ ~new.online
    <2>1. \A published \in BOOLEAN : ~published =>
              LET pushed == Notified(revision + 1, document, published) IN
              \/ pushed = NoPush
              \/ /\ pushed \in [revision : Nat, online : BOOLEAN, document : 0 .. MaxUpdates]
                 /\ pushed.revision = revision + 1 /\ pushed.document = document.id /\ ~pushed.online
      BY DEF Notified, Push, Presence, Connected, Dated, PresenceTypeOK
    <2>2. FALSE \in BOOLEAN /\ ~FALSE
      OBVIOUS
    <2>3. QED
      BY <2>1, <2>2, Zenon
  <1> HIDE DEF new
  <1>4. Budget' /\ revision' \in Revisions
    BY <1>1, <1>2, EndFits
  <1>5. PresenceTypeOK'
    <2>1. NoPush \in Pushes
      BY PublishersCount DEF NoPush, Pushes, Revisions
    <2>2. revision' = revision + 1 => new \in Pushes
      BY <1>4, <1>3, <2>1 DEF Pushes, PresenceTypeOK
    <2>3. push' \in [Connections -> Pushes]
      BY <1>2, <2>2 DEF PresenceTypeOK
    <2>4. lost' \in Revisions /\ failures' \in 0 .. MaxFailures
      BY <1>2 DEF Fails, PresenceTypeOK
    <2>5. /\ publishedOnline' \in BOOLEAN /\ subscribed' \in BOOLEAN
          /\ follows' \subseteq Subscribers
      BY DEF Disconnect, Disconnected, PresenceTypeOK
    <2>6. QED
      BY <1>1, <1>4, <2>3, <2>4, <2>5 DEF PresenceTypeOK
  <1>6. revision' \in Nat /\ revision' >= revision
    BY <1>2 DEF Dated
  <1>7. Dated'
    <2>1. new.revision <= revision + 1
      BY <1>3 DEF NoPush, Dated
    <2>2. \A d \in Connections : push'[d].revision <= revision'
      BY <1>2, <2>1 DEF Dated, PresenceTypeOK, Pushes, Revisions
    <2>3. lost' <= revision'
      BY <1>2, <1>6 DEF Dated, PresenceTypeOK, Revisions
    <2>4. QED
      BY <1>1, <1>6, <2>2, <2>3 DEF Dated, PresenceTypeOK, Revisions
  <1>8. Serving'
    BY <1>1 DEF Serving, PresenceTypeOK
  <1>9. Carried'
    <2>1. CASE push' = push
      BY <1>1, <2>1 DEF Carried
    <2>2. CASE c \in Publishers /\ push' = [push EXCEPT ![c] = new]
      <3>1. new # NoPush => ~new.online
        BY <1>3
      <3>2. \A d \in Connections : push'[d] = IF d = c THEN new ELSE push[d]
        BY <2>2 DEF PresenceTypeOK
      <3>3. QED
        BY <1>1, <2>2, <3>1, <3>2 DEF Carried
    <2>3. QED
      BY <1>2, <2>1, <2>2
  <1>10. Locked'
    BY <1>1, <1>2 DEF Locked, PresenceTypeOK
  <1>11. Truthful'
    <2> SUFFICES ASSUME NEW d \in Connections, push'[d] # NoPush, push'[d].revision = revision',
                        lost' # revision'
                 PROVE  /\ push'[d].document = document'.id
                        /\ push'[d].online => document'.online /\ publishedOnline'
                        /\ Trusted(d)' =>
                               push'[d].online = (document'.online /\ publishedOnline')
      BY DEF Truthful
    <2>1. CASE UNCHANGED <<revision, push, lost>> /\ publishedOnline' = publishedOnline
      BY <1>1, <2>1 DEF Truthful, Trusted
    <2>2. CASE /\ ~publishedOnline' /\ revision' = revision + 1
               /\ push' = [push EXCEPT ![c] = new]
      <3>1. d = c
        BY <2>2 DEF Dated, PresenceTypeOK, Pushes, Revisions
      <3>2. push'[d] = new
        BY <2>2, <3>1 DEF PresenceTypeOK
      <3>3. QED
        BY <1>1, <1>3, <2>2, <3>2
    <2>3. QED
      BY <1>2, <2>1, <2>2
  <1>12. QED
    BY <1>4, <1>5, <1>7, <1>8, <1>9, <1>10, <1>11

LEMMA PresenceNextInv ==
    ASSUME PresenceInv, [PresenceNext]_presenceVars
    PROVE  PresenceInv'
  <1>1. CASE UNCHANGED presenceVars
    BY <1>1 DEF presenceVars, store, work, clients, lease, PresenceInv, PresenceTypeOK, Dated, Serving,
                Carried, Locked, Truthful, Trusted, Budget, Unspent
  <1>2. ASSUME NEW c \in Connections,
               Connect(c) \/ Expire(c) \/ LeaveServe(c) \/ Continue(c)
        PROVE  PresenceInv'
    BY <1>2, ConnectInv, ExpireInv, LeaveServeInv, ReplyInv, DisconnectInv, RetireInv, RouteInv,
       DeliveredInv, ValidateInv, WriteInv DEF Continue
  <1>3. ASSUME NEW c \in Publishers, NEW online \in BOOLEAN,
               SetPresence(c, online) \/ SetPresenceThrows(c, online)
        PROVE  PresenceInv'
    BY <1>3, SetPresenceInv, SetPresenceThrowsInv
  <1>4. ASSUME NEW c \in Connections, c \in Subscribers, Subscribe(c) \/ Unsubscribe(c)
        PROVE  PresenceInv'
    BY <1>4, SubscribeInv, UnsubscribeInv
  <1>5. QED
    BY <1>1, <1>2, <1>3, <1>4 DEF PresenceNext

LEMMA PresenceInvariant == PresenceSpec => []PresenceInv
  <1>1. PresenceInit => PresenceInv
    BY PresenceInitInv
  <1>2. PresenceInv /\ [PresenceNext]_presenceVars => PresenceInv'
    BY PresenceNextInv
  <1>3. QED
    BY <1>1, <1>2, PTL DEF PresenceSpec

\* The variables of the presence and of its pushes keep their types: the revisions stay within
\* an update for each document and an end for each connection of the player.
THEOREM PresenceTypeCorrect == PresenceSpec => []PresenceTypeOK
  <1>1. PresenceInv => PresenceTypeOK
    BY DEF PresenceInv
  <1>2. QED
    BY <1>1, PresenceInvariant, PTL

\* A push that Validate would let through holds the presence published last, whatever updates,
\* ends of connections and of sessions came between its making and its delivery; while its
\* publisher's session lasts it says what presenceOf answers.
THEOREM TruthfulPushes == PresenceSpec => []PushesTrue
  <1>1. PresenceInv => PushesTrue
    <2> SUFFICES ASSUME PresenceInv, NEW c \in Connections,
                        push[c] # NoPush, push[c].revision = revision, lost # revision
                 PROVE  /\ push[c].document = document.id
                        /\ push[c].online => document.online /\ publishedOnline
                        /\ push[c].online = Presence(document, publishedOnline).online
                           \/ c \in endpoints \ valid
      BY DEF PushesTrue
    <2>1. /\ push[c].document = document.id
          /\ push[c].online => document.online /\ publishedOnline
          /\ Trusted(c) => push[c].online = (document.online /\ publishedOnline)
      BY DEF PresenceInv, Truthful
    <2>2. c \in Publishers /\ (c \notin endpoints => ~push[c].online)
      BY DEF PresenceInv, Carried
    <2>3. c \in endpoints \cap valid => Connected
      BY <2>2 DEF Connected
    <2>4. Presence(document, publishedOnline).online
              = (document.online /\ publishedOnline /\ Connected)
      BY DEF Presence
    <2>5. push[c].online \in BOOLEAN
      BY DEF PresenceInv, PresenceTypeOK, Pushes
    <2>6. QED
      BY <2>1, <2>2, <2>3, <2>4, <2>5 DEF Trusted
  <1>2. QED
    BY <1>1, PresenceInvariant, PTL

\* No subscriber is written an older presence after a newer one, however many connections of
\* the player deliver at once.
THEOREM OrderedPushes == PresenceSpec => PushesInOrder
  <1>1. ASSUME PresenceInv, [PresenceNext]_presenceVars, NEW s \in Subscribers
        PROVE  heard'[s] >= heard[s]
    <2>1. heard[s] \in Nat
      BY <1>1, PublishersCount, PresenceAssumption
         DEF PresenceInv, PresenceTypeOK, Connections, Revisions
    <2>2. CASE heard' = heard
      BY <2>1, <2>2
    <2>3. ASSUME NEW c \in Connections, Write(c), heard' # heard
          PROVE  heard'[s] >= heard[s]
      <3>1. heard' = [heard EXCEPT ![writing[c]] = push[c].revision]
        BY <2>3 DEF Write
      <3>2. heard[writing[c]] <= push[c].revision /\ push[c].revision \in Nat
        BY <1>1, <2>3, PublishersCount, PresenceAssumption
           DEF Write, PresenceInv, Locked, PresenceTypeOK, Pushes, Revisions
      <3>3. QED
        BY <1>1, <2>1, <3>1, <3>2 DEF PresenceInv, PresenceTypeOK, Connections
    <2>4. QED
      BY <1>1, <2>2, <2>3 DEF PresenceNext, Continue, Connect, LeaveServe, Reply, Disconnect,
         Retire, Route, Delivered, Validate, SetPresence, SetPresenceThrows, Subscribe,
         Unsubscribe, Expire, presenceVars, clients
  <1>2. PresenceInv /\ [PresenceNext]_presenceVars
        => [\A s \in Subscribers : heard'[s] >= heard[s]]_presenceVars
    BY <1>1
  <1>3. QED
    BY <1>2, PresenceInvariant, PTL DEF PresenceSpec, PushesInOrder

-----------------------------------------------------------------------------
(* That no update is forgotten *)

\* A subscription that stands belongs to a registered connection.
Standing == follows \subseteq endpoints /\ (follows # {} => subscribed)

Newer(s) == told[s] >= revision \/ lost >= revision \/ (stage[s] = "reply" /\ reply[s] >= revision)

DeliveryInv == PresenceInv /\ Standing /\ NothingForgotten

\* A step that makes no revision forgets none, when what was told and given up remains and
\* the carriers still carry.
LEMMA Remembered ==
    ASSUME NothingForgotten, UNCHANGED revision,
           \A s \in Listening' :
               \/ Newer(s)'
               \/ /\ s \in Listening
                  /\ Newer(s) => Newer(s)'
                  /\ \A c \in Connections : Carries(c, s) => Carries(c, s)' \/ Newer(s)'
    PROVE  NothingForgotten'
  BY DEF NothingForgotten, Newer

LEMMA RevisionTypes ==
    ASSUME PresenceInv
    PROVE  /\ revision \in Nat /\ lost \in Nat
           /\ \A c \in Connections : /\ told[c] \in Nat /\ reply[c] \in Nat
                                     /\ push[c].revision \in Nat
  BY PublishersCount, PresenceAssumption
     DEF PresenceInv, PresenceTypeOK, Dated, Revisions, Pushes

LEMMA ConnectForgets ==
    ASSUME DeliveryInv, NEW c \in Connections, Connect(c)
    PROVE  Standing' /\ NothingForgotten'
  <1>1. /\ c \notin follows /\ UNCHANGED <<store, work, told, follows, lost>>
        /\ writer' \subseteq writer \cup {c} /\ valid' \subseteq valid \cup {c}
        /\ endpoints \subseteq endpoints'
        /\ stage[c] = "away" /\ stage' = [stage EXCEPT ![c] = "idle"]
    BY DEF DeliveryInv, PresenceInv, Serving, Standing, Connect
  <1>2. \A d, s \in Connections : Carries(d, s) => Carries(d, s)'
    BY <1>1 DEF Carries, store, work, DeliveryInv, PresenceInv, PresenceTypeOK
  <1>3. \A s \in Connections : Newer(s) => Newer(s)'
    BY <1>1 DEF Newer, store, work, DeliveryInv, PresenceInv, PresenceTypeOK
  <1>4. follows \subseteq Connections
    BY DEF DeliveryInv, PresenceInv, PresenceTypeOK, Connections
  <1>5. NothingForgotten'
    BY <1>1, <1>2, <1>3, <1>4, Remembered DEF DeliveryInv, store, Listening
  <1> QED
    BY <1>1, <1>5 DEF DeliveryInv, Standing, store

LEMMA ExpireForgets ==
    ASSUME DeliveryInv, NEW c \in Connections, Expire(c)
    PROVE  Standing' /\ NothingForgotten'
  <1>1. /\ UNCHANGED <<store, endpoints, work, writer, told, follows, lost>>
        /\ valid' \subseteq valid
        /\ stage' = stage \/ (stage[c] = "idle" /\ stage' = [stage EXCEPT ![c] = "late"])
    BY DEF Expire, clients
  <1>2. \A d, s \in Connections : Carries(d, s) => Carries(d, s)'
    BY <1>1 DEF Carries, store, work, DeliveryInv, PresenceInv, PresenceTypeOK
  <1>3. \A s \in Connections : Newer(s) => Newer(s)'
    BY <1>1 DEF Newer, store, work, DeliveryInv, PresenceInv, PresenceTypeOK
  <1>4. follows \subseteq Connections
    BY DEF DeliveryInv, PresenceInv, PresenceTypeOK, Connections
  <1>5. NothingForgotten'
    BY <1>1, <1>2, <1>3, <1>4, Remembered DEF DeliveryInv, store, Listening
  <1> QED
    BY <1>1, <1>5 DEF DeliveryInv, Standing, store

\* A presence is carried by the thread that published it.
LEMMA SetPresenceForgets ==
    ASSUME DeliveryInv, NEW c \in Publishers, NEW online \in BOOLEAN, SetPresence(c, online)
    PROVE  Standing' /\ NothingForgotten'
  <1>1. Standing /\ revision \in Nat /\ c \in Connections /\ PresenceTypeOK
    BY RevisionTypes DEF DeliveryInv, PresenceInv, Connections
  <1>2. /\ revision' = revision + 1 /\ stage' = [stage EXCEPT ![c] = "reply"]
        /\ push' = [push EXCEPT ![c] = Notified(revision + 1, document', online)]
        /\ UNCHANGED <<subscribed, endpoints, follows, writer>>
    BY DEF SetPresence, clients, lease, Revised
  <1>3. stage'[c] = "reply" /\ push'[c] = Notified(revision + 1, document', online)
    BY <1>1, <1>2 DEF PresenceTypeOK
  <1>4. ASSUME subscribed PROVE \A s : Carries(c, s)'
    <2>1. push'[c].revision = revision + 1
      BY <1>3, <1>4 DEF Notified, Push
    <2>2. push'[c] # NoPush
      BY <1>1, <2>1 DEF NoPush
    <2> QED
      BY <1>2, <1>3, <2>1, <2>2 DEF Carries
  <1> QED
    BY <1>1, <1>2, <1>4 DEF Standing, NothingForgotten, Listening

LEMMA SetPresenceThrowsForgets ==
    ASSUME DeliveryInv, NEW c \in Publishers, NEW online \in BOOLEAN,
           SetPresenceThrows(c, online)
    PROVE  Standing' /\ NothingForgotten'
  BY RevisionTypes
     DEF DeliveryInv, SetPresenceThrows, Standing, NothingForgotten, Listening, Revised, clients, lease

LEMMA SubscribeForgets ==
    ASSUME DeliveryInv, NEW c \in Subscribers, Subscribe(c)
    PROVE  Standing' /\ NothingForgotten'
  <1>1. /\ c \in Connections /\ c \in endpoints /\ revision \in Nat
        /\ PresenceTypeOK /\ Standing /\ NothingForgotten
    BY RevisionTypes DEF DeliveryInv, PresenceInv, Serving, Subscribe, Dispatched, Connections
  <1>2. /\ stage[c] \in {"idle", "late"} /\ stage' = [stage EXCEPT ![c] = "reply"]
        /\ reply' = [reply EXCEPT ![c] = revision]
        /\ follows' = follows \cup {c} /\ subscribed'
        /\ UNCHANGED <<revision, lease, push, targets, told, writer, lost>>
    BY DEF Subscribe, Dispatched, lease
  <1>3. Newer(c)'
    BY <1>1, <1>2 DEF Newer, PresenceTypeOK
  <1>4. ASSUME NEW s \in Connections, s # c
        PROVE  Newer(s) => Newer(s)'
    BY <1>1, <1>2, <1>4 DEF Newer, PresenceTypeOK
  <1>5. \A d, s \in Connections : Carries(d, s) => Carries(d, s)'
    BY <1>1, <1>2 DEF Carries, PresenceTypeOK
  <1>6. follows \subseteq Connections
    BY <1>1 DEF PresenceTypeOK, Connections
  <1>7. NothingForgotten'
    BY <1>1, <1>2, <1>3, <1>4, <1>5, <1>6, Remembered DEF Listening, lease
  <1> QED
    BY <1>1, <1>2, <1>7 DEF Standing, lease

LEMMA UnsubscribeForgets ==
    ASSUME DeliveryInv, NEW c \in Subscribers, Unsubscribe(c)
    PROVE  Standing' /\ NothingForgotten'
  BY DEF Unsubscribe, Standing, NothingForgotten, Listening

LEMMA ReplyForgets ==
    ASSUME DeliveryInv, NEW c \in Connections, Reply(c)
    PROVE  Standing' /\ NothingForgotten'
  <1>1. PresenceTypeOK /\ Standing /\ NothingForgotten
    BY DEF DeliveryInv, PresenceInv
  <1>2. /\ stage[c] = "reply"
        /\ stage' = [stage EXCEPT ![c] = IF push[c] = NoPush THEN "idle" ELSE "route"]
        /\ told' = [told EXCEPT ![c] = Newest(told[c], reply[c])]
        /\ reply' = [reply EXCEPT ![c] = 0]
        /\ UNCHANGED <<store, lease, push, targets, writer, follows, lost>>
    BY DEF Reply
  <1>3. UNCHANGED <<revision, subscribed>>
    BY <1>2 DEF store
  <1>4. ASSUME NEW s \in Connections, Newer(s) PROVE Newer(s)'
    <2>1. CASE s = c
      <3>1. told'[c] = Newest(told[c], reply[c])
        BY <1>1, <1>2 DEF PresenceTypeOK
      <3>2. told[c] \in Nat /\ reply[c] \in Nat /\ revision \in Nat
        BY RevisionTypes DEF DeliveryInv
      <3>3. told[c] >= revision \/ reply[c] >= revision => told'[c] >= revision
        BY <3>1, <3>2 DEF Newest
      <3> QED
        BY <1>2, <1>3, <1>4, <2>1, <3>3 DEF Newer
    <2>2. CASE s # c
      BY <1>1, <1>2, <1>3, <1>4, <2>2 DEF Newer, PresenceTypeOK
    <2> QED
      BY <2>1, <2>2
  <1>5. ASSUME NEW d \in Connections, NEW s \in Connections, Carries(d, s)
        PROVE  Carries(d, s)'
    BY <1>1, <1>2, <1>3, <1>5 DEF Carries, PresenceTypeOK
  <1>6. follows \subseteq Connections
    BY <1>1 DEF PresenceTypeOK, Connections
  <1>7. NothingForgotten'
    BY <1>1, <1>2, <1>3, <1>4, <1>5, <1>6, Remembered DEF Listening, lease
  <1> QED
    BY <1>1, <1>2, <1>3, <1>7 DEF Standing, lease

\* A thread that leaves serve drops what it carries, and marks it as given up.
LEMMA LeaveServeForgets ==
    ASSUME DeliveryInv, NEW c \in Connections, LeaveServe(c)
    PROVE  Standing' /\ NothingForgotten'
  <1>1. PresenceTypeOK /\ Standing /\ NothingForgotten
    BY DEF DeliveryInv, PresenceInv
  <1>2. /\ stage' = [stage EXCEPT ![c] = "leaving"]
        /\ reply' = [reply EXCEPT ![c] = 0] /\ push' = [push EXCEPT ![c] = NoPush]
        /\ lost' = GivenUp(push[c].revision)
        /\ endpoints' = endpoints \ {c} /\ follows' = follows \ {c}
        /\ UNCHANGED <<store, valid, targets, writer, told>>
    BY DEF LeaveServe
  <1>3. UNCHANGED <<revision, subscribed>> /\ lost' \in {lost, revision}
        /\ (push[c].revision = revision => lost' = revision)
    BY <1>2 DEF store, GivenUp
  <1>4. revision \in Nat /\ lost \in Nat
    BY RevisionTypes DEF DeliveryInv
  <1>5. ASSUME NEW s \in Connections, s # c, Newer(s) PROVE Newer(s)'
    BY <1>1, <1>2, <1>3, <1>4, <1>5 DEF Newer, PresenceTypeOK
  <1>6. ASSUME NEW d \in Connections, NEW s \in Connections, Carries(d, s)
        PROVE  Carries(d, s)' \/ Newer(s)'
    <2>1. CASE d = c
      <3>1. lost' >= revision'
        BY <1>3, <1>4, <1>6, <2>1 DEF Carries
      <3> QED
        BY <3>1 DEF Newer
    <2>2. CASE d # c
      BY <1>1, <1>2, <1>3, <1>6, <2>2 DEF Carries, PresenceTypeOK
    <2> QED
      BY <2>1, <2>2
  <1>7. follows \subseteq Connections
    BY <1>1 DEF PresenceTypeOK, Connections
  <1>8. NothingForgotten'
    BY <1>1, <1>2, <1>3, <1>5, <1>6, <1>7, Remembered DEF Listening, lease
  <1> QED
    BY <1>1, <1>2, <1>3, <1>8 DEF Standing, lease

\* The end of the publisher's last connection is a new presence, which its thread carries; the
\* end of the subscriber's leaves nobody to tell.
LEMMA DisconnectForgets ==
    ASSUME DeliveryInv, NEW c \in Connections, Disconnect(c)
    PROVE  Standing' /\ NothingForgotten'
  <1>1. /\ PresenceTypeOK /\ Standing /\ NothingForgotten /\ revision \in Nat /\ lost \in Nat
    BY RevisionTypes DEF DeliveryInv, PresenceInv
  <1>2. /\ stage[c] = "leaving" /\ stage' = [stage EXCEPT ![c] = "retire"]
        /\ UNCHANGED <<endpoints, valid, reply, targets, told, writer>>
    BY DEF Disconnect, lease
  <1>3. stage'[c] = "retire"
    BY <1>1, <1>2 DEF PresenceTypeOK
  <1>4. \/ UNCHANGED <<revision, push, lost>>
        \/ /\ revision' = revision + 1
           /\ push' = [push EXCEPT ![c] = Notified(revision + 1, document, FALSE)]
        \/ lost' = revision /\ UNCHANGED revision
    BY DEF Disconnect, Disconnected, Revised
  <1>5. UNCHANGED <<subscribed, follows>> \/ follows' = {}
    <2>1. CASE endpoints \cap Peers(c) \cap valid # {}
      BY <2>1 DEF Disconnect
    <2>2. CASE endpoints \cap Peers(c) \cap valid = {}
      BY <2>2 DEF Disconnect, Disconnected
    <2> QED
      BY <2>1, <2>2
  <1>6. follows' \subseteq follows /\ (follows' # {} => subscribed /\ UNCHANGED subscribed)
    BY <1>1, <1>5 DEF Standing
  <1>7. Standing'
    BY <1>1, <1>2, <1>6 DEF Standing
  <1>8. follows \subseteq Connections
    BY <1>1 DEF PresenceTypeOK, Connections
  <1>9. CASE UNCHANGED <<revision, push, lost>>
    <2>1. ASSUME NEW s \in Connections, Newer(s) PROVE Newer(s)'
      BY <1>1, <1>2, <1>9, <2>1 DEF Newer, PresenceTypeOK
    <2>2. ASSUME NEW d \in Connections, NEW s \in Connections, Carries(d, s)
          PROVE  Carries(d, s)'
      BY <1>1, <1>2, <1>9, <2>2 DEF Carries, PresenceTypeOK
    <2>3. NothingForgotten'
      BY <1>1, <1>2, <1>6, <1>8, <1>9, <2>1, <2>2, Remembered DEF Listening, lease
    <2> QED
      BY <1>7, <2>3
  <1>10. CASE lost' = revision /\ UNCHANGED revision
    BY <1>1, <1>7, <1>10 DEF NothingForgotten
  <1>11. ASSUME revision' = revision + 1,
                push' = [push EXCEPT ![c] = Notified(revision + 1, document, FALSE)]
         PROVE  NothingForgotten'
    <2>1. push'[c] = Notified(revision + 1, document, FALSE)
      BY <1>1, <1>11 DEF PresenceTypeOK
    <2>2. ASSUME subscribed PROVE push'[c].revision = revision + 1
      <3>1. \A published \in BOOLEAN :
                Notified(revision + 1, document, published).revision = revision + 1
        BY <2>2 DEF Notified, Push
      <3>2. FALSE \in BOOLEAN
        OBVIOUS
      <3>3. Notified(revision + 1, document, FALSE).revision = revision + 1
        BY <3>1, <3>2, Zenon
      <3> QED
        BY <2>1, <3>3
    <2>3. ASSUME subscribed PROVE push'[c] # NoPush
      BY <1>1, <2>2, <2>3 DEF NoPush
    <2>4. ASSUME subscribed, NEW s PROVE Carries(c, s)'
      BY <1>3, <1>11, <2>2, <2>3, <2>4 DEF Carries
    <2> QED
      BY <1>2, <1>6, <2>4 DEF NothingForgotten, Listening
  <1> QED
    BY <1>4, <1>7, <1>9, <1>10, <1>11

LEMMA RetireForgets ==
    ASSUME DeliveryInv, NEW c \in Connections, Retire(c)
    PROVE  Standing' /\ NothingForgotten'
  <1>1. PresenceTypeOK /\ Standing /\ NothingForgotten
    BY DEF DeliveryInv, PresenceInv
  <1>2. /\ stage[c] = "retire"
        /\ stage' = [stage EXCEPT ![c] = IF push[c] = NoPush THEN "gone" ELSE "route"]
        /\ writer' = writer \ {c}
        /\ UNCHANGED <<revision, subscribed, lease, push, reply, targets, told, follows, lost>>
    BY DEF Retire, store, work
  <1>3. ASSUME NEW s \in Connections, Newer(s) PROVE Newer(s)'
    BY <1>1, <1>2, <1>3 DEF Newer, PresenceTypeOK
  <1>4. ASSUME NEW d \in Connections, NEW s \in Connections, Carries(d, s) PROVE Carries(d, s)'
    BY <1>1, <1>2, <1>4 DEF Carries, PresenceTypeOK
  <1>5. follows \subseteq Connections
    BY <1>1 DEF PresenceTypeOK, Connections
  <1>6. NothingForgotten'
    BY <1>1, <1>2, <1>3, <1>4, <1>5, Remembered DEF Listening, lease
  <1> QED
    BY <1>1, <1>2, <1>6 DEF Standing, lease

\* The connections that are selected include every one that follows.
LEMMA RouteForgets ==
    ASSUME DeliveryInv, NEW c \in Connections, Route(c)
    PROVE  Standing' /\ NothingForgotten'
  <1>1. PresenceTypeOK /\ Standing /\ NothingForgotten
    BY DEF DeliveryInv, PresenceInv
  <1>2. /\ stage[c] = "route" /\ stage' = [stage EXCEPT ![c] = "deliver"]
        /\ targets' = [targets EXCEPT ![c] = endpoints \cap Subscribers]
        /\ UNCHANGED <<revision, subscribed, lease, push, reply, told, follows, writer, lost>>
    BY DEF Route, store, clients
  <1>3. follows \subseteq endpoints \cap Subscribers /\ follows \subseteq Connections
    BY <1>1 DEF Standing, PresenceTypeOK, Connections
  <1>4. ASSUME NEW s \in Connections, Newer(s) PROVE Newer(s)'
    BY <1>1, <1>2, <1>4 DEF Newer, PresenceTypeOK
  <1>5. ASSUME NEW d \in Connections, NEW s \in follows, Carries(d, s) PROVE Carries(d, s)'
    BY <1>1, <1>2, <1>3, <1>5 DEF Carries, PresenceTypeOK
  <1>6. NothingForgotten'
    BY <1>1, <1>2, <1>3, <1>4, <1>5, Remembered DEF Listening, lease
  <1> QED
    BY <1>1, <1>2, <1>6 DEF Standing, lease

LEMMA DeliveredForgets ==
    ASSUME DeliveryInv, NEW c \in Connections, Delivered(c)
    PROVE  Standing' /\ NothingForgotten'
  <1>1. PresenceTypeOK /\ Standing /\ NothingForgotten
    BY DEF DeliveryInv, PresenceInv
  <1>2. /\ stage[c] = "deliver" /\ stage' = [stage EXCEPT ![c] = Rest(c)]
        /\ targets[c] = {} \/ push[c].revision # revision
        /\ push' = [push EXCEPT ![c] = NoPush] /\ targets' = [targets EXCEPT ![c] = {}]
        /\ UNCHANGED <<revision, subscribed, lease, reply, told, follows, writer, lost>>
    BY DEF Delivered, store, clients
  <1>3. follows \subseteq Connections
    BY <1>1 DEF PresenceTypeOK, Connections
  <1>4. ASSUME NEW s \in Connections, Newer(s) PROVE Newer(s)'
    BY <1>1, <1>2, <1>4 DEF Newer, PresenceTypeOK
  <1>5. ASSUME NEW d \in Connections, NEW s \in Connections, Carries(d, s) PROVE Carries(d, s)'
    <2>1. d # c
      BY <1>2, <1>5 DEF Carries
    <2> QED
      BY <1>1, <1>2, <1>5, <2>1 DEF Carries, PresenceTypeOK
  <1>6. NothingForgotten'
    BY <1>1, <1>2, <1>3, <1>4, <1>5, Remembered DEF Listening, lease
  <1> QED
    BY <1>1, <1>2, <1>6 DEF Standing, lease

LEMMA ValidateForgets ==
    ASSUME DeliveryInv, NEW c \in Connections, Validate(c)
    PROVE  Standing' /\ NothingForgotten'
  <1>1. PresenceTypeOK /\ Standing /\ NothingForgotten
    BY DEF DeliveryInv, PresenceInv
  <1>2. /\ stage[c] = "deliver" /\ stage' = [stage EXCEPT ![c] = "write"]
        /\ UNCHANGED <<revision, subscribed, lease, push, targets, reply, told, follows,
                       writer, lost>>
    BY DEF Validate, store, clients
  <1>3. follows \subseteq Connections
    BY <1>1 DEF PresenceTypeOK, Connections
  <1>4. ASSUME NEW s \in Connections, Newer(s) PROVE Newer(s)'
    BY <1>1, <1>2, <1>4 DEF Newer, PresenceTypeOK
  <1>5. ASSUME NEW d \in Connections, NEW s \in Connections, Carries(d, s) PROVE Carries(d, s)'
    BY <1>1, <1>2, <1>5 DEF Carries, PresenceTypeOK
  <1>6. NothingForgotten'
    BY <1>1, <1>2, <1>3, <1>4, <1>5, Remembered DEF Listening, lease
  <1> QED
    BY <1>1, <1>2, <1>6 DEF Standing, lease

\* The connection that is written to has been told, or is never written to again.
LEMMA WriteForgets ==
    ASSUME DeliveryInv, NEW c \in Connections, Write(c)
    PROVE  Standing' /\ NothingForgotten'
  <1>1. PresenceTypeOK /\ Standing /\ NothingForgotten /\ writing[c] \in Connections
    BY DEF DeliveryInv, PresenceInv, Locked, Write, Connections
  <1> DEFINE w == writing[c]
  <1>2. /\ stage[c] = "write" /\ stage' = [stage EXCEPT ![c] = "deliver"]
        /\ targets' = [targets EXCEPT ![c] = targets[c] \ {w}]
        /\ writer' \subseteq writer
        /\ UNCHANGED <<revision, subscribed, lease, push, reply, follows, lost>>
    BY DEF Write, store
  <1>3. /\ told' = [told EXCEPT ![w] = Newest(told[w], push[c].revision)] \/ told' = told
        /\ w \in writer' \cap valid =>
               told' = [told EXCEPT ![w] = Newest(told[w], push[c].revision)]
    BY DEF Write
  <1> HIDE DEF w
  <1>4. /\ w \in Connections /\ revision \in Nat
        /\ \A s \in Connections : told[s] \in Nat /\ push[s].revision \in Nat
    BY <1>1, RevisionTypes DEF DeliveryInv, w
  <1>5. /\ \A s \in Connections : told'[s] >= told[s] /\ told'[s] \in Nat
        /\ w \in writer' \cap valid => told'[w] >= push[c].revision
    BY <1>1, <1>3, <1>4 DEF Newest, PresenceTypeOK
  <1>6. follows \subseteq Connections
    BY <1>1 DEF PresenceTypeOK, Connections
  <1>7. ASSUME NEW s \in Connections, Newer(s) PROVE Newer(s)'
    BY <1>1, <1>2, <1>4, <1>5, <1>7 DEF Newer, PresenceTypeOK
  <1>8. ASSUME NEW s \in writer' \cap valid, s \in Connections, NEW d \in Connections, Carries(d, s)
        PROVE  Carries(d, s)' \/ Newer(s)'
    <2>1. CASE d = c /\ s = w
      BY <1>2, <1>4, <1>5, <1>8, <2>1 DEF Carries, Newer
    <2>2. CASE d = c /\ s # w
      BY <1>1, <1>2, <1>8, <2>2 DEF Carries, PresenceTypeOK
    <2>3. CASE d # c
      BY <1>1, <1>2, <1>8, <2>3 DEF Carries, PresenceTypeOK
    <2> QED
      BY <2>1, <2>2, <2>3
  <1>9. NothingForgotten'
    BY <1>1, <1>2, <1>6, <1>7, <1>8, Remembered DEF Listening, lease
  <1> QED
    BY <1>1, <1>2, <1>9 DEF Standing, lease

LEMMA DeliveryNext ==
    ASSUME DeliveryInv, [PresenceNext]_presenceVars
    PROVE  DeliveryInv'
  <1>1. PresenceInv'
    BY PresenceNextInv DEF DeliveryInv
  <1>2. CASE UNCHANGED presenceVars
    BY <1>1, <1>2 DEF presenceVars, store, work, clients, lease, DeliveryInv, Standing,
                      NothingForgotten, Listening, Carries
  <1>3. ASSUME NEW c \in Connections,
               Connect(c) \/ Expire(c) \/ LeaveServe(c) \/ Continue(c)
        PROVE  DeliveryInv'
    BY <1>1, <1>3, ConnectForgets, ExpireForgets, LeaveServeForgets, ReplyForgets, DisconnectForgets,
       RetireForgets, RouteForgets, DeliveredForgets, ValidateForgets, WriteForgets
       DEF Continue, DeliveryInv
  <1>4. ASSUME NEW c \in Publishers, NEW online \in BOOLEAN,
               SetPresence(c, online) \/ SetPresenceThrows(c, online)
        PROVE  DeliveryInv'
    BY <1>1, <1>4, SetPresenceForgets, SetPresenceThrowsForgets DEF DeliveryInv
  <1>5. ASSUME NEW c \in Subscribers, Subscribe(c) \/ Unsubscribe(c)
        PROVE  DeliveryInv'
    BY <1>1, <1>5, SubscribeForgets, UnsubscribeForgets DEF DeliveryInv
  <1> QED
    BY <1>2, <1>3, <1>4, <1>5 DEF PresenceNext

\* At every moment the newest presence has reached a subscriber that stays, is on its way to
\* it, or was given up: what the delivery of every update comes down to, for any number of
\* connections, updates and failures.
THEOREM PresenceNotForgotten == PresenceSpec => []NothingForgotten
  <1>1. PresenceInit => DeliveryInv
    BY PresenceInitInv DEF PresenceInit, DeliveryInv, Standing, NothingForgotten
  <1>2. DeliveryInv /\ [PresenceNext]_presenceVars => DeliveryInv'
    BY DeliveryNext
  <1>3. DeliveryInv => NothingForgotten
    BY DEF DeliveryInv
  <1> QED
    BY <1>1, <1>2, <1>3, PTL DEF PresenceSpec
=============================================================================
