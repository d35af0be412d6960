---------------------------- MODULE ServerLocks ----------------------------
(***************************************************************************)
(* The mutexes of the server process and the order its threads take them   *)
(* in: Core/lobby.cpp, Core/services.cpp, Core/platform.cpp and the        *)
(* content streams.  There are a thread for each connection, for each HTTP *)
(* request and for maintenance, the delivery worker and the publication    *)
(* poller.                                                                 *)
(*                                                                         *)
(* Every mutex is held by a lock_guard for a scope, so that what a thread  *)
(* holds is the stack of the scopes it is in, across modules.  A frame of  *)
(* the stack is a scope, the connection that is the thread's own, the      *)
(* connection it writes a push to, and the next scope inside it to be      *)
(* reached.  Conditions may pass scopes over, and a scope may end early (a *)
(* return, an exception); what is done to the data is left out.            *)
(***************************************************************************)
EXTENDS Integers, Sequences

CONSTANTS Threads, Clients, NoClient

ASSUME NoClientAssumption == NoClient \notin Clients

VARIABLES
    stack,      \* the scopes a thread is in, the innermost one last
    waiting     \* the threads that wait for the mutex of the next scope

vars == <<stack, waiting>>

-----------------------------------------------------------------------------
(* Scopes *)

\* What a thread does from the start, holding nothing.  "hosted" is a request of a
\* connection that another server hosts; its other threads are like those of the rest.
Operations == {"request", "hello", "ending", "worker", "publisher", "login", "panel",
               "maintenance", "hosted"}

\* The scopes an operation goes through, in their order.  "service" is any use of the
\* store's mutex by a handler that asks who is online, "endpoints" a snapshot of the
\* connections.  The mutexes that are only ever taken alone are left out.
Hello == <<"reply", "platform", "reply", "connect">>
Request == <<"platform", "service", "reply", "endpoints", "deliver", "endpoints", "queue">>
Ending == <<"disconnect", "retire", "endpoints", "deliver">>
Worker == <<"queue", "deliver">>
Publisher == <<"endpoints", "service", "endpoints", "deliver">>
Login == <<"platform", "restore">>
Panel == <<"online", "platform", "service", "endpoints", "deliver">>
Maintenance == <<"service">>
Hosted == <<"service", "reply", "endpoints", "publish", "endpoints", "deliver">>

Steps(operation) ==
    IF operation = "hello" THEN Hello
    ELSE IF operation = "request" THEN Request
    ELSE IF operation = "ending" THEN Ending
    ELSE IF operation = "worker" THEN Worker
    ELSE IF operation = "publisher" THEN Publisher
    ELSE IF operation = "login" THEN Login
    ELSE IF operation = "panel" THEN Panel
    ELSE IF operation = "hosted" THEN Hosted
    ELSE Maintenance

\* Broken variants: the login restores the progression, the end of a connection routes its
\* notifications or a handler has its deliveries written before the scope around it is left.
RestoresInside == <<"restore">>
RoutesInside == <<"online", "platform", "service", "endpoints">>
DeliversInside == <<"online", "platform", "content", "deliver">>

\* The scopes reached inside a scope; in those of the mutexes that are not named, none.
InConnect == <<"reply", "online">>
InDisconnect == <<"online", "platform", "service">>
InPlatform == <<>>
InService == <<"online", "platform", "content">>
InDeliver == <<"service", "platform", "push">>
InPublish == <<"reply">>

Nested(name) ==
    IF name = "connect" THEN InConnect
    ELSE IF name = "disconnect" THEN InDisconnect
    ELSE IF name = "platform" THEN InPlatform
    ELSE IF name = "service" THEN InService
    ELSE IF name = "deliver" THEN InDeliver
    ELSE IF name = "publish" THEN InPublish
    ELSE <<>>

Inner(name) == IF name \in Operations THEN Steps(name) ELSE Nested(name)

-----------------------------------------------------------------------------
(* Mutexes: one of each kind, but an endpoint's and a sender's for each connection *)

Kind(name) ==
    IF name \in {"connect", "disconnect", "endpoints"} THEN "endpointMutex"
    ELSE IF name \in {"retire", "deliver", "publish"} THEN "endpoint"
    ELSE IF name \in {"service", "restore"} THEN "storeMutex"
    ELSE IF name \in {"reply", "push"} THEN "sendMutex"
    ELSE name

Mutex(frame) ==
    <<Kind(frame.name),
      IF frame.name \in {"retire", "publish", "reply"} THEN frame.own
      ELSE IF frame.name \in {"deliver", "push"} THEN frame.target
      ELSE NoClient>>

Holds(t, mutex) ==
    \E i \in DOMAIN stack[t] : stack[t][i].name \notin Operations /\ Mutex(stack[t][i]) = mutex

Top(t) == stack[t][Len(stack[t])]

\* The scope a thread that waits is about to enter.
Scope(name, frame) == [name |-> name, own |-> frame.own, target |-> frame.target, next |-> 1]
Wanted(t) == Scope(Inner(Top(t).name)[Top(t).next], Top(t))

-----------------------------------------------------------------------------
Own == {"request", "hosted", "hello", "ending"}
Deaf == {"hello", "login", "maintenance"}

\* A thread starts an operation: for a connection of its own, with a push to some other.
Begin(t, name, own, target) ==
    /\ stack[t] = <<>>
    /\ (own = NoClient) <=> (name \notin Own)
    /\ (target = NoClient) <=> (name \in Deaf)
    /\ stack' = [stack EXCEPT ![t] =
           <<[name |-> name, own |-> own, target |-> target, next |-> 1]>>]
    /\ UNCHANGED waiting

\* It reaches the constructor of a lock_guard, at times past some scopes.
Reach(t, i) ==
    /\ stack[t] # <<>> /\ t \notin waiting
    /\ i \in Top(t).next .. Len(Inner(Top(t).name))
    /\ stack' = [stack EXCEPT ![t][Len(stack[t])].next = i]
    /\ waiting' = waiting \cup {t}

\* The mutex is free and the thread takes it.  A std::mutex is not recursive.
Enter(t) ==
    /\ t \in waiting
    /\ \A u \in Threads : ~Holds(u, Mutex(Wanted(t)))
    /\ stack' = [stack EXCEPT ![t] =
           Append([stack[t] EXCEPT ![Len(stack[t])].next = @ + 1], Wanted(t))]
    /\ waiting' = waiting \ {t}

\* The scope ends.  In the scope of a sender that is when the socket has taken the frame,
\* or has refused it for the three seconds of its SO_SNDTIMEO.
Leave(t) ==
    /\ stack[t] # <<>> /\ t \notin waiting
    /\ stack' = [stack EXCEPT ![t] = SubSeq(stack[t], 1, Len(stack[t]) - 1)]
    /\ UNCHANGED waiting

Init ==
    /\ stack = [t \in Threads |-> <<>>]
    /\ waiting = {}

Next == \E t \in Threads :
    \/ \E name \in Operations, own, target \in Clients \cup {NoClient} : Begin(t, name, own, target)
    \/ \E i \in 1 .. 7 : Reach(t, i)
    \/ Enter(t)
    \/ Leave(t)

\* A thread that runs goes on, and a mutex starves nobody.  Nobody has to begin.
Fairness == \A t \in Threads :
    /\ WF_vars((\E i \in 1 .. 7 : Reach(t, i)) \/ Leave(t))
    /\ SF_vars(Enter(t))

Spec == Init /\ [][Next]_vars /\ Fairness

-----------------------------------------------------------------------------
(* Properties *)

Names == Operations \cup {"connect", "disconnect", "endpoints", "retire", "deliver", "publish",
                          "service", "restore", "reply", "push", "online", "platform",
                          "content", "queue"}
Frames == [name : Names, own : Clients \cup {NoClient}, target : Clients \cup {NoClient},
           next : Nat \ {0}]

TypeOK ==
    /\ stack \in [Threads -> Seq(Frames)]
    /\ waiting \subseteq Threads
    /\ \A t \in waiting : stack[t] # <<>> /\ Top(t).next \in 1 .. Len(Inner(Top(t).name))

\* No threads wait for each other in a circle, and none for itself (lobby.cpp:57:
\* "Brief presence reads do not reverse endpointMutex -> service-store lock ordering";
\* platform.cpp:930: "Release the issuer lock before restoring its service mirror").
NoCircularWait ==
    \A group \in (SUBSET Threads) \ {{}} :
        \E t \in group : t \in waiting => \A u \in group : ~Holds(u, Mutex(Wanted(t)))

\* A client that does not read its socket cannot hold up the store, the accounts or the
\* presence of everybody: whoever writes a frame, or waits for its turn to, holds none of
\* their mutexes (lobby.cpp:367: "Never retain endpointMutex or a service lock while
\* sending a native frame", which the announcement of a new connection does not heed
\* for endpointMutex).
Writes(t) ==
    \/ \E i \in DOMAIN stack[t] : stack[t][i].name \in {"reply", "push"}
    \/ t \in waiting /\ Kind(Wanted(t).name) \in {"endpoint", "sendMutex"}
NoSendUnderService ==
    \A t \in Threads : Writes(t) =>
        \A kind \in {"storeMutex", "platform", "online"} : ~Holds(t, <<kind, NoClient>>)

\* Whatever a thread has begun ends.
OperationsEnd == \A t \in Threads : stack[t] # <<>> ~> stack[t] = <<>>

\* A thread that can go on: it runs, or nobody holds the mutex it waits for.
CanGoOn(t) == t \notin waiting \/ \A u \in Threads : ~Holds(u, Mutex(Wanted(t)))

\* How long a wait may become: behind the holder of the mutex, the holder of the one that thread
\* waits for and so on there is, after at most three waits, a thread that can go on, however
\* many there are.  What NoCircularWait says of a group of threads, this says of each of them.
ShortWaits ==
    \A t \in waiting : \E n \in 1 .. 4 : \E chain \in [1 .. n -> Threads] :
        /\ chain[1] = t
        /\ \A i \in 1 .. n - 1 :
               chain[i] \in waiting /\ Holds(chain[i + 1], Mutex(Wanted(chain[i])))
        /\ CanGoOn(chain[n])
=============================================================================
