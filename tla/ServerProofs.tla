---------------------------- MODULE ServerProofs ----------------------------
(***************************************************************************)
(* The accept loop and the shutdown keep what TypeOK says, for any number  *)
(* of clients, workers and descriptors: no client is queued twice or after *)
(* it was accepted, descriptors and workers are never overdrawn, nobody    *)
(* queues for a listener that is gone, and the process leaves no           *)
(* connection behind.                                                      *)
(***************************************************************************)
EXTENDS Server, TLAPS, FiniteSetTheorems

LEMMA SizeIsNat ==
    ASSUME NEW S \in SUBSET Clients
    PROVE  IsFiniteSet(S) /\ Cardinality(S) \in Nat
BY StuckAssumption, FS_Subset, FS_CardinalityType

LEMMA Smaller ==
    ASSUME NEW S \in SUBSET Clients, NEW T \in SUBSET S, NEW n \in Nat, Cardinality(S) <= n
    PROVE  Cardinality(T) <= n
<1>1. Cardinality(T) <= Cardinality(S)
  BY SizeIsNat, FS_Subset
<1>2. Cardinality(T) \in Nat /\ Cardinality(S) \in Nat
  BY SizeIsNat
<1> QED
  BY <1>1, <1>2

LEMMA OneMore ==
    ASSUME NEW S \in SUBSET Clients, NEW T \in SUBSET Clients, NEW c \in Clients,
           T \subseteq S \cup {c}, NEW n \in Nat, Cardinality(S) < n
    PROVE  Cardinality(T) <= n
<1>1. IsFiniteSet(S) /\ Cardinality(S) \in Nat
  BY SizeIsNat
<1>2. Cardinality(S \cup {c}) <= n
  BY <1>1, FS_AddElement
<1> QED
  BY <1>2, Smaller

LEMMA Bounds == Descriptors \in Nat /\ Workers \in Nat /\ MaxRequests \in Nat
BY StuckAssumption, BoundsAssumption

\* What the sets of connections become when one task changes its state.
LEMMA Moved ==
    ASSUME TypeOK, NEW c \in Clients, NEW s \in States \ {"none"}, Become(c, s)
    PROVE  /\ task' \in [Clients -> States]
           /\ In("handling")' = IF s = "handling" THEN In("handling") \cup {c}
                                                  ELSE In("handling") \ {c}
           /\ Open' = IF s = "ended" THEN Open \ {c} ELSE Open \cup {c}
<1>1. task \in [Clients -> States] /\ task' = [task EXCEPT ![c] = s]
  BY DEF TypeOK, Become
<1>2. \A d \in Clients : task'[d] = IF d = c THEN s ELSE task[d]
  BY <1>1
<1> QED
  BY <1>1, <1>2 DEF In, Open

\* A task that goes on, or ends, without a request.
LEMMA TaskStep ==
    ASSUME TypeOK, NEW c \in Clients, NEW s \in States \ {"none", "handling"},
           c \in Open, Become(c, s),
           UNCHANGED <<kernel, loop, asked, served, process>>
    PROVE  TypeOK'
<1>1. /\ task' \in [Clients -> States]
      /\ In("handling")' \subseteq In("handling") /\ Open' \subseteq Open
  BY Moved
<1>2. In("handling") \subseteq Clients /\ Open \subseteq Clients
  BY DEF In, Open
<1>3. Cardinality(Open)' <= Descriptors /\ Cardinality(In("handling"))' <= Workers
  BY <1>1, <1>2, Smaller, Bounds DEF TypeOK
<1>4. Queued' = Queued /\ \A d \in Queued : task'[d] = "none"
  <2>1. c \notin Queued
    BY DEF TypeOK, Open, In
  <2>2. Queued \subseteq Clients /\ Queued' = Queued
    BY DEF TypeOK, Queued, kernel
  <2> QED
    BY <2>1, <2>2 DEF TypeOK, Become
<1> QED
  BY <1>1, <1>3, <1>4 DEF TypeOK, kernel

\* The queue without its first client.
LEMMA Dequeue ==
    ASSUME TypeOK, backlog # <<>>, backlog' = Tail(backlog)
    PROVE  /\ backlog' \in Seq(Clients) /\ Head(backlog) \in Clients
           /\ \A i, j \in DOMAIN backlog' : backlog'[i] = backlog'[j] => i = j
           /\ Queued' = Queued \ {Head(backlog)} /\ Head(backlog) \in Queued
<1>1. /\ backlog \in Seq(Clients)
      /\ \A i, j \in DOMAIN backlog : backlog[i] = backlog[j] => i = j
  BY DEF TypeOK
<1>2. /\ backlog' \in Seq(Clients) /\ Head(backlog) = backlog[1]
      /\ Len(backlog) \in Nat /\ Len(backlog) >= 1
      /\ DOMAIN backlog = 1 .. Len(backlog) /\ DOMAIN backlog' = 1 .. (Len(backlog) - 1)
      /\ \A i \in DOMAIN backlog' : backlog'[i] = backlog[i + 1]
  BY <1>1
<1>3. Head(backlog) \in Clients
  BY <1>1, <1>2
<1>4. \A i, j \in DOMAIN backlog' : backlog'[i] = backlog'[j] => i = j
  <2> SUFFICES ASSUME NEW i \in DOMAIN backlog', NEW j \in DOMAIN backlog',
                      backlog'[i] = backlog'[j]
               PROVE  i = j
    OBVIOUS
  <2>1. i + 1 \in DOMAIN backlog /\ j + 1 \in DOMAIN backlog
    BY <1>2
  <2>2. i + 1 = j + 1
    BY <1>1, <1>2, <2>1
  <2> QED
    BY <1>2, <2>2
<1>5. Head(backlog) \in Queued
  BY <1>2 DEF Queued
<1>6. Queued' = Queued \ {Head(backlog)}
  <2>1. ASSUME NEW c \in Queued' PROVE c \in Queued \ {Head(backlog)}
    <3>1. PICK i \in DOMAIN backlog' : c = backlog'[i]
      BY <2>1 DEF Queued
    <3>2. c = backlog[i + 1] /\ i + 1 \in DOMAIN backlog /\ 1 \in DOMAIN backlog /\ i + 1 # 1
      BY <1>2, <3>1
    <3>3. c # backlog[1]
      BY <1>1, <3>2
    <3> QED
      BY <1>2, <3>2, <3>3 DEF Queued
  <2>2. ASSUME NEW c \in Queued \ {Head(backlog)} PROVE c \in Queued'
    <3>1. PICK i \in DOMAIN backlog : c = backlog[i]
      BY <2>2 DEF Queued
    <3>2. i # 1 /\ i \in Nat
      BY <1>2, <2>2, <3>1
    <3>3. i - 1 \in DOMAIN backlog' /\ (i - 1) + 1 = i
      BY <1>2, <3>1, <3>2
    <3> QED
      BY <1>2, <3>1, <3>3 DEF Queued
  <2> QED
    BY <2>1, <2>2
<1> QED
  BY <1>2, <1>3, <1>4, <1>5, <1>6

LEMMA ConnectStep ==
    ASSUME TypeOK, NEW c \in Clients, Connect(c)
    PROVE  TypeOK'
<1>1. /\ backlog \in Seq(Clients) /\ backlog' = Append(backlog, c) /\ c \notin Queued
      /\ \A i, j \in DOMAIN backlog : backlog[i] = backlog[j] => i = j
      /\ process = "running" /\ task[c] = "none"
      /\ UNCHANGED <<aborted, loop, task, asked, served, process>>
  BY DEF TypeOK, Connect, tasks
<1>2. /\ backlog' \in Seq(Clients) /\ Len(backlog) \in Nat
      /\ DOMAIN backlog = 1 .. Len(backlog) /\ DOMAIN backlog' = 1 .. (Len(backlog) + 1)
      /\ backlog'[Len(backlog) + 1] = c
      /\ \A i \in 1 .. Len(backlog) : backlog'[i] = backlog[i]
  BY <1>1
<1>3. \A i \in 1 .. Len(backlog) : backlog[i] # c
  BY <1>1, <1>2 DEF Queued
<1>4. Queued' = Queued \cup {c}
  <2>1. ASSUME NEW d \in Queued' PROVE d \in Queued \cup {c}
    <3>1. PICK i \in DOMAIN backlog' : d = backlog'[i]
      BY <2>1 DEF Queued
    <3> QED
      BY <1>2, <3>1 DEF Queued
  <2>2. ASSUME NEW d \in Queued \cup {c} PROVE d \in Queued'
    <3>1. CASE d = c
      BY <1>2, <3>1 DEF Queued
    <3>2. CASE d \in Queued
      <4>1. PICK i \in DOMAIN backlog : d = backlog[i]
        BY <3>2 DEF Queued
      <4> QED
        BY <1>2, <4>1 DEF Queued
    <3> QED
      BY <2>2, <3>1, <3>2
  <2> QED
    BY <2>1, <2>2
<1>5. \A i, j \in DOMAIN backlog' : backlog'[i] = backlog'[j] => i = j
  BY <1>1, <1>2, <1>3
<1>6. Open' = Open /\ In("handling")' = In("handling")
  BY <1>1 DEF Open, In
<1> QED
  BY <1>1, <1>2, <1>4, <1>5, <1>6 DEF TypeOK

LEMMA AcceptStep ==
    ASSUME TypeOK, Accept
    PROVE  TypeOK'
<1>1. /\ process = "running" /\ loop = "accepting" /\ backlog # <<>>
      /\ Head(backlog) \notin aborted /\ Cardinality(Open) < Descriptors
      /\ task' = [task EXCEPT ![Head(backlog)] = "waiting"] /\ backlog' = Tail(backlog)
      /\ UNCHANGED <<aborted, loop, asked, served, process>>
  BY DEF Accept, Ready, Running
<1>2. /\ backlog' \in Seq(Clients) /\ Head(backlog) \in Clients
      /\ \A i, j \in DOMAIN backlog' : backlog'[i] = backlog'[j] => i = j
      /\ Queued' = Queued \ {Head(backlog)} /\ Head(backlog) \in Queued
  BY <1>1, Dequeue
<1>3. /\ task' \in [Clients -> States]
      /\ In("handling")' = In("handling") \ {Head(backlog)}
      /\ Open' = Open \cup {Head(backlog)}
  BY <1>1, <1>2, Moved DEF Become, States
<1>4. In("handling") \subseteq Clients /\ Open \subseteq Clients
  BY DEF In, Open
<1>5. Cardinality(Open)' <= Descriptors /\ Cardinality(In("handling"))' <= Workers
  <2>1. Cardinality(Open') <= Descriptors
    <3>1. Open' \subseteq Clients
      BY <1>2, <1>3, <1>4
    <3> QED
      BY <1>1, <1>2, <1>3, <1>4, <3>1, OneMore, Bounds
  <2>2. Cardinality(In("handling")') <= Workers
    BY <1>3, <1>4, Smaller, Bounds DEF TypeOK
  <2> QED
    BY <2>1, <2>2
<1>6. \A d \in Queued' : task'[d] = "none"
  <2> SUFFICES ASSUME NEW d \in Queued' PROVE task'[d] = "none"
    OBVIOUS
  <2>1. d \in Queued /\ d # Head(backlog) /\ task[d] = "none"
    BY <1>2 DEF TypeOK
  <2>2. d \in Clients
    BY <2>1 DEF Queued, TypeOK
  <2> QED
    BY <1>1, <1>2, <2>1, <2>2 DEF TypeOK
<1>7. aborted' \subseteq Queued'
  BY <1>1, <1>2 DEF TypeOK
<1> QED
  BY <1>1, <1>2, <1>3, <1>5, <1>6, <1>7 DEF TypeOK

LEMMA AcceptAbortedStep ==
    ASSUME TypeOK, AcceptAborted
    PROVE  TypeOK'
<1>1. /\ process = "running" /\ backlog # <<>> /\ backlog' = Tail(backlog)
      /\ aborted' = aborted \ {Head(backlog)} /\ loop' = "pausing"
      /\ UNCHANGED <<task, asked, served, process>>
  BY DEF AcceptAborted, Ready, Running, tasks
<1>2. /\ backlog' \in Seq(Clients)
      /\ \A i, j \in DOMAIN backlog' : backlog'[i] = backlog'[j] => i = j
      /\ Queued' = Queued \ {Head(backlog)}
  BY <1>1, Dequeue
<1>3. Open' = Open /\ In("handling")' = In("handling")
  BY <1>1 DEF Open, In
<1> QED
  BY <1>1, <1>2, <1>3 DEF TypeOK

LEMMA BeginStep ==
    ASSUME TypeOK, NEW c \in Clients, Begin(c)
    PROVE  TypeOK'
<1>1. /\ process = "running" /\ task[c] \in {"waiting", "interim"} /\ served[c] < asked[c]
      /\ Cardinality(In("handling")) < Workers
      /\ task' = [task EXCEPT ![c] = "handling"]
      /\ served' = [served EXCEPT ![c] = @ + 1]
      /\ UNCHANGED <<backlog, aborted, loop, asked, process>>
  BY DEF Begin, Become, Running, Attended, kernel
<1>2. /\ task' \in [Clients -> States]
      /\ In("handling")' = In("handling") \cup {c}
      /\ Open' = Open \cup {c}
  BY <1>1, Moved DEF Become, States
<1>3. In("handling") \subseteq Clients /\ Open' = Open
  BY <1>1, <1>2 DEF In, Open
<1>4. Cardinality(In("handling")') <= Workers
  <2>1. In("handling")' \subseteq Clients
    BY <1>2, <1>3
  <2> QED
    BY <1>1, <1>2, <1>3, <2>1, OneMore, Bounds
<1>5. /\ served' \in [Clients -> 0 .. MaxRequests]
      /\ \A d \in Clients : served'[d] <= asked[d]
  <2>1. served[c] \in 0 .. MaxRequests /\ asked[c] \in 0 .. MaxRequests
    BY DEF TypeOK
  <2>2. served[c] + 1 \in 0 .. MaxRequests /\ served[c] + 1 <= asked[c]
    BY <1>1, <2>1, Bounds
  <2> QED
    BY <1>1, <2>2 DEF TypeOK
<1>6. \A d \in Queued : task'[d] = "none"
  <2> SUFFICES ASSUME NEW d \in Queued PROVE task'[d] = "none"
    OBVIOUS
  <2>1. task[d] = "none" /\ d \in Clients
    BY DEF TypeOK, Queued
  <2> QED
    BY <1>1, <2>1 DEF TypeOK
<1>7. Queued' = Queued
  BY <1>1 DEF Queued
<1> QED
  BY <1>1, <1>2, <1>3, <1>4, <1>5, <1>6, <1>7 DEF TypeOK

\* TypeOK: clients are queued at most once and not after they were accepted; there are
\* never more connections than descriptors, nor more handlers at work than workers; a
\* harness that stops has no listener, and one that is gone no connection.
THEOREM TypeCorrect == Spec => []TypeOK
<1>1. Init => TypeOK
  <2> SUFFICES ASSUME Init PROVE TypeOK
    OBVIOUS
  <2>1. Open = {} /\ In("handling") = {} /\ Queued = {}
    BY DEF Init, Open, In, Queued
  <2>2. Cardinality(Open) = 0 /\ Cardinality(In("handling")) = 0
    BY <2>1, FS_EmptySet
  <2> QED
    BY <2>1, <2>2, Bounds DEF Init, TypeOK, States
<1>2. TypeOK /\ [Next]_vars => TypeOK'
  <2> SUFFICES ASSUME TypeOK, [Next]_vars PROVE TypeOK'
    OBVIOUS
  <2>1. CASE Accept
    BY <2>1, AcceptStep
  <2>2. CASE AcceptAborted
    BY <2>2, AcceptAbortedStep
  <2>3. CASE AcceptFails
    <3>1. /\ process = "running" /\ loop' = "pausing"
          /\ UNCHANGED <<backlog, aborted, task, asked, served, process>>
      BY <2>3 DEF AcceptFails, Ready, Running, kernel, tasks
    <3> QED
      BY <3>1 DEF TypeOK, Queued, Open, In
  <2>4. CASE Resume
    <3>1. /\ process = "running" /\ loop' = "accepting"
          /\ UNCHANGED <<backlog, aborted, task, asked, served, process>>
      BY <2>4 DEF Resume, Running, kernel, tasks
    <3> QED
      BY <3>1 DEF TypeOK, Queued, Open, In
  <2>5. CASE Stop
    <3>1. /\ process' = "stopping" /\ loop' = "dropped" /\ backlog' = <<>> /\ aborted' = {}
          /\ UNCHANGED <<task, asked, served>>
      BY <2>5 DEF Stop, tasks
    <3>2. Queued' = {}
      BY <3>1 DEF Queued
    <3>3. Open' = Open /\ In("handling")' = In("handling")
      BY <3>1 DEF Open, In
    <3> QED
      BY <3>1, <3>2, <3>3 DEF TypeOK
  <2>6. CASE Exit
    <3>1. /\ process = "stopping" /\ process' = "exited" /\ Open = {}
          /\ UNCHANGED <<backlog, aborted, loop, task, asked, served>>
      BY <2>6 DEF Exit, kernel, tasks
    <3>2. Open' = {} /\ In("handling")' = In("handling") /\ Queued' = Queued
          /\ Cardinality(Open') = Cardinality(Open)
      BY <3>1 DEF Open, In, Queued
    <3> QED
      BY <3>1, <3>2 DEF TypeOK
  <2>7. ASSUME NEW c \in Clients, Connect(c)
        PROVE  TypeOK'
    BY <2>7, ConnectStep
  <2>8. ASSUME NEW c \in Clients, Abort(c)
        PROVE  TypeOK'
    <3>1. /\ c \in Queued /\ aborted' = aborted \cup {c}
          /\ UNCHANGED <<backlog, loop, task, asked, served, process>>
      BY <2>8 DEF Abort, tasks
    <3> QED
      BY <3>1 DEF TypeOK, Queued, Open, In
  <2>9. ASSUME NEW c \in Clients, Ask(c)
        PROVE  TypeOK'
    <3>1. /\ asked[c] < MaxRequests /\ asked' = [asked EXCEPT ![c] = @ + 1]
          /\ UNCHANGED <<backlog, aborted, loop, task, served, process>>
      BY <2>9 DEF Ask, kernel
    <3>2. /\ asked' \in [Clients -> 0 .. MaxRequests]
          /\ \A d \in Clients : served[d] <= asked'[d]
      <4>1. asked[c] \in 0 .. MaxRequests /\ served[c] \in 0 .. MaxRequests
            /\ served[c] <= asked[c]
        BY DEF TypeOK
      <4>2. asked[c] + 1 \in 0 .. MaxRequests /\ served[c] <= asked[c] + 1
        BY <3>1, <4>1, Bounds
      <4> QED
        BY <3>1, <4>2 DEF TypeOK
    <3>3. Open' = Open /\ In("handling")' = In("handling") /\ Queued' = Queued
      BY <3>1 DEF Open, In, Queued
    <3> QED
      BY <3>1, <3>2, <3>3 DEF TypeOK
  <2>10. ASSUME NEW c \in Clients, Begin(c)
         PROVE  TypeOK'
    BY <2>10, BeginStep
  <2>11. ASSUME NEW c \in Clients,
                Interim(c) \/ Return(c) \/ Panic(c) \/ Written(c) \/ WriteFails(c)
         PROVE  TypeOK'
    <3>1. PICK s \in States \ {"none", "handling"} : Become(c, s)
      BY <2>11 DEF Interim, Return, Panic, Written, WriteFails, States
    <3>2. c \in Open /\ UNCHANGED <<kernel, loop, asked, served, process>>
      BY <2>11 DEF Interim, Return, Panic, Written, WriteFails, Open
    <3> QED
      BY <3>1, <3>2, TaskStep
  <2>12. ASSUME NEW c \in Clients, End(c) \/ Drop(c)
         PROVE  TypeOK'
    <3>1. PICK s \in States \ {"none", "handling"} : Become(c, s)
      BY <2>12 DEF End, Drop, States
    <3>2. c \in Open /\ UNCHANGED <<kernel, loop, asked, served, process>>
      BY <2>12 DEF End, Drop, Awaiting, Open
    <3> QED
      BY <3>1, <3>2, TaskStep
  <2>13. CASE UNCHANGED vars
    BY <2>13 DEF vars, kernel, tasks, TypeOK, Queued, Open, In
  <2> QED
    BY <2>1, <2>2, <2>3, <2>4, <2>5, <2>6, <2>7, <2>8, <2>9, <2>10, <2>11, <2>12, <2>13
       DEF Next, Listening
<1> QED
  BY <1>1, <1>2, PTL DEF Spec
=============================================================================
