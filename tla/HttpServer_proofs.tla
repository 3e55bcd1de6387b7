-------------------------- MODULE HttpServer_proofs --------------------------
(***************************************************************************)
(* Theorems about HttpServer, for any number of connections, descriptors   *)
(* and children.                                                           *)
(***************************************************************************)
EXTENDS HttpServer, TLAPS

(***************************************************************************)
(* The inductive invariant.  That a child has no connection of a later one *)
(* rests on what has not been accepted yet: a connection that waits is in  *)
(* the queue once, no process has a descriptor of it and no child serves   *)
(* it; one that has not been made is nowhere.                              *)
(***************************************************************************)
HeldByChild(c) == \E i \in DOMAIN children : c \in children[i].fds

QueuedOnce == \A i, j \in DOMAIN queue : queue[i] = queue[j] => i = j

WaitingIsNew ==
    \A c \in InQueue : c \notin fds /\ c \notin Served /\ ~HeldByChild(c)

KnownIsMade ==
    \A c \in Conns : client[c] = None =>
        c \notin InQueue /\ c \notin fds /\ c \notin Served /\ ~HeldByChild(c)

AcceptedIsNew ==
    pc = "fork" => /\ client_sockfd \in fds
                   /\ client_sockfd \notin Served
                   /\ ~HeldByChild(client_sockfd)

IInv == /\ QueuedOnce /\ WaitingIsNew /\ KnownIsMade /\ AcceptedIsNew
        /\ OwnConnectionOnly /\ AcceptedIsServed

(***************************************************************************)
(* Types.                                                                  *)
(***************************************************************************)
LEMMA InitType == Init => TypeOK
<1>. SUFFICES ASSUME Init PROVE TypeOK
  OBVIOUS
<1>1. queue \in Seq(Conns) /\ children \in Seq(ChildType)
  BY DEF Init
<1>. QED  BY <1>1 DEF Init, TypeOK

\* The first element of the queue, and what stays of it.
LEMMA QueueHead ==
    ASSUME NEW q \in Seq(Conns), q # <<>>
    PROVE  /\ Head(q) \in Conns /\ Tail(q) \in Seq(Conns)
           /\ Len(q) \in Nat /\ Len(q) >= 1
           /\ 1 \in DOMAIN q /\ Head(q) = q[1]
           /\ Len(Tail(q)) = Len(q) - 1
           /\ \A i \in DOMAIN Tail(q) : i + 1 \in DOMAIN q /\ i + 1 # 1 /\ Tail(q)[i] = q[i + 1]
OBVIOUS

\* A new child comes after the others and leaves them as they are.
LEMMA AppendChild ==
    ASSUME NEW s \in Seq(ChildType), NEW k \in ChildType
    PROVE  /\ Append(s, k) \in Seq(ChildType)
           /\ Len(s) \in Nat /\ Len(Append(s, k)) = Len(s) + 1
           /\ DOMAIN Append(s, k) = DOMAIN s \cup {Len(s) + 1}
           /\ DOMAIN s = 1 .. Len(s)
           /\ \A i \in DOMAIN s : Append(s, k)[i] = s[i]
           /\ Append(s, k)[Len(s) + 1] = k
OBVIOUS

\* A child that ends or spins stays in its place, with its connection.
LEMMA BecomesType ==
    ASSUME TypeOK, NEW i \in DOMAIN children, NEW state \in {"spinning", "ended"},
           NEW open \in SUBSET Conns, Becomes(i, state, open)
    PROVE  /\ TypeOK'
           /\ DOMAIN children' = DOMAIN children /\ Len(children') = Len(children)
           /\ \A j \in DOMAIN children : j # i => children'[j] = children[j]
           /\ \A j \in DOMAIN children : children'[j].conn = children[j].conn
           /\ children'[i].state = state /\ children'[i].fds = open
<1>1. children \in Seq(ChildType) /\ children[i] \in ChildType
  BY DEF TypeOK
<1>2. children' = [children EXCEPT ![i] = [children[i] EXCEPT !.state = state, !.fds = open]]
  BY <1>1 DEF Becomes
<1>3. [children[i] EXCEPT !.state = state, !.fds = open] \in ChildType
  BY <1>1 DEF ChildType
<1>4. children' \in Seq(ChildType) /\ Len(children') = Len(children)
      /\ DOMAIN children' = DOMAIN children
  BY <1>1, <1>2, <1>3
<1>5. children'[i] = [children[i] EXCEPT !.state = state, !.fds = open]
  BY <1>1, <1>2
<1>6. \A j \in DOMAIN children : j # i => children'[j] = children[j]
  BY <1>1, <1>2
<1>7. /\ children'[i].conn = children[i].conn
      /\ children'[i].state = state /\ children'[i].fds = open
  BY <1>1, <1>5 DEF ChildType
<1>8. TypeOK'
  BY <1>4 DEF TypeOK, Becomes
<1>. QED  BY <1>4, <1>5, <1>6, <1>7, <1>8

\* What is known of a child.
LEMMA ChildTyped ==
    ASSUME TypeOK, NEW i \in DOMAIN children
    PROVE  children[i] \in ChildType /\ children[i].fds \in SUBSET Conns
<1>1. children[i] \in ChildType
  BY DEF TypeOK
<1>. QED  BY <1>1 DEF ChildType

LEMMA NextType ==
    ASSUME TypeOK, [Next]_vars
    PROVE  TypeOK'
<1>1. CASE UNCHANGED vars
  BY <1>1 DEF TypeOK, vars
<1>2. CASE Accept
  <2>1. Head(queue) \in Conns /\ Tail(queue) \in Seq(Conns)
    BY <1>2, QueueHead DEF Accept, TypeOK
  <2>. QED  BY <1>2, <2>1 DEF Accept, TypeOK
<1>3. CASE AcceptFails
  BY <1>3 DEF AcceptFails, TypeOK
<1>4. CASE Fork
  <2>1. NewChild(fds) \in ChildType
    BY <1>4 DEF Fork, NewChild, ChildType, TypeOK
  <2>2. children' \in Seq(ChildType)
    BY <1>4, <2>1, AppendChild DEF Fork, TypeOK
  <2>. QED  BY <1>4, <2>2 DEF Fork, TypeOK
<1>5. CASE ForkFails
  BY <1>5 DEF ForkFails, TypeOK
<1>6. ASSUME NEW i \in DOMAIN children, ChildEnds(i) \/ ChildSpins(i)
      PROVE  TypeOK'
  <2>1. CASE ChildEnds(i)
    <3>1. Becomes(i, "ended", {}) /\ {} \in SUBSET Conns
      BY <2>1 DEF ChildEnds
    <3>. QED  BY <3>1, BecomesType
  <2>2. CASE ChildSpins(i)
    BY <2>2, ChildTyped, BecomesType DEF ChildSpins
  <2>. QED  BY <1>6, <2>1, <2>2
<1>7. ASSUME NEW c \in Conns, Connect(c)
      PROVE  TypeOK'
  <2>1. queue' \in Seq(Conns)
    BY <1>7 DEF Connect, TypeOK
  <2>. QED  BY <1>7, <2>1 DEF Connect, TypeOK
<1>8. ASSUME NEW c \in Conns, Disconnect(c)
      PROVE  TypeOK'
  BY <1>8 DEF Disconnect, TypeOK
<1>. QED  BY <1>1, <1>2, <1>3, <1>4, <1>5, <1>6, <1>7, <1>8 DEF Next, Server

\* The variables of the server keep their types; a fork has a connection to
\* hand over.
THEOREM TypeCorrect == Spec => []TypeOK
BY InitType, NextType, PTL DEF Spec

(***************************************************************************)
(* The steps of the parent.                                                *)
(***************************************************************************)
LEMMA AcceptKeeps ==
    ASSUME TypeOK, IInv, Accept
    PROVE  IInv'
<1>. DEFINE c == Head(queue)
<1>1. queue \in Seq(Conns) /\ queue # <<>> /\ queue' = Tail(queue) /\ children' = children
  BY DEF Accept, TypeOK
<1>2. c \in Conns /\ c \in InQueue
  BY <1>1, QueueHead DEF InQueue
<1>3. InQueue' \subseteq InQueue /\ c \notin InQueue'
  BY <1>1, QueueHead DEF InQueue, IInv, QueuedOnce
<1>4. QueuedOnce'
  BY <1>1, QueueHead DEF QueuedOnce, IInv
<1>5. /\ Served' = Served /\ fds' = fds \cup {c} /\ client_sockfd' = c
      /\ client' = client /\ pc' = "fork" /\ pc = "accept"
      /\ \A d : HeldByChild(d)' <=> HeldByChild(d)
  BY <1>1 DEF Accept, Served, HeldByChild
<1>6. c \notin fds /\ c \notin Served /\ ~HeldByChild(c) /\ client[c] # None
  BY <1>2 DEF IInv, WaitingIsNew, KnownIsMade
<1>7. WaitingIsNew'
  BY <1>3, <1>5 DEF IInv, WaitingIsNew
<1>8. KnownIsMade'
  BY <1>3, <1>5, <1>6 DEF IInv, KnownIsMade
<1>9. AcceptedIsNew'
  BY <1>5, <1>6 DEF AcceptedIsNew
<1>10. OwnConnectionOnly'
  BY <1>1 DEF IInv, OwnConnectionOnly, Live
<1>11. AcceptedIsServed'
  BY <1>1, <1>5 DEF IInv, AcceptedIsServed
<1>. QED  BY <1>4, <1>7, <1>8, <1>9, <1>10, <1>11 DEF IInv

LEMMA ForkKeeps ==
    ASSUME TypeOK, IInv, Fork
    PROVE  IInv'
<1>. DEFINE k == NewChild(fds)
           n == Len(children) + 1
<1>1. children \in Seq(ChildType) /\ k \in ChildType /\ client_sockfd \in Conns
  BY DEF Fork, NewChild, ChildType, TypeOK
<1>2. /\ DOMAIN children' = DOMAIN children \cup {n} /\ DOMAIN children = 1 .. Len(children)
      /\ \A i \in DOMAIN children : children'[i] = children[i]
      /\ children'[n] = k /\ Len(children) \in Nat /\ Len(children') = n
  BY <1>1, AppendChild DEF Fork
<1>3. k.conn = client_sockfd /\ k.fds = fds /\ k.state = "serving"
  BY DEF NewChild
<1>4. Served' = Served \cup {client_sockfd}
  BY <1>2, <1>3 DEF Served
<1>5. \A d : HeldByChild(d)' <=> HeldByChild(d) \/ d \in fds
  BY <1>2, <1>3 DEF HeldByChild
<1>6. /\ queue' = queue /\ fds' = fds /\ client' = client /\ client_sockfd' = client_sockfd
      /\ pc' = "accept" /\ pc = "fork" /\ InQueue' = InQueue
  BY DEF Fork, InQueue
<1>7. client_sockfd \in fds /\ client_sockfd \notin Served /\ ~HeldByChild(client_sockfd)
  BY <1>6 DEF IInv, AcceptedIsNew
<1>8. QueuedOnce' /\ AcceptedIsNew'
  BY <1>6 DEF IInv, QueuedOnce, AcceptedIsNew
<1>9. WaitingIsNew'
  BY <1>4, <1>5, <1>6, <1>7 DEF IInv, WaitingIsNew
<1>10. KnownIsMade'
  BY <1>4, <1>5, <1>6, <1>7 DEF IInv, KnownIsMade
<1>11. OwnConnectionOnly'
  <2>. SUFFICES ASSUME NEW i \in Live'
                PROVE  /\ children'[i].conn \in children'[i].fds
                       /\ \A j \in DOMAIN children' :
                             j > i => children'[j].conn \notin children'[i].fds
    BY DEF OwnConnectionOnly
  <2>1. CASE i = n
    BY <1>2, <1>3, <1>7, <2>1
  <2>2. CASE i # n
    <3>1. i \in Live /\ i \in DOMAIN children /\ children'[i] = children[i]
      BY <1>2, <2>2 DEF Live
    <3>2. client_sockfd \notin children[i].fds
      BY <1>7, <3>1 DEF HeldByChild
    <3>. QED  BY <1>2, <1>3, <3>1, <3>2 DEF IInv, OwnConnectionOnly
  <2>. QED  BY <2>1, <2>2
<1>12. AcceptedIsServed'
  BY <1>2, <1>4, <1>6, ServerAssumption DEF IInv, AcceptedIsServed
<1>. QED  BY <1>8, <1>9, <1>10, <1>11, <1>12 DEF IInv

LEMMA FailureKeeps ==
    ASSUME TypeOK, IInv, AcceptFails \/ ForkFails
    PROVE  IInv'
<1>1. /\ queue' = queue /\ children' = children /\ client' = client
      /\ fds' \subseteq fds /\ pc' # "fork"
      /\ fds' # {} => Len(children) >= MaxChildren
  BY DEF AcceptFails, ForkFails
<1>2. InQueue' = InQueue /\ Served' = Served /\ Live' = Live
      /\ \A d : HeldByChild(d)' <=> HeldByChild(d)
  BY <1>1 DEF InQueue, Served, Live, HeldByChild
<1>. QED  BY <1>1, <1>2 DEF IInv, QueuedOnce, WaitingIsNew, KnownIsMade, AcceptedIsNew,
                            OwnConnectionOnly, AcceptedIsServed

(***************************************************************************)
(* The steps of the children and of the clients.                           *)
(***************************************************************************)
LEMMA ChildKeeps ==
    ASSUME TypeOK, IInv, NEW i \in DOMAIN children, ChildEnds(i) \/ ChildSpins(i)
    PROVE  IInv'
<1>1. PICK state \in {"spinning", "ended"}, open \in SUBSET children[i].fds :
        /\ Becomes(i, state, open) /\ children[i].state = "serving"
        /\ state = "spinning" => open = children[i].fds
  BY DEF ChildEnds, ChildSpins
<1>2. open \in SUBSET Conns
  BY <1>1, ChildTyped
<1>3. /\ DOMAIN children' = DOMAIN children /\ Len(children') = Len(children)
      /\ \A j \in DOMAIN children : j # i => children'[j] = children[j]
      /\ \A j \in DOMAIN children : children'[j].conn = children[j].conn
      /\ children'[i].state = state /\ children'[i].fds = open
  BY <1>1, <1>2, BecomesType
<1>4. /\ queue' = queue /\ fds' = fds /\ client' = client
      /\ client_sockfd' = client_sockfd /\ pc' = pc
  BY <1>1 DEF Becomes
<1>5. \A j \in DOMAIN children : children'[j].fds \subseteq children[j].fds
  BY <1>1, <1>3
<1>6. InQueue' = InQueue /\ Served' = Served
  BY <1>3, <1>4 DEF InQueue, Served
<1>7. \A d : HeldByChild(d)' => HeldByChild(d)
  BY <1>3, <1>5 DEF HeldByChild
<1>8. QueuedOnce' /\ WaitingIsNew' /\ KnownIsMade' /\ AcceptedIsNew' /\ AcceptedIsServed'
  BY <1>3, <1>4, <1>6, <1>7 DEF IInv, QueuedOnce, WaitingIsNew, KnownIsMade, AcceptedIsNew,
                                AcceptedIsServed
<1>9. OwnConnectionOnly'
  <2>. SUFFICES ASSUME NEW j \in Live'
                PROVE  /\ children'[j].conn \in children'[j].fds
                       /\ \A m \in DOMAIN children' :
                             m > j => children'[m].conn \notin children'[j].fds
    BY DEF OwnConnectionOnly
  <2>1. j \in DOMAIN children /\ j \in Live /\ children'[j].fds = children[j].fds
    <3>1. CASE j = i
      BY <1>1, <1>3, <3>1 DEF Live
    <3>2. CASE j # i
      BY <1>3, <3>2 DEF Live
    <3>. QED  BY <3>1, <3>2
  <2>. QED  BY <1>3, <2>1 DEF IInv, OwnConnectionOnly
<1>. QED  BY <1>8, <1>9 DEF IInv

LEMMA ClientKeeps ==
    ASSUME TypeOK, IInv, NEW c \in Conns, Connect(c) \/ Disconnect(c)
    PROVE  IInv'
<1>1. /\ fds' = fds /\ children' = children /\ pc' = pc /\ client_sockfd' = client_sockfd
      /\ client'[c] # None /\ \A d \in Conns : d # c => client'[d] = client[d]
  BY DEF Connect, Disconnect, TypeOK, None
<1>2. /\ Served' = Served /\ Live' = Live
      /\ \A d : HeldByChild(d)' <=> HeldByChild(d)
  BY <1>1 DEF Served, Live, HeldByChild
<1>3. AcceptedIsNew' /\ OwnConnectionOnly' /\ AcceptedIsServed'
  BY <1>1, <1>2 DEF IInv, AcceptedIsNew, OwnConnectionOnly, AcceptedIsServed
<1>4. CASE Disconnect(c)
  <2>1. queue' = queue /\ InQueue' = InQueue
    BY <1>4 DEF Disconnect, InQueue
  <2>. QED  BY <1>1, <1>2, <1>3, <2>1 DEF IInv, QueuedOnce, WaitingIsNew, KnownIsMade
<1>5. CASE Connect(c)
  <2>1. c \notin InQueue /\ c \notin fds /\ c \notin Served /\ ~HeldByChild(c)
    BY <1>5 DEF Connect, IInv, KnownIsMade
  <2>2. /\ queue \in Seq(Conns) /\ Len(queue) \in Nat
        /\ DOMAIN queue' = DOMAIN queue \cup {Len(queue) + 1}
        /\ \A i \in DOMAIN queue : queue'[i] = queue[i]
        /\ queue'[Len(queue) + 1] = c
    BY <1>5 DEF Connect, TypeOK
  <2>3. InQueue' = InQueue \cup {c}
    BY <2>2 DEF InQueue
  <2>4. QueuedOnce'
    BY <2>1, <2>2 DEF IInv, QueuedOnce, InQueue
  <2>. QED  BY <1>1, <1>2, <1>3, <2>1, <2>3, <2>4 DEF IInv, WaitingIsNew, KnownIsMade
<1>. QED  BY <1>4, <1>5

(***************************************************************************)
(* The theorem.                                                            *)
(***************************************************************************)
LEMMA InitKeeps == Init => IInv
BY DEF Init, IInv, QueuedOnce, WaitingIsNew, KnownIsMade, AcceptedIsNew,
       OwnConnectionOnly, AcceptedIsServed, InQueue, Served, Live, HeldByChild

LEMMA NextKeeps ==
    ASSUME TypeOK, IInv, [Next]_vars
    PROVE  IInv'
<1>1. CASE UNCHANGED vars
  <2>1. InQueue' = InQueue /\ Served' = Served /\ Live' = Live
        /\ \A d : HeldByChild(d)' <=> HeldByChild(d)
    BY <1>1 DEF vars, InQueue, Served, Live, HeldByChild
  <2>. QED  BY <1>1, <2>1 DEF vars, IInv, QueuedOnce, WaitingIsNew, KnownIsMade,
                              AcceptedIsNew, OwnConnectionOnly, AcceptedIsServed
<1>. QED  BY <1>1, AcceptKeeps, ForkKeeps, FailureKeeps, ChildKeeps, ClientKeeps
          DEF Next, Server

\* For any number of clients, descriptors and processes: a child that lives has
\* the connection it serves and none of a later client, and a connection that
\* was accepted has a child, or the process table is full.
THEOREM ChildrenAndConnections == Spec => [](OwnConnectionOnly /\ AcceptedIsServed)
<1>1. TypeOK /\ IInv /\ [Next]_vars => (TypeOK /\ IInv)'
  BY NextType, NextKeeps
<1>2. Init => TypeOK /\ IInv
  BY InitType, InitKeeps
<1>3. IInv => OwnConnectionOnly /\ AcceptedIsServed
  BY DEF IInv
<1>. QED  BY <1>1, <1>2, <1>3, PTL DEF Spec
=============================================================================
