-------------------------- MODULE PingProbe_proofs --------------------------
(***************************************************************************)
(* Theorems about PingProbe, for any number of checkers, descriptors and   *)
(* packets, and any network.                                               *)
(***************************************************************************)
EXTENDS PingProbe, FiniteSetTheorems, TLAPS

Open  == {c \in Checkers : HasSocket(c)}
Stray == {c \in Checkers : arrived[c] = "foreign"}

\* The descriptors in use are few enough, and each packet of others has been paid
\* for by what it may have cost: one socket of each checker, left open already
\* or still holding the packet.
StrayPackets == leaked + Cardinality(Stray) <= foreign * Cardinality(Checkers)
IInv == TypeOK /\ StrayPackets

(***************************************************************************)
(* Sets of checkers.                                                       *)
(***************************************************************************)
LEMMA Counts ==
    /\ \A S \in SUBSET Checkers : IsFiniteSet(S) /\ Cardinality(S) \in Nat
    /\ \A S \in SUBSET Checkers, T \in SUBSET Checkers :
          S \subseteq T => Cardinality(S) <= Cardinality(T)
<1>1. \A S \in SUBSET Checkers : IsFiniteSet(S)
  BY PingAssumption, FS_Subset
<1>2. \A S \in SUBSET Checkers : Cardinality(S) \in Nat
  BY <1>1, FS_CardinalityType
<1>3. \A S \in SUBSET Checkers, T \in SUBSET Checkers :
         S \subseteq T => Cardinality(S) <= Cardinality(T)
  BY <1>1, FS_Subset
<1>. QED  BY <1>1, <1>2, <1>3

LEMMA CountWithout ==
    ASSUME NEW S \in SUBSET Checkers, NEW c \in S
    PROVE  Cardinality(S \ {c}) = Cardinality(S) - 1
BY Counts, FS_RemoveElement

LEMMA CountWith ==
    ASSUME NEW S \in SUBSET Checkers, NEW c \in Checkers \ S
    PROVE  Cardinality(S \cup {c}) = Cardinality(S) + 1
BY Counts, FS_AddElement

(***************************************************************************)
(* The steps of a checker.                                                 *)
(***************************************************************************)
\* A checker goes on, from one place without a descriptor to another.
LEMMA Moves ==
    ASSUME IInv, NEW c \in Checkers, NEW from, NEW to \in {"look", "ping"},
           pc[c] = from, from \in {"look", "restart"},
           pc' = [pc EXCEPT ![c] = to],
           \/ from = "look" /\ UNCHANGED lost
           \/ lost' = [lost EXCEPT ![c] = 0],
           UNCHANGED <<arrived, leaked, network, tun>>
    PROVE  IInv'
<1>1. /\ pc' \in [Checkers -> {"look", "ping", "socket", "sent", "restart"}]
      /\ lost' \in [Checkers -> 0 .. MaxLost]
      /\ \A d \in Checkers : lost'[d] = MaxLost <=> pc'[d] = "restart"
  BY DEF IInv, TypeOK, MaxLost
<1>2. \A d \in Checkers : HasSocket(d)' <=> HasSocket(d)
  BY DEF IInv, TypeOK, HasSocket
<1>3. Fds' = Fds /\ Stray' = Stray
  BY <1>2 DEF Fds, Stray
<1>. QED  BY <1>1, <1>2, <1>3 DEF IInv, TypeOK, StrayPackets, network

\* The end of a ping gives back the descriptor, or leaves it open.
LEMMA PingEnds ==
    ASSUME IInv, NEW c \in Checkers, NEW to \in {"look", "restart"}, NEW n \in 0 .. MaxLost,
           n = MaxLost <=> to = "restart",
           pc[c] \in {"ping", "socket", "sent"},
           pc' = [pc EXCEPT ![c] = to],
           lost' = [lost EXCEPT ![c] = n],
           arrived' = [arrived EXCEPT ![c] = "nothing"],
           \/ leaked' = leaked
           \/ leaked' = leaked + 1 /\ c \in Stray,
           UNCHANGED <<network, tun>>
    PROVE  IInv'
<1>1. /\ pc' \in [Checkers -> {"look", "ping", "socket", "sent", "restart"}]
      /\ lost' \in [Checkers -> 0 .. MaxLost]
      /\ \A d \in Checkers : lost'[d] = MaxLost <=> pc'[d] = "restart"
      /\ arrived' \in [Checkers -> {"nothing", "answer", "foreign"}]
  BY DEF IInv, TypeOK
<1>2. \A d \in Checkers : HasSocket(d)' <=> HasSocket(d) /\ d # c
  BY DEF IInv, TypeOK, HasSocket
<1>3. \A d \in Checkers : arrived'[d] # "nothing" => HasSocket(d)'
  BY <1>2 DEF IInv, TypeOK
<1>4. Open' = Open \ {c} /\ Stray' = Stray \ {c}
  <2>1. Open' = Open \ {c}
    BY <1>2 DEF Open
  <2>2. Stray' = Stray \ {c}
    BY DEF Stray, IInv, TypeOK
  <2>. QED  BY <2>1, <2>2
<1>5. /\ Open \in SUBSET Checkers /\ Stray \in SUBSET Checkers
      /\ Open' \in SUBSET Checkers /\ Stray' \in SUBSET Checkers
  BY DEF Open, Stray
<1>6. /\ Cardinality(Open) \in Nat /\ Cardinality(Open') \in Nat
      /\ Cardinality(Stray) \in Nat /\ Cardinality(Stray') \in Nat
      /\ Cardinality(Open') <= Cardinality(Open)
      /\ Cardinality(Stray') <= Cardinality(Stray)
  BY <1>4, <1>5, Counts
<1>7. c \in Stray => /\ Cardinality(Open') = Cardinality(Open) - 1
                     /\ Cardinality(Stray') = Cardinality(Stray) - 1
  <2>. HAVE c \in Stray
  <2>1. c \in Open
    BY DEF Stray, Open, IInv, TypeOK
  <2>. QED  BY <1>4, <1>5, <2>1, CountWithout
<1>8. leaked \in Nat /\ leaked' \in Nat /\ MaxFds \in Nat
  BY PingAssumption DEF IInv, TypeOK
<1>9. leaked' + Cardinality(Open') <= leaked + Cardinality(Open)
  BY <1>6, <1>7, <1>8
<1>10. leaked' + Cardinality(Stray') <= leaked + Cardinality(Stray)
  BY <1>6, <1>7, <1>8
<1>11. Fds' <= MaxFds
  BY <1>6, <1>8, <1>9 DEF Fds, Open, IInv, TypeOK
<1>12. foreign * Cardinality(Checkers) \in Nat
  BY Counts DEF IInv, TypeOK
<1>13. StrayPackets'
  BY <1>6, <1>8, <1>10, <1>12 DEF IInv, StrayPackets, network
<1>. QED  BY <1>1, <1>3, <1>8, <1>11, <1>13 DEF IInv, TypeOK, network

LEMMA LostKeeps ==
    ASSUME IInv, NEW c \in Checkers, Lost(c), pc[c] \in {"ping", "socket", "sent"},
           \/ leaked' = leaked
           \/ leaked' = leaked + 1 /\ c \in Stray
    PROVE  IInv'
<1> DEFINE n  == lost[c] + 1
           to == IF n >= MaxLost THEN "restart" ELSE "look"
<1>1. lost[c] \in 0 .. MaxLost /\ lost[c] # MaxLost
  BY DEF IInv, TypeOK
<1>2. n \in 0 .. MaxLost /\ (n = MaxLost <=> to = "restart") /\ to \in {"look", "restart"}
  BY <1>1 DEF MaxLost
<1>3. /\ pc' = [pc EXCEPT ![c] = to]
      /\ lost' = [lost EXCEPT ![c] = n]
      /\ arrived' = [arrived EXCEPT ![c] = "nothing"]
      /\ UNCHANGED <<network, tun>>
  BY DEF Lost
<1>. HIDE DEF n, to
<1>. QED  BY <1>2, <1>3, PingEnds

LEMMA CheckerKeeps ==
    ASSUME IInv, NEW c \in Checkers,
           Step(c) \/ CannotPing(c) \/ SocketFails(c) \/ CallFails(c)
    PROVE  IInv'
<1>1. CASE Look(c) \/ Restart(c)
  BY <1>1, Moves DEF Look, Restart
<1>2. CASE OpenSocket(c)
  <2>1. /\ pc' \in [Checkers -> {"look", "ping", "socket", "sent", "restart"}]
        /\ \A d \in Checkers : lost'[d] = MaxLost <=> pc'[d] = "restart"
        /\ arrived' \in [Checkers -> {"nothing", "answer", "foreign"}]
    BY <1>2 DEF OpenSocket, IInv, TypeOK
  <2>2. \A d \in Checkers : HasSocket(d)' <=> HasSocket(d) \/ d = c
    BY <1>2 DEF OpenSocket, IInv, TypeOK, HasSocket
  <2>3. \A d \in Checkers : arrived'[d] # "nothing" => HasSocket(d)'
    BY <1>2, <2>2 DEF OpenSocket, IInv, TypeOK
  <2>4. c \notin Open /\ Open' = Open \cup {c} /\ Stray' = Stray
    <3>1. c \notin Open
      BY <1>2 DEF OpenSocket, Open, HasSocket
    <3>2. Open' = Open \cup {c}
      BY <2>2 DEF Open
    <3>3. Stray' = Stray
      BY <1>2, <3>1 DEF OpenSocket, Stray, Open, IInv, TypeOK
    <3>. QED  BY <3>1, <3>2, <3>3
  <2>5. Open \in SUBSET Checkers
    BY DEF Open
  <2>6. Cardinality(Open') = Cardinality(Open) + 1 /\ Cardinality(Open) \in Nat
    BY <2>4, <2>5, CountWith, Counts
  <2>7. Fds' <= MaxFds
    BY <1>2, <2>6, PingAssumption DEF OpenSocket, Fds, Open, IInv, TypeOK
  <2>. QED  BY <1>2, <2>1, <2>3, <2>4, <2>7 DEF OpenSocket, IInv, TypeOK, StrayPackets, network
<1>3. CASE Send(c)
  <2>1. /\ pc' \in [Checkers -> {"look", "ping", "socket", "sent", "restart"}]
        /\ \A d \in Checkers : lost'[d] = MaxLost <=> pc'[d] = "restart"
        /\ requests' \in Nat
    BY <1>3 DEF Send, IInv, TypeOK
  <2>2. \A d \in Checkers : HasSocket(d)' <=> HasSocket(d)
    BY <1>3 DEF Send, IInv, TypeOK, HasSocket
  <2>3. Fds' = Fds /\ Stray' = Stray
    BY <1>3, <2>2 DEF Send, Fds, Stray
  <2>. QED  BY <1>3, <2>1, <2>2, <2>3 DEF Send, IInv, TypeOK, StrayPackets
<1>4. CASE Timeout(c)
  BY <1>4, LostKeeps DEF Timeout
<1>5. CASE Answered(c)
  <2>1. 0 \in 0 .. MaxLost /\ 0 # MaxLost
    BY DEF MaxLost
  <2>. QED  BY <1>5, <2>1, PingEnds DEF Answered
<1>6. CASE NotTheAnswer(c)
  BY <1>6, LostKeeps DEF NotTheAnswer, Stray
<1>7. CASE CannotPing(c)
  BY <1>7 DEF CannotPing, vars, network, IInv, TypeOK, StrayPackets, Fds, HasSocket, Stray
<1>8. CASE SocketFails(c)
  BY <1>8, LostKeeps DEF SocketFails
<1>9. CASE CallFails(c)
  BY <1>9, LostKeeps DEF CallFails, HasSocket
<1>. QED  BY <1>1, <1>2, <1>3, <1>4, <1>5, <1>6, <1>7, <1>8, <1>9 DEF Step

(***************************************************************************)
(* The steps of the network.                                               *)
(***************************************************************************)
LEMMA SocketsStay ==
    ASSUME UNCHANGED <<pc, leaked>>
    PROVE  Fds' = Fds /\ \A c \in Checkers : HasSocket(c)' <=> HasSocket(c)
BY DEF Fds, HasSocket

LEMMA NetworkKeeps ==
    ASSUME IInv, Deliver \/ ForeignArrives \/ ServerChanges \/ TunChanges
    PROVE  IInv'
<1>1. CASE ServerAnswers \/ RequestLost \/ AnswerLost \/ ServerChanges \/ TunChanges
  <2>1. UNCHANGED <<pc, lost, arrived, leaked, foreign>>
    BY <1>1 DEF ServerAnswers, RequestLost, AnswerLost, ServerChanges, TunChanges, network
  <2>2. requests' \in Nat /\ answers' \in Nat
    BY <1>1 DEF ServerAnswers, RequestLost, AnswerLost, ServerChanges, TunChanges,
                network, IInv, TypeOK
  <2>3. alive' = alive \/ alive' = ~alive
    BY <1>1, Zenon DEF ServerAnswers, RequestLost, AnswerLost, ServerChanges, TunChanges, network
  <2>4. alive' \in BOOLEAN
    BY <2>3, Zenon DEF IInv, TypeOK
  <2>5. tun' \in Tuns
    BY <1>1 DEF ServerAnswers, RequestLost, AnswerLost, ServerChanges, TunChanges, IInv, TypeOK
  <2>. QED  BY <2>1, <2>2, <2>4, <2>5, SocketsStay DEF IInv, TypeOK, StrayPackets, Stray
<1>2. CASE AnswerArrives
  <2>1. /\ arrived' \in [Checkers -> {"nothing", "answer", "foreign"}]
        /\ \A c \in Checkers : arrived'[c] # "nothing" => HasSocket(c)
        /\ answers' \in Nat
    BY <1>2 DEF AnswerArrives, Arrives, IInv, TypeOK
  <2>2. Stray' = Stray
    BY <1>2 DEF AnswerArrives, Arrives, Stray, IInv, TypeOK
  <2>. QED  BY <1>2, <2>1, <2>2, SocketsStay DEF AnswerArrives, IInv, TypeOK, StrayPackets
<1>3. CASE ForeignArrives
  <2>1. /\ arrived' \in [Checkers -> {"nothing", "answer", "foreign"}]
        /\ \A c \in Checkers : arrived'[c] # "nothing" => HasSocket(c)
        /\ foreign' = foreign + 1 /\ foreign \in Nat
    BY <1>3 DEF ForeignArrives, Arrives, IInv, TypeOK
  <2>2. /\ Stray \in SUBSET Checkers /\ Stray' \in SUBSET Checkers
        /\ Checkers \in SUBSET Checkers
    BY DEF Stray
  <2> DEFINE N == Cardinality(Checkers)
             s == Cardinality(Stray)
             t == Cardinality(Stray')
  <2>3. N \in Nat /\ s \in Nat /\ t \in Nat /\ t <= N
    BY <2>2, Counts
  <2>4. leaked \in Nat /\ leaked + s <= foreign * N /\ leaked' = leaked
    BY <1>3 DEF ForeignArrives, IInv, TypeOK, StrayPackets
  <2>. HIDE DEF N, s, t
  <2>5. (foreign + 1) * N = foreign * N + N /\ foreign * N \in Nat
    BY <2>1, <2>3
  <2>6. leaked + t <= (foreign + 1) * N
    BY <2>3, <2>4, <2>5
  <2>7. StrayPackets'
    BY <2>1, <2>4, <2>6 DEF StrayPackets, N, t
  <2>. QED  BY <1>3, <2>1, <2>7, SocketsStay DEF ForeignArrives, IInv, TypeOK
<1>. QED  BY <1>1, <1>2, <1>3 DEF Deliver

LEMMA InitHolds == Init => IInv
<1>. SUFFICES ASSUME Init PROVE IInv
  OBVIOUS
<1>1. {c \in Checkers : HasSocket(c)} = {} /\ Stray = {}
  BY DEF Init, HasSocket, Stray
<1>2. Cardinality({}) = 0
  BY FS_EmptySet
<1>3. Cardinality(Checkers) \in Nat
  BY PingAssumption, FS_CardinalityType
<1>4. Fds <= MaxFds
  <2>1. leaked = 0 /\ MaxFds \in Nat
    BY PingAssumption DEF Init
  <2>2. Fds = leaked + Cardinality({})
    BY <1>1, Zenon DEF Fds
  <2>. QED  BY <1>2, <2>1, <2>2
<1>5. \A N \in Nat : 0 * N = 0
  OBVIOUS
<1>6. foreign * Cardinality(Checkers) = 0
  BY <1>3, <1>5 DEF Init
<1>7. StrayPackets
  BY <1>1, <1>2, <1>6 DEF Init, StrayPackets
<1>. QED  BY <1>4, <1>7 DEF Init, IInv, TypeOK, MaxLost

LEMMA NextHolds ==
    ASSUME IInv, [Next]_vars
    PROVE  IInv'
<1>1. CASE UNCHANGED vars
  BY <1>1 DEF vars, network, IInv, TypeOK, StrayPackets, Fds, HasSocket, Stray
<1>. QED  BY <1>1, CheckerKeeps, NetworkKeeps DEF Next

LEMMA Inductive == Spec => []IInv
BY InitHolds, NextHolds, PTL DEF Spec

\* The variables keep their types: the count of lost pings reaches three only on
\* the way to the restart, packets wait only at open sockets, and the process
\* never has more descriptors than it may.
THEOREM TypeCorrect == Spec => []TypeOK
BY Inductive, PTL DEF IInv

\* A socket stays open for ever only on account of a packet that is no answer:
\* each such packet costs at most one descriptor to each checker, however the
\* pings of the checkers, their timeouts and failures interleave.
THEOREM LeaksAreForeign == Spec => []LeakIsForeign
<1>1. IInv => LeakIsForeign
  <2>. SUFFICES ASSUME IInv PROVE LeakIsForeign
    OBVIOUS
  <2>1. Cardinality(Stray) \in Nat
    BY Counts DEF Stray
  <2>2. leaked \in Nat /\ foreign * Cardinality(Checkers) \in Nat
    BY Counts DEF IInv, TypeOK
  <2>. QED  BY <2>1, <2>2 DEF IInv, StrayPackets, LeakIsForeign
<1>. QED  BY <1>1, Inductive, PTL
=============================================================================
