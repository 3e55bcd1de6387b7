----------------------------- MODULE PingProbe -----------------------------
(***************************************************************************)
(* How a checker of vpn.c asks the server of the tunnel whether it is      *)
(* there: one round of openvpn_check_connection_task() with                *)
(* openvpn_get_connection_status(), get_server_ip_by_route(), ping() and   *)
(* check_host_status().  VpnControl has the outcome of a round only.       *)
(*                                                                         *)
(* A raw socket gets a copy of every ICMP packet that its filter lets      *)
(* through: the answers to the requests of another checker, to requests    *)
(* that have timed out, and packets of other hosts.  All requests have the *)
(* same identifier and sequence number, so that their answers are alike.   *)
(***************************************************************************)
EXTENDS Integers, Sequences, FiniteSets

CONSTANTS Checkers,    \* the threads that watch
          Tuns,        \* what may be seen of tun0
          MaxFds,      \* bound on the descriptors of the process
          MaxFlying,   \* bound on the packets in the network
          MaxForeign   \* bound on the packets of others

Rows == {"usable", "other", "unreadable"}

ASSUME PingAssumption ==
    /\ IsFiniteSet(Checkers)
    /\ Tuns \subseteq [up : BOOLEAN, route : Seq(Rows)]
    /\ MaxFds \in Nat /\ MaxFlying \in Nat /\ MaxForeign \in Nat

VARIABLES
    pc,       \* where each checker is
    lost,     \* lost_ping_count of each
    arrived,  \* the first packet at the socket of each; no other is read
    leaked,   \* how many descriptors have been left open
    requests, \* how many requests are on their way
    answers,  \* how many answers are
    foreign,  \* how many packets of others there have been
    alive,    \* does the server answer?
    tun       \* tun0: is it up and running, and the rows of the routing table

network == <<requests, answers, foreign, alive>>
vars    == <<pc, lost, arrived, leaked, network, tun>>

MaxLost == 3

HasSocket(c) == pc[c] \in {"socket", "sent"}
Fds == leaked + Cardinality({c \in Checkers : HasSocket(c)})

\* The first row for tun0 that is up, with a gateway and the mask of one host;
\* a row that cannot be read is taken for the end.
get_server_ip_by_route(route) ==
    \E k \in DOMAIN route :
        route[k] = "usable" /\ \A j \in 1 .. k - 1 : route[j] = "other"

\* Each step needs a descriptor for a moment, or takes the interface to be down.
FindsServer == Fds < MaxFds /\ tun.up /\ get_server_ip_by_route(tun.route)

Look(c) ==
    /\ pc[c] = "look" /\ FindsServer
    /\ pc' = [pc EXCEPT ![c] = "ping"]
    /\ UNCHANGED <<lost, arrived, leaked, network, tun>>

\* The round ends, and the count stays.
CannotPing(c) ==
    /\ pc[c] = "look" /\ ~FindsServer
    /\ UNCHANGED vars

OpenSocket(c) ==
    /\ pc[c] = "ping" /\ Fds < MaxFds
    /\ pc' = [pc EXCEPT ![c] = "socket"]
    /\ arrived' = [arrived EXCEPT ![c] = "nothing"]
    /\ UNCHANGED <<lost, leaked, network, tun>>

\* A request that would be one too many in the network is lost at once.
Send(c) ==
    /\ pc[c] = "socket"
    /\ pc' = [pc EXCEPT ![c] = "sent"]
    /\ requests' = IF requests + answers < MaxFlying THEN requests + 1 ELSE requests
    /\ UNCHANGED <<lost, arrived, leaked, answers, foreign, alive, tun>>

(***************************************************************************)
(* The end of a ping.                                                      *)
(***************************************************************************)
\* Mutant: one more is waited for.
LostOneMore(c) ==
    /\ lost' = [lost EXCEPT ![c] = @ + 1]
    /\ pc' = [pc EXCEPT ![c] = IF lost[c] + 1 > MaxLost THEN "restart" ELSE "look"]
    /\ arrived' = [arrived EXCEPT ![c] = "nothing"]
    /\ UNCHANGED <<network, tun>>
\* The third in a row is the one too many.
Lost(c) ==
    /\ lost' = [lost EXCEPT ![c] = @ + 1]
    /\ pc' = [pc EXCEPT ![c] = IF lost[c] + 1 >= MaxLost THEN "restart" ELSE "look"]
    /\ arrived' = [arrived EXCEPT ![c] = "nothing"]
    /\ UNCHANGED <<network, tun>>

SocketFails(c) == pc[c] = "ping" /\ Lost(c) /\ UNCHANGED leaked

\* sendto(), select() or recvfrom() fails.
CallFails(c) == HasSocket(c) /\ Lost(c) /\ UNCHANGED leaked

\* Mutant: a timeout is no loss.
TimeoutUncounted(c) ==
    /\ pc[c] = "sent" /\ arrived[c] = "nothing"
    /\ pc' = [pc EXCEPT ![c] = "look"]
    /\ UNCHANGED <<lost, arrived, leaked, network, tun>>
\* Mutant: the socket is closed by nobody.
TimeoutLeaks(c) ==
    /\ pc[c] = "sent" /\ arrived[c] = "nothing"
    /\ Lost(c) /\ leaked' = leaked + 1
Timeout(c) ==
    /\ pc[c] = "sent" /\ arrived[c] = "nothing"
    /\ Lost(c) /\ UNCHANGED leaked

Answered(c) ==
    /\ pc[c] = "sent" /\ arrived[c] = "answer"
    /\ lost' = [lost EXCEPT ![c] = 0]
    /\ pc' = [pc EXCEPT ![c] = "look"]
    /\ arrived' = [arrived EXCEPT ![c] = "nothing"]
    /\ UNCHANGED <<leaked, network, tun>>

\* A packet of another host, or another kind: the way out without a close().
NotTheAnswer(c) ==
    /\ pc[c] = "sent" /\ arrived[c] = "foreign"
    /\ Lost(c) /\ leaked' = leaked + 1

Restart(c) ==
    /\ pc[c] = "restart"
    /\ lost' = [lost EXCEPT ![c] = 0]
    /\ pc' = [pc EXCEPT ![c] = "look"]
    /\ UNCHANGED <<arrived, leaked, network, tun>>

(***************************************************************************)
(* The network and the server.                                             *)
(***************************************************************************)
Arrives(packet) ==
    arrived' = [c \in Checkers |-> IF HasSocket(c) /\ arrived[c] = "nothing"
                                  THEN packet ELSE arrived[c]]

ServerAnswers ==
    /\ requests > 0 /\ alive
    /\ requests' = requests - 1 /\ answers' = answers + 1
    /\ UNCHANGED <<pc, lost, arrived, leaked, foreign, alive, tun>>

RequestLost ==
    /\ requests > 0
    /\ requests' = requests - 1
    /\ UNCHANGED <<pc, lost, arrived, leaked, answers, foreign, alive, tun>>

AnswerLost ==
    /\ answers > 0
    /\ answers' = answers - 1
    /\ UNCHANGED <<pc, lost, arrived, leaked, requests, foreign, alive, tun>>

AnswerArrives ==
    /\ answers > 0
    /\ answers' = answers - 1
    /\ Arrives("answer")
    /\ UNCHANGED <<pc, lost, leaked, requests, foreign, alive, tun>>

ForeignArrives ==
    /\ foreign < MaxForeign
    /\ foreign' = foreign + 1
    /\ Arrives("foreign")
    /\ UNCHANGED <<pc, lost, leaked, requests, answers, alive, tun>>

ServerChanges ==
    /\ alive' = ~alive
    /\ UNCHANGED <<pc, lost, arrived, leaked, requests, answers, foreign, tun>>

TunChanges ==
    /\ tun' \in Tuns \ {tun}
    /\ UNCHANGED <<pc, lost, arrived, leaked, network>>

Deliver == ServerAnswers \/ RequestLost \/ AnswerLost \/ AnswerArrives

Step(c) == \/ Look(c) \/ OpenSocket(c) \/ Send(c) \/ Timeout(c)
           \/ Answered(c) \/ NotTheAnswer(c) \/ Restart(c)

Init ==
    /\ pc = [c \in Checkers |-> "look"]
    /\ lost = [c \in Checkers |-> 0]
    /\ arrived = [c \in Checkers |-> "nothing"]
    /\ leaked = 0 /\ requests = 0 /\ answers = 0 /\ foreign = 0
    /\ alive = TRUE /\ tun \in Tuns

Next == \/ \E c \in Checkers : Step(c) \/ CannotPing(c) \/ SocketFails(c) \/ CallFails(c)
        \/ Deliver \/ ForeignArrives \/ ServerChanges \/ TunChanges

\* The threads are scheduled, select() waits five seconds at most, and no packet
\* stays on its way for ever.
Spec == /\ Init /\ [][Next]_vars
        /\ WF_vars(Deliver) /\ \A c \in Checkers : WF_vars(Step(c))

(***************************************************************************)
(* Properties.                                                             *)
(***************************************************************************)
\* Every variable has its type; a third lost ping goes on to the restart.
TypeOK ==
    /\ pc \in [Checkers -> {"look", "ping", "socket", "sent", "restart"}]
    /\ lost \in [Checkers -> 0 .. MaxLost]
    /\ \A c \in Checkers : lost[c] = MaxLost <=> pc[c] = "restart"
    /\ arrived \in [Checkers -> {"nothing", "answer", "foreign"}]
    /\ \A c \in Checkers : arrived[c] # "nothing" => HasSocket(c)
    /\ leaked \in Nat /\ Fds <= MaxFds
    /\ requests \in Nat /\ answers \in Nat /\ foreign \in Nat
    /\ alive \in BOOLEAN /\ tun \in Tuns

\* vpn.c:523: of all ways out of check_host_status() one leaves the socket open,
\* and a packet that came from elsewhere is needed for it: each costs a checker
\* at most one descriptor.
LeakIsForeign == leaked <= foreign * Cardinality(Checkers)

\* vpn.c:652: a server that stays dead is noticed by every checker that can ask
\* it, again and again, although late answers and those to another checker still
\* count for a while, as long as there are descriptors.
DeadServerNoticed ==
    \A c \in Checkers :
        <>[](~alive /\ tun.up /\ get_server_ip_by_route(tun.route)
                /\ leaked + Cardinality(Checkers) <= MaxFds)
            => []<>(pc[c] = "restart")
=============================================================================
