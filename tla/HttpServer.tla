----------------------------- MODULE HttpServer -----------------------------
(***************************************************************************)
(* The listener http_server(): accept() and fork() in a loop, and what     *)
(* becomes of descriptors and processes.                                   *)
(*                                                                         *)
(* Descriptors are those of connections; a process has at most MaxFds of   *)
(* them.  fork() gives the child a copy of each descriptor of the parent,  *)
(* and a connection ends, as its client sees it, when no process has a     *)
(* descriptor of it any more.  Of a child only what HttpSession shows is   *)
(* kept: it serves, it may end at any time while it serves (the client     *)
(* asks for it, or it dies), and once its client has gone it may read the  *)
(* end of the stream for ever.                                             *)
(***************************************************************************)
EXTENDS Integers, Sequences, FiniteSets

CONSTANTS Conns,        \* the connections clients may make
          MaxFds,       \* how many of them a process can have open
          MaxChildren,  \* how many children the process table has room for
          Backlog       \* the second argument of listen()

ASSUME ServerAssumption ==
    /\ IsFiniteSet(Conns)
    /\ MaxFds \in Nat /\ MaxChildren \in Nat /\ Backlog \in Nat

VARIABLES
    pc,             \* where the parent is
    client_sockfd,  \* the connection it has accepted last
    queue,          \* the connections not yet accepted
    fds,            \* the connections the parent has a descriptor of
    children,       \* the children, in the order of their creation
    client          \* what each client has done

vars == <<pc, client_sockfd, queue, fds, children, client>>

None == "none"

InQueue  == {queue[i] : i \in DOMAIN queue}
Live     == {i \in DOMAIN children : children[i].state # "ended"}
Served   == {children[i].conn : i \in DOMAIN children}

(***************************************************************************)
(* The parent.                                                             *)
(***************************************************************************)
\* Mutant: a client whose host cannot be resolved is passed over.
AcceptResolved ==
    /\ pc = "accept" /\ queue # <<>> /\ Cardinality(fds) < MaxFds
    /\ client_sockfd' = Head(queue)
    /\ queue' = Tail(queue)
    /\ fds' = fds \cup {client_sockfd'}
    /\ pc' \in {"fork", "accept"}
    /\ UNCHANGED <<children, client>>
Accept ==
    /\ pc = "accept" /\ queue # <<>> /\ Cardinality(fds) < MaxFds
    /\ client_sockfd' = Head(queue)
    /\ queue' = Tail(queue)
    /\ fds' = fds \cup {client_sockfd'}
    /\ pc' = "fork"
    /\ UNCHANGED <<children, client>>

\* accept() fails, as it must when no descriptor is free, whether or not a client
\* waits, and terminate(1) ends the server: client_sockfd is -1, so that no
\* connection is shut down.
\* Mutant: the failure is logged only, and the loop goes on to fork().
AcceptFailsOn ==
    /\ pc = "accept"
    /\ client_sockfd' = None
    /\ pc' = "fork"
    /\ UNCHANGED <<queue, fds, children, client>>
AcceptFails ==
    /\ pc = "accept"
    /\ client_sockfd' = None
    /\ fds' = {}
    /\ pc' = "ended"
    /\ UNCHANGED <<queue, children, client>>

\* The child serves the connection its copy of client_sockfd names.
NewChild(open) == [conn |-> client_sockfd, fds |-> open, state |-> "serving"]

\* Mutant: the parent closes the connection before it forks.
CloseAndFork ==
    /\ pc = "fork" /\ Len(children) < MaxChildren
    /\ fds' = fds \ {client_sockfd}
    /\ children' = Append(children, NewChild(fds'))
    /\ pc' = "accept"
    /\ UNCHANGED <<client_sockfd, queue, client>>
\* The parent keeps its descriptor, and waits for no child: a child that has
\* ended keeps its place in the process table.
Fork ==
    /\ pc = "fork" /\ Len(children) < MaxChildren
    /\ children' = Append(children, NewChild(fds))
    /\ pc' = "accept"
    /\ UNCHANGED <<client_sockfd, queue, fds, client>>

\* Mutant: the fork is tried again.
ForkAgain ==
    /\ pc = "fork" /\ Len(children) >= MaxChildren
    /\ UNCHANGED vars
\* fork() < 0 is not told from the parent's side of a fork.
ForkFails ==
    /\ pc = "fork" /\ Len(children) >= MaxChildren
    /\ pc' = "accept"
    /\ UNCHANGED <<client_sockfd, queue, fds, children, client>>

(***************************************************************************)
(* The children and the clients.                                           *)
(***************************************************************************)
Becomes(i, state, open) ==
    /\ children' = [children EXCEPT ![i].state = state, ![i].fds = open]
    /\ UNCHANGED <<pc, client_sockfd, queue, fds, client>>

ChildEnds(i)  == children[i].state = "serving" /\ Becomes(i, "ended", {})

ChildSpins(i) == /\ children[i].state = "serving"
                 /\ client[children[i].conn] = "closed"
                 /\ Becomes(i, "spinning", children[i].fds)

\* The listening socket is open as long as a process has it, the parent or a
\* child.
Connect(c) ==
    /\ client[c] = None
    /\ pc # "ended" \/ Live # {}
    /\ Len(queue) <= Backlog
    /\ client' = [client EXCEPT ![c] = "open"]
    /\ queue' = Append(queue, c)
    /\ UNCHANGED <<pc, client_sockfd, fds, children>>

Disconnect(c) ==
    /\ client[c] = "open"
    /\ client' = [client EXCEPT ![c] = "closed"]
    /\ UNCHANGED <<pc, client_sockfd, queue, fds, children>>

(***************************************************************************)
(* The specification.                                                      *)
(***************************************************************************)
Init ==
    /\ pc = "accept" /\ client_sockfd = None
    /\ queue = <<>> /\ fds = {} /\ children = <<>>
    /\ client = [c \in Conns |-> None]

Server == Accept \/ AcceptFails \/ Fork \/ ForkFails

Next == \/ Server
        \/ \E i \in DOMAIN children : ChildEnds(i) \/ ChildSpins(i)
        \/ \E c \in Conns : Connect(c) \/ Disconnect(c)

Spec == Init /\ [][Next]_vars

\* What the parent does when it is scheduled.  Nothing forces a client, a child to
\* end, or accept() to fail that finds a descriptor.
Scheduled ==
    Accept \/ Fork \/ ForkFails \/ (Cardinality(fds) >= MaxFds /\ AcceptFails)

FairSpec == Spec /\ WF_vars(Scheduled)

(***************************************************************************)
(* Properties.                                                             *)
(***************************************************************************)
ChildType == [conn : Conns, fds : SUBSET Conns,
              state : {"serving", "spinning", "ended"}]

\* Every variable has its type.
TypeOK ==
    /\ pc \in {"accept", "fork", "ended"}
    /\ client_sockfd \in Conns \cup {None}
    /\ pc = "fork" => client_sockfd \in Conns
    /\ queue \in Seq(Conns)
    /\ fds \in SUBSET Conns
    /\ children \in Seq(ChildType)
    /\ client \in [Conns -> {None, "open", "closed"}]

\* A child that lives has the connection it serves, and none that was accepted
\* after it was forked: it cannot keep a later client waiting for the end, and
\* no two children that live read the same connection.
OwnConnectionOnly ==
    \A i \in Live : /\ children[i].conn \in children[i].fds
                    /\ \A j \in DOMAIN children :
                          j > i => children[j].conn \notin children[i].fds

\* http_server.c:968 "Handle the new connection with a child process": a
\* connection that has been accepted has a child, or is just getting one, unless
\* the process table is full.
AcceptedIsServed ==
    \A c \in fds : \/ c \in Served
                   \/ pc = "fork" /\ client_sockfd = c
                   \/ Len(children) >= MaxChildren

\* When the process table is full, clients are accepted all the same, until the
\* descriptors run out: nobody stays in the queue of a server that runs.
QueueMoves == \A c \in Conns : c \in InQueue ~> (c \notin InQueue \/ pc = "ended")
=============================================================================
