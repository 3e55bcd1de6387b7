------------------------------ MODULE DeviceGet ------------------------------
(***************************************************************************)
(* The device's variant of the GET handler, src/get.c, in the children of  *)
(* the HTTP server, composed with the daemon they command (CmdChannel).    *)
(*                                                                         *)
(* A request is one unit here: how read_headers() and read_socket() take   *)
(* it from the stream is in HttpSession.  A step of a child reaches to the *)
(* next call that may block or that another process sees: connect() and    *)
(* write() on the daemon's socket, and the response.                       *)
(***************************************************************************)
EXTENDS Integers, Sequences, FiniteSets, SequencesExt

CONSTANTS Children,      \* the children of the server
          Requests,      \* what their clients may send
          MaxRequests,   \* bound on the requests of all children
          Backlog        \* the second argument of the daemon's listen()

Commands == {"CHECKSTATUS", "VPN_START", "VPN_STOP", "VPN_RESTART"}
\* apszurl in the order of the command numbers; "unknown" is any other URL.
Urls     == Commands \cup {"GET_DEVICEINFO", "unknown"}
Request  == [url : Urls, auth : {"none", "wrong", "garbled", "good"},
             malformed : BOOLEAN, close : BOOLEAN]

ASSUME DeviceAssumption ==
    /\ IsFiniteSet(Children)
    /\ Requests \subseteq Request
    /\ MaxRequests \in Nat /\ Backlog \in Nat

VARIABLES
    pc,         \* where each child is
    reqs,       \* history: the requests it has read
    keep_alive, \* its global
    out,        \* history: the responses it has sent
    conns,      \* history: the connections to the daemon, with child and request
    done,       \* history: how many of them the daemon has served
    unsent,     \* history: the requests for which opensocket() has failed
    waiting, command, phase, enabled, hangup   \* of the channel

Channel == INSTANCE CmdChannel

channel == <<waiting, command, phase, enabled, hangup>>
child   == <<pc, reqs, keep_alive, out>>
vars    == <<child, conns, done, unsent, channel>>

Current(p) == reqs[p][Len(reqs[p])]

Statuses == {"200", "200info", "400", "401", "401bad", "404url"}
Response == [req : Nat, status : Statuses]

Respond(p, status) ==
    out' = [out EXCEPT ![p] = Append(@, [req |-> Len(reqs[p]), status |-> status])]

Goes(p, to) == pc' = [pc EXCEPT ![p] = to]

(***************************************************************************)
(* http_get(): up to the call of dealwithcgi().                            *)
(***************************************************************************)
ReadRequest(p) ==
    /\ pc[p] = "request"
    /\ Cardinality(UNION {{c} \X DOMAIN reqs[c] : c \in Children}) < MaxRequests
    /\ \E r \in Requests :
          /\ reqs' = [reqs EXCEPT ![p] = Append(@, r)]
          /\ keep_alive' = [keep_alive EXCEPT ![p] = IF r.close THEN FALSE ELSE @]
    /\ Goes(p, "dispatch")
    /\ UNCHANGED <<out, conns, done, unsent, channel>>

\* A refusal closes the connection.
Refuse(p, status) ==
    /\ Respond(p, status)
    /\ keep_alive' = [keep_alive EXCEPT ![p] = FALSE]
    /\ Goes(p, "exited")
    /\ UNCHANGED <<reqs, conns, done, unsent, channel>>

Crash(p) ==
    /\ Goes(p, "crashed")
    /\ UNCHANGED <<reqs, keep_alive, out, conns, done, unsent, channel>>

\* ret is compared with INVALID before it is assigned.
UnknownUrl(p) == pc[p] = "dispatch" /\ Refuse(p, "404url")

BadRequest(p) == pc[p] = "dispatch" /\ Current(p).malformed /\ Refuse(p, "400")

WellFormed(p) == pc[p] = "dispatch" /\ ~Current(p).malformed

Unauthorized(p)  == WellFormed(p) /\ Current(p).auth = "none" /\ Refuse(p, "401")
WrongPassword(p) == WellFormed(p) /\ Current(p).auth = "wrong" /\ Refuse(p, "401bad")

\* Credentials without a colon: strchr() returns NULL, which is used.
Garbled(p) == WellFormed(p) /\ Current(p).auth = "garbled" /\ Crash(p)

\* Mutant: that there are credentials is enough.
AuthorizedByAny(p) == WellFormed(p) /\ Current(p).auth # "none"
Authorized(p)      == WellFormed(p) /\ Current(p).auth = "good"

(***************************************************************************)
(* dealwithcgi() and sendcmdtoopenvpn().                                   *)
(***************************************************************************)
\* The assertion that the URL is in the table.
AssertionFails(p) == Authorized(p) /\ Current(p).url = "unknown" /\ Crash(p)

\* backtoclient(): a response of its own, before the one of ok().
DeviceInfo(p) ==
    /\ Authorized(p) /\ Current(p).url = "GET_DEVICEINFO"
    /\ Respond(p, "200info")
    /\ Goes(p, "ok")
    /\ UNCHANGED <<reqs, keep_alive, conns, done, unsent, channel>>

SendsCommand(p) ==
    /\ Authorized(p) /\ Current(p).url \in Commands
    /\ Goes(p, "connect")
    /\ UNCHANGED <<reqs, keep_alive, out, conns, done, unsent, channel>>

\* connect() blocks while the daemon serves one connection and Backlog + 1 wait.
ConnectDaemon(p) ==
    /\ pc[p] = "connect" /\ Len(waiting) <= Backlog + 1
    /\ Channel!Connect
    /\ conns' = Append(conns, [child |-> p, req |-> Len(reqs[p])])
    /\ Goes(p, "write")
    /\ UNCHANGED <<reqs, keep_alive, out, done, unsent>>

\* Mutant: the client is told nothing either.
ConnectFailsSilently(p) ==
    /\ pc[p] = "connect"
    /\ unsent' = unsent \cup {[child |-> p, req |-> Len(reqs[p])]}
    /\ Goes(p, IF keep_alive[p] THEN "request" ELSE "exited")
    /\ UNCHANGED <<reqs, keep_alive, out, conns, done, channel>>
\* There is no socket for the child, or connect() fails, with or without a daemon:
\* the failure is printed, and the client told 200.
ConnectFails(p) ==
    /\ pc[p] = "connect"
    /\ unsent' = unsent \cup {[child |-> p, req |-> Len(reqs[p])]}
    /\ Goes(p, "ok")
    /\ UNCHANGED <<reqs, keep_alive, out, conns, done, channel>>

\* The place of the child's connection among those the daemon has not closed.
\* close() follows the write; the daemon sees the byte before the end.
ConnOf(p) == CHOOSE k \in DOMAIN conns : conns[k] = [child |-> p, req |-> Len(reqs[p])]
\* Mutant: a query writes nothing and stays connected.
WriteUnlessQuery(p) ==
    /\ pc[p] = "write" /\ phase # "gone"
    /\ IF Current(p).url = "CHECKSTATUS"
       THEN UNCHANGED channel
       ELSE Channel!Send(ConnOf(p) - done, Current(p).url)
    /\ Goes(p, "ok")
    /\ UNCHANGED <<reqs, keep_alive, out, conns, done, unsent>>
WriteCommand(p) ==
    /\ pc[p] = "write" /\ phase # "gone"
    /\ Channel!Send(ConnOf(p) - done, Current(p).url)
    /\ Goes(p, "ok")
    /\ UNCHANGED <<reqs, keep_alive, out, conns, done, unsent>>

\* SIGPIPE has its default action.
WriteBroken(p) == pc[p] = "write" /\ phase = "gone" /\ Crash(p)

\* The child is killed between connect() and write(): the daemon reads the end.
Vanish(p) ==
    /\ pc[p] = "write" /\ phase # "gone"
    /\ Channel!Send(ConnOf(p) - done, "eof")
    /\ Goes(p, "crashed")
    /\ UNCHANGED <<reqs, keep_alive, out, conns, done, unsent>>

\* ok() sends a response and passes an array on the stack of its caller to
\* free(), which may abort the child.
Ok(p) ==
    /\ pc[p] = "ok"
    /\ Respond(p, "200")
    /\ pc' \in {[pc EXCEPT ![p] = to] :
                  to \in {"crashed", IF keep_alive[p] THEN "request" ELSE "exited"}}
    /\ UNCHANGED <<reqs, keep_alive, conns, done, unsent, channel>>

ChildStep(p) ==
    \/ UnknownUrl(p) \/ BadRequest(p) \/ Unauthorized(p) \/ WrongPassword(p)
    \/ Garbled(p) \/ AssertionFails(p) \/ DeviceInfo(p) \/ SendsCommand(p)
    \/ ConnectDaemon(p) \/ ConnectFails(p) \/ WriteCommand(p) \/ WriteBroken(p) \/ Ok(p)

(***************************************************************************)
(* The daemon, as its clients know it.                                     *)
(***************************************************************************)
DaemonServes == \/ /\ Channel!Receive \/ Channel!Refuse \/ Channel!Switch
                      \/ Channel!Signal \/ Channel!Started
                   /\ UNCHANGED <<child, conns, done, unsent>>
                \/ /\ Channel!Finish
                   /\ done' = done + 1
                   /\ UNCHANGED <<child, conns, unsent>>

\* Nothing here depends on hangup, so that HangupSeen and Watchdog are left out.
DaemonElse == /\ Channel!Die \/ (enabled /\ Channel!TunnelEnds)
              /\ UNCHANGED <<child, conns, done, unsent>>

Init ==
    /\ pc = [p \in Children |-> "request"]
    /\ reqs = [p \in Children |-> <<>>]
    /\ keep_alive = [p \in Children |-> TRUE]
    /\ out = [p \in Children |-> <<>>]
    /\ conns = <<>> /\ done = 0 /\ unsent = {}
    /\ Channel!Init

Next == \/ \E p \in Children : ReadRequest(p) \/ ChildStep(p) \/ Vanish(p)
        \/ DaemonServes \/ DaemonElse

Spec == Init /\ [][Next]_vars

\* What a child does when it is scheduled.  opensocket() must fail when there is no
\* daemon, and may otherwise: a connect() that waits is not helped by it.
Scheduled(p) == ChildStep(p) /\ (phase # "gone" => unsent' = unsent)

\* Processes are scheduled; no client has to send anything.
FairSpec == Spec /\ WF_vars(DaemonServes) /\ \A p \in Children : WF_vars(Scheduled(p))

(***************************************************************************)
(* Properties.                                                             *)
(***************************************************************************)
\* Every variable has its type; the connections the daemon has served are the
\* first ones, and it holds the others.
TypeOK ==
    /\ pc \in [Children -> {"request", "dispatch", "connect", "write", "ok",
                            "exited", "crashed"}]
    /\ reqs \in [Children -> Seq(Requests)]
    /\ keep_alive \in [Children -> BOOLEAN]
    /\ out \in [Children -> Seq(Response)]
    /\ conns \in Seq([child : Children, req : Nat])
    /\ unsent \subseteq [child : Children, req : Nat]
    /\ done \in Nat /\ done + Len(waiting) = Len(conns)
    /\ Channel!TypeOK

Asked(k) == reqs[conns[k].child][conns[k].req]

\* get.c:276: nothing reaches the daemon but commands of requests with good
\* credentials.  So is the command it executes, which is an earlier one when a child
\* connects and dies, and the VPN is enabled only when somebody with credentials has
\* started it.
CommandsAuthorised ==
    /\ \A k \in DOMAIN conns : Asked(k).auth = "good" /\ Asked(k).url \in Commands
    /\ command # "0" => \E k \in 1 .. done + 1 : Asked(k).url = command
    /\ enabled => \E k \in 1 .. done + 1 : Asked(k).url = "VPN_START"

\* get.c:297: while the daemon is there, a command whose client has been told 200
\* is handed over, once, and the commands of one child in the order of its requests.
\* The 200 is wrong in one case only, that opensocket() fails; the daemon then sees
\* nothing of the request, not even a connection.
HandedOver ==
    /\ \A j, k \in DOMAIN conns :
          j < k /\ conns[j].child = conns[k].child => conns[j].req < conns[k].req
    /\ \A k \in DOMAIN conns : conns[k] \notin unsent
    /\ phase # "gone" =>
          \A p \in Children : \A i \in DOMAIN out[p] :
             LET n == out[p][i].req
                 request == [child |-> p, req |-> n]
             IN  out[p][i].status = "200" /\ reqs[p][n].url \in Commands /\ request \notin unsent
                    => \E k \in DOMAIN conns : /\ conns[k] = request
                                             /\ k > done => waiting[k - done] = reqs[p][n].url

\* Every request is answered in its turn, whatever the daemon does meanwhile: none is
\* skipped, none is left without an answer when its child goes on, and nothing
\* follows a refusal.  Device information alone is answered twice (get.c:222 and
\* 297); the client has no way to tell the second answer from one to its next request.
ResponsesInOrder ==
    \A p \in Children :
        /\ \A i \in 1 .. Len(out[p]) - 1 :
              out[p][i + 1].req = out[p][i].req + (IF out[p][i].status = "200info" THEN 0 ELSE 1)
        /\ out[p] # <<>> => out[p][1].req = 1
        /\ pc[p] \in {"request", "exited"} /\ reqs[p] # <<>> =>
              out[p] # <<>> /\ Last(out[p]).req = Len(reqs[p]) /\ Last(out[p]).status # "200info"

\* get.c:64, vpn.c:799: nobody waits in a circle. While the daemon is there, whatever
\* it waits for in read(), and has in the queue that connect() waits for, is about to
\* be written, by the child whose last connection it is; and write() does not wait.
PendingIsWritten ==
    phase # "gone" =>
        \A k \in DOMAIN waiting : waiting[k] = "pending" =>
            \E p \in Children : /\ pc[p] = "write"
                               /\ conns[done + k] = [child |-> p, req |-> Len(reqs[p])]

\* Nobody waits for ever: a child's call of connect() depends on the daemon, and
\* the daemon's read() on another child, but every request is answered, or its
\* child dies.
Waits(p) == pc[p] \notin {"request", "exited", "crashed"}
Answered == \A p \in Children : Waits(p) ~> ~Waits(p)
=============================================================================
