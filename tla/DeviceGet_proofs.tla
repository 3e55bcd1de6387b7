--------------------------- MODULE DeviceGet_proofs ---------------------------
(***************************************************************************)
(* Theorems about DeviceGet, for any number of children, any requests and  *)
(* any backlog: what reaches the daemon, what its clients are told, in     *)
(* which order, and that what it waits to read is about to be written.     *)
(***************************************************************************)
EXTENDS DeviceGet, TLAPS

(***************************************************************************)
(* The inductive invariant.  CommandsAuthorised and HandedOver look at the *)
(* connections and at the responses; what leads from one to the other is   *)
(* where a child is between connect() and ok(), and what is still to be    *)
(* read on its connection.                                                 *)
(***************************************************************************)
\* The request a child is busy with, when it commands the daemon.
AtHand ==
    \A p \in Children :
        /\ pc[p] \in {"dispatch", "connect", "write", "ok"} => reqs[p] # <<>>
        /\ pc[p] \in {"connect", "write"} =>
              Current(p).auth = "good" /\ Current(p).url \in Commands

\* What the daemon has to read on a connection, from its making on.
Slot(k) == IF k <= done THEN "served" ELSE waiting[k - done]

\* Each connection is for a request with good credentials, and brings its command,
\* nothing yet, or the end; the daemon is busy only with one that has brought it.
Connections ==
    /\ \A k \in DOMAIN conns :
          /\ conns[k].req \in DOMAIN reqs[conns[k].child]
          /\ Asked(k).auth = "good" /\ Asked(k).url \in Commands
          /\ Slot(k) \in {"served", "pending", "eof", Asked(k).url}
    /\ phase \in {"received", "executing", "executed"} => Slot(done + 1) # "pending"

\* The command that is executed, and the start that enabled the VPN, are those of
\* connections made before.
CommandFrom(cmd) == \E k \in DOMAIN conns : k <= done + 1 /\ Asked(k).url = cmd
Origins ==
    /\ command # "0" => CommandFrom(command)
    /\ enabled => CommandFrom("VPN_START")

\* The connections of one child are in the order of its requests; while it writes,
\* its last one waits for the command.
OpenFor(p, n) == \E k \in DOMAIN conns : conns[k] = [child |-> p, req |-> n] /\ Slot(k) = "pending"
ChildsOrder ==
    /\ \A j, k \in DOMAIN conns :
          j < k /\ conns[j].child = conns[k].child => conns[j].req < conns[k].req
    /\ \A p \in Children : pc[p] \in {"dispatch", "connect"} =>
          \A k \in DOMAIN conns : conns[k].child = p => conns[k].req # Len(reqs[p])
    /\ \A p \in Children : pc[p] = "write" => OpenFor(p, Len(reqs[p]))

\* opensocket() has failed for a request at most when there is no connection for it,
\* and not before it is called.
Missed(p, n) == [child |-> p, req |-> n] \in unsent
Apart ==
    /\ \A u \in unsent : u.req \in DOMAIN reqs[u.child]
    /\ \A k \in DOMAIN conns : conns[k] \notin unsent
    /\ \A p \in Children : pc[p] \in {"dispatch", "connect"} => ~Missed(p, Len(reqs[p]))

\* Its command is handed over before the 200, unless opensocket() has failed for it
\* or the daemon is gone.
Handed(p, n) == \E k \in DOMAIN conns : /\ conns[k] = [child |-> p, req |-> n]
                                        /\ Slot(k) \in {"served", reqs[p][n].url}
CommandsHanded ==
    phase # "gone" =>
        \A p \in Children :
            /\ pc[p] = "ok" /\ Current(p).url \in Commands /\ ~Missed(p, Len(reqs[p])) =>
                  Handed(p, Len(reqs[p]))
            /\ \A i \in DOMAIN out[p] :
                  /\ out[p][i].status = "200" /\ reqs[p][out[p][i].req].url \in Commands
                  /\ ~Missed(p, out[p][i].req)
                  => Handed(p, out[p][i].req)

\* The last response is to the request before the one at hand, or the device
\* information that an empty 200 will follow.
AnswersUpTo(p, n) == IF out[p] = <<>> THEN n = 0
                     ELSE out[p][Len(out[p])].req = n /\ out[p][Len(out[p])].status # "200info"
Answers ==
    \A p \in Children :
        /\ \A i \in DOMAIN out[p] : out[p][i].req \in DOMAIN reqs[p]
        /\ \A i \in 1 .. Len(out[p]) - 1 :
              out[p][i + 1].req = out[p][i].req + (IF out[p][i].status = "200info" THEN 0 ELSE 1)
        /\ out[p] # <<>> => out[p][1].req = 1
        /\ pc[p] \in {"request", "exited"} => AnswersUpTo(p, Len(reqs[p]))
        /\ pc[p] \in {"dispatch", "connect", "write"} => AnswersUpTo(p, Len(reqs[p]) - 1)
        /\ pc[p] = "ok" =>
              \/ AnswersUpTo(p, Len(reqs[p]) - 1)
              \/ /\ out[p] # <<>> /\ out[p][Len(out[p])].req = Len(reqs[p])
                 /\ out[p][Len(out[p])].status = "200info"


\* A queue, when somebody joins it, leaves it, or changes in his place.
LEMMA QueueGrows ==
    ASSUME NEW S, NEW q \in Seq(S), NEW w \in S
    PROVE  /\ Append(q, w) \in Seq(S) /\ Append(q, w) # <<>> /\ Len(q) \in Nat
           /\ Len(Append(q, w)) = Len(q) + 1 /\ Append(q, w)[Len(q) + 1] = w
           /\ \A i \in 1 .. Len(q) : Append(q, w)[i] = q[i]
OBVIOUS

LEMMA QueueMovesOn ==
    ASSUME NEW S, NEW q \in Seq(S), q # <<>>
    PROVE  /\ Tail(q) \in Seq(S) /\ Len(q) \in Nat \ {0}
           /\ Len(Tail(q)) = Len(q) - 1
           /\ Head(q) = q[1] /\ Head(q) \in S
           /\ \A i \in 1 .. Len(q) - 1 : Tail(q)[i] = q[i + 1]
OBVIOUS

LEMMA QueueChanges ==
    ASSUME NEW S, NEW q \in Seq(S), NEW w \in S, NEW i
    PROVE  /\ [q EXCEPT ![i] = w] \in Seq(S)
           /\ Len([q EXCEPT ![i] = w]) = Len(q)
           /\ [q EXCEPT ![i] = w] = <<>> => q = <<>>
           /\ \A j \in 1 .. Len(q) : [q EXCEPT ![i] = w][j] = IF j = i THEN w ELSE q[j]
<1> DEFINE v == [q EXCEPT ![i] = w]
<1>1. Len(q) \in Nat /\ q \in [1 .. Len(q) -> S]
  OBVIOUS
<1>2. v \in [1 .. Len(q) -> S]
  BY <1>1
<1>3. v \in Seq(S) /\ Len(v) = Len(q)
  <2>. HIDE DEF v
  <2>. QED  BY <1>1, <1>2
<1>4. v = <<>> => q = <<>>
  <2>. HIDE DEF v
  <2>. QED  BY <1>1, <1>3
<1>5. \A j \in 1 .. Len(q) : v[j] = IF j = i THEN w ELSE q[j]
  BY <1>1
<1>. QED  BY <1>3, <1>4, <1>5

(***************************************************************************)
(* The steps of a child, by what they do to its state.                     *)
(***************************************************************************)
Controls == {"request", "dispatch", "connect", "write", "ok", "exited", "crashed"}

LEMMA GoesThere ==
    ASSUME TypeOK, NEW p \in Children, NEW to, Goes(p, to)
    PROVE  /\ pc'[p] = to
           /\ \A q \in Children : q # p => pc'[q] = pc[q]
           /\ to \in Controls => pc' \in [Children -> Controls]
BY DEF TypeOK, Goes, Controls

LEMMA Responds ==
    ASSUME TypeOK, NEW p \in Children, NEW status \in Statuses, Respond(p, status)
    PROVE  /\ out' \in [Children -> Seq(Response)]
           /\ Len(out'[p]) = Len(out[p]) + 1
           /\ \A i \in DOMAIN out[p] : out'[p][i] = out[p][i]
           /\ out'[p][Len(out[p]) + 1] = [req |-> Len(reqs[p]), status |-> status]
           /\ \A q \in Children : q # p => out'[q] = out[q]
<1> DEFINE r == [req |-> Len(reqs[p]), status |-> status]
<1>1. reqs[p] \in Seq(Requests) /\ out[p] \in Seq(Response) /\ out \in [Children -> Seq(Response)]
  BY DEF TypeOK
<1>2. r \in Response
  BY <1>1 DEF Response
<1>3. out' = [out EXCEPT ![p] = Append(out[p], r)]
  BY DEF Respond
<1>. HIDE DEF r
<1>4. Append(out[p], r) \in Seq(Response)
  BY <1>1, <1>2
<1>5. out'[p] = Append(out[p], r) /\ \A q \in Children : q # p => out'[q] = out[q]
  BY <1>1, <1>3
<1>6. out' \in [Children -> Seq(Response)]
  BY <1>1, <1>3, <1>4
<1>. QED  BY <1>1, <1>2, <1>5, <1>6 DEF r

LEMMA ReadsRequest ==
    ASSUME TypeOK, NEW p \in Children, ReadRequest(p)
    PROVE  /\ reqs' \in [Children -> Seq(Requests)]
           /\ keep_alive' \in [Children -> BOOLEAN]
           /\ Len(reqs'[p]) = Len(reqs[p]) + 1
           /\ \A i \in DOMAIN reqs[p] : reqs'[p][i] = reqs[p][i]
           /\ \A q \in Children : q # p => reqs'[q] = reqs[q]
<1>1. reqs[p] \in Seq(Requests) /\ reqs \in [Children -> Seq(Requests)]
      /\ keep_alive \in [Children -> BOOLEAN]
  BY DEF TypeOK
<1>2. PICK r \in Requests :
        /\ reqs' = [reqs EXCEPT ![p] = Append(reqs[p], r)]
        /\ keep_alive' = [keep_alive EXCEPT ![p] = IF r.close THEN FALSE ELSE keep_alive[p]]
  BY DEF ReadRequest
<1>3. Append(reqs[p], r) \in Seq(Requests)
  BY <1>1
<1>4. reqs'[p] = Append(reqs[p], r) /\ \A q \in Children : q # p => reqs'[q] = reqs[q]
  BY <1>1, <1>2
<1>5. reqs' \in [Children -> Seq(Requests)]
  BY <1>1, <1>2, <1>3
<1>6. keep_alive' \in [Children -> BOOLEAN]
  <2>1. (IF r.close THEN FALSE ELSE keep_alive[p]) \in BOOLEAN
    BY <1>1
  <2>. QED  BY <1>1, <1>2, <2>1
<1>. QED  BY <1>1, <1>4, <1>5, <1>6

LEMMA CurrentRequest ==
    ASSUME TypeOK, NEW p \in Children, reqs[p] # <<>>
    PROVE  /\ Current(p) \in Request /\ Len(reqs[p]) \in DOMAIN reqs[p]
           /\ Len(reqs[p]) \in Nat \ {0}
<1>1. reqs[p] \in Seq(Requests) /\ Len(reqs[p]) \in Nat
  BY DEF TypeOK
<1>2. Len(reqs[p]) \in 1 .. Len(reqs[p])
  BY <1>1
<1>. QED  BY <1>1, <1>2, DeviceAssumption DEF Current

(***************************************************************************)
(* Types, with what a child has at hand.                                   *)
(***************************************************************************)
\* What a child has at hand changes with its own steps only.
LEMMA AtHandKept ==
    ASSUME TypeOK, AtHand, NEW p \in Children,
           \A q \in Children : q # p => pc'[q] = pc[q] /\ reqs'[q] = reqs[q],
           pc'[p] \in {"dispatch", "connect", "write", "ok"} => reqs'[p] # <<>>,
           pc'[p] \in {"connect", "write"} =>
               Current(p)'.auth = "good" /\ Current(p)'.url \in Commands
    PROVE  AtHand'
BY DEF AtHand, Current

LEMMA ReadType ==
    ASSUME TypeOK, AtHand, NEW p \in Children, ReadRequest(p)
    PROVE  TypeOK' /\ AtHand'
<1>1. /\ pc'[p] = "dispatch" /\ \A q \in Children : q # p => pc'[q] = pc[q]
      /\ pc' \in [Children -> Controls]
  BY GoesThere DEF ReadRequest, Controls
<1>2. UNCHANGED <<out, conns, done, unsent, channel>>
  BY DEF ReadRequest
<1>3. TypeOK'
  BY <1>1, <1>2, ReadsRequest DEF TypeOK, Controls, channel, Channel!TypeOK
<1>4. reqs'[p] # <<>>
  BY ReadsRequest DEF TypeOK
<1>5. AtHand'
  BY <1>1, <1>4, ReadsRequest, AtHandKept
<1>. QED  BY <1>3, <1>5

LEMMA RefusalType ==
    ASSUME TypeOK, AtHand, NEW p \in Children, NEW status \in Statuses, Refuse(p, status)
    PROVE  TypeOK' /\ AtHand'
<1>1. /\ pc'[p] = "exited" /\ \A q \in Children : q # p => pc'[q] = pc[q]
      /\ pc' \in [Children -> Controls]
  BY GoesThere DEF Refuse, Controls
<1>2. out' \in [Children -> Seq(Response)]
  BY Responds DEF Refuse
<1>3. keep_alive' \in [Children -> BOOLEAN]
  BY DEF Refuse, TypeOK
<1>4. UNCHANGED <<reqs, conns, done, unsent, channel>>
  BY DEF Refuse
<1>5. TypeOK'
  BY <1>1, <1>2, <1>3, <1>4 DEF TypeOK, Controls, channel, Channel!TypeOK
<1>6. AtHand'
  BY <1>1, <1>4, AtHandKept
<1>. QED  BY <1>5, <1>6

\* Steps of a child that send a response or none, and leave the channel alone.
LEMMA StepType ==
    ASSUME TypeOK, AtHand, NEW p \in Children, NEW to \in Controls, Goes(p, to),
           UNCHANGED <<reqs, keep_alive, conns, done, channel>>,
           unsent' \in {unsent, unsent \cup {[child |-> p, req |-> Len(reqs[p])]}},
           out' = out \/ \E status \in Statuses : Respond(p, status),
           to \in {"dispatch", "connect", "write", "ok"} => pc[p] \notin {"request", "exited", "crashed"},
           to \in {"connect", "write"} =>
               Current(p).auth = "good" /\ Current(p).url \in Commands
    PROVE  TypeOK' /\ AtHand'
<1>1. /\ pc'[p] = to /\ \A q \in Children : q # p => pc'[q] = pc[q]
      /\ pc' \in [Children -> Controls]
  BY GoesThere
<1>2. out' \in [Children -> Seq(Response)]
  BY Responds DEF TypeOK
<1>3. TypeOK'
  <2>1. unsent' \subseteq [child : Children, req : Nat]
    BY DEF TypeOK
  <2>. QED  BY <1>1, <1>2, <2>1 DEF TypeOK, Controls, channel, Channel!TypeOK
<1>4. pc[p] \in Controls
  BY DEF TypeOK, Controls
<1>5. to \in {"dispatch", "connect", "write", "ok"} => reqs[p] # <<>>
  BY <1>4 DEF AtHand, Controls
<1>6. Current(p)' = Current(p) /\ reqs' = reqs
  BY DEF Current
<1>7. AtHand'
  BY <1>1, <1>5, <1>6, AtHandKept
<1>. QED  BY <1>3, <1>7

\* What arrives on the connection a child has made: its command, or the end.
Sends(p, w, to) ==
    /\ pc[p] = "write" /\ phase # "gone"
    /\ Channel!Send(ConnOf(p) - done, w)
    /\ Goes(p, to)
    /\ UNCHANGED <<reqs, keep_alive, out, conns, done, unsent>>
    /\ (w = Current(p).url /\ to = "ok") \/ (w = "eof" /\ to = "crashed")

LEMMA WriteIsSend ==
    ASSUME NEW p \in Children
    PROVE  /\ WriteCommand(p) => Sends(p, Current(p).url, "ok")
           /\ Vanish(p) => Sends(p, "eof", "crashed")
BY DEF WriteCommand, Vanish, Sends

LEMMA SendType ==
    ASSUME TypeOK, AtHand, NEW p \in Children, NEW w, NEW to, Sends(p, w, to)
    PROVE  TypeOK' /\ AtHand'
<1>1. /\ pc'[p] = to /\ \A q \in Children : q # p => pc'[q] = pc[q]
      /\ pc' \in [Children -> Controls] /\ to \in {"ok", "crashed"}
  BY GoesThere DEF Sends, Controls
<1>2. reqs[p] # <<>> /\ w \in Channel!Conns
  BY DEF Sends, AtHand, Channel!Conns, Commands, Channel!Commands
<1>3. /\ waiting' = [waiting EXCEPT ![ConnOf(p) - done] = w]
      /\ UNCHANGED <<command, phase, enabled, hangup>>
      /\ UNCHANGED <<reqs, keep_alive, out, conns, done, unsent>>
  BY DEF Sends, Channel!Send
<1>4. waiting' \in Seq(Channel!Conns) /\ Len(waiting') = Len(waiting)
      /\ (waiting' = <<>> => waiting = <<>>)
  BY <1>2, <1>3, QueueChanges DEF TypeOK, Channel!TypeOK
<1>5. TypeOK'
  BY <1>1, <1>3, <1>4 DEF TypeOK, Controls, Channel!TypeOK
<1>6. AtHand'
  BY <1>1, <1>2, <1>3, AtHandKept
<1>. QED  BY <1>5, <1>6

LEMMA ChildType ==
    ASSUME TypeOK, AtHand, NEW p \in Children, ChildStep(p)
    PROVE  TypeOK' /\ AtHand'
<1>1. CASE UnknownUrl(p) \/ BadRequest(p) \/ Unauthorized(p) \/ WrongPassword(p)
  BY <1>1, RefusalType DEF UnknownUrl, BadRequest, Unauthorized, WrongPassword, Statuses
<1>2. ASSUME Crash(p) PROVE TypeOK' /\ AtHand'
  BY <1>2, StepType DEF Crash, Controls
<1>3. CASE Garbled(p) \/ AssertionFails(p) \/ WriteBroken(p)
  BY <1>2, <1>3 DEF Garbled, AssertionFails, WriteBroken
<1>4. CASE DeviceInfo(p)
  BY <1>4, StepType DEF DeviceInfo, Controls, Statuses, Authorized, WellFormed
<1>5. CASE SendsCommand(p)
  BY <1>5, StepType DEF SendsCommand, Controls, Authorized, WellFormed
<1>6. CASE ConnectFails(p)
  BY <1>6, StepType DEF ConnectFails, Controls
<1>7. CASE Ok(p)
  <2>1. PICK to \in {"crashed", IF keep_alive[p] THEN "request" ELSE "exited"} : Goes(p, to)
    BY <1>7 DEF Ok, Goes
  <2>2. to \in {"crashed", "request", "exited"}
    BY <2>1
  <2>. QED  BY <1>7, <2>1, <2>2, StepType DEF Ok, Controls, Statuses
<1>8. CASE ConnectDaemon(p)
  <2>1. /\ pc'[p] = "write" /\ \A q \in Children : q # p => pc'[q] = pc[q]
        /\ pc' \in [Children -> Controls]
    BY <1>8, GoesThere DEF ConnectDaemon, Controls
  <2>2. [child |-> p, req |-> Len(reqs[p])] \in [child : Children, req : Nat]
    BY DEF TypeOK
  <2>3. conns' \in Seq([child : Children, req : Nat]) /\ Len(conns') = Len(conns) + 1
    BY <1>8, <2>2 DEF ConnectDaemon, TypeOK
  <2>4. Channel!Connect /\ UNCHANGED <<reqs, keep_alive, out, done, unsent>>
    BY <1>8 DEF ConnectDaemon
  <2>5. waiting' \in Seq(Channel!Conns) /\ Len(waiting') = Len(waiting) + 1
        /\ Len(waiting) \in Nat /\ waiting' # <<>>
    <3>1. waiting \in Seq(Channel!Conns) /\ waiting' = Append(waiting, "pending")
      BY <2>4 DEF Channel!Connect, TypeOK, Channel!TypeOK
    <3>2. "pending" \in Channel!Conns
      BY DEF Channel!Conns
    <3>. QED  BY <3>1, <3>2, QueueGrows
  <2>6. TypeOK'
    <3>1. done' + Len(waiting') = Len(conns')
      <4>1. done \in Nat /\ done + Len(waiting) = Len(conns) /\ done' = done
        BY <2>4 DEF TypeOK
      <4>. QED  BY <2>3, <2>5, <4>1
    <3>2. Channel!TypeOK'
      BY <2>4, <2>5 DEF Channel!Connect, TypeOK, Channel!TypeOK
    <3>. QED  BY <2>1, <2>3, <2>4, <3>1, <3>2 DEF TypeOK, Controls
  <2>7. reqs[p] # <<>> /\ Current(p).auth = "good" /\ Current(p).url \in Commands
    BY <1>8 DEF ConnectDaemon, AtHand
  <2>8. Current(p)' = Current(p)
    BY <2>4 DEF Current
  <2>9. AtHand'
    BY <2>1, <2>4, <2>7, <2>8, AtHandKept
  <2>. QED  BY <2>6, <2>9
<1>9. CASE WriteCommand(p)
  BY <1>9, WriteIsSend, SendType
<1>. QED  BY <1>1, <1>3, <1>4, <1>5, <1>6, <1>7, <1>8, <1>9 DEF ChildStep

LEMMA DaemonType ==
    ASSUME TypeOK, AtHand, DaemonServes \/ DaemonElse
    PROVE  TypeOK' /\ AtHand'
<1>1. UNCHANGED <<pc, reqs, keep_alive, out, conns, unsent>>
  BY DEF DaemonServes, DaemonElse, child
<1>2. AtHand'
  BY <1>1 DEF AtHand, Current
<1>3. Channel!TypeOK
  BY DEF TypeOK
<1>4. CASE Channel!Finish /\ done' = done + 1
  <2>1. waiting # <<>> /\ waiting' = Tail(waiting)
    BY <1>3, <1>4 DEF Channel!Finish, Channel!TypeOK
  <2>2. waiting' \in Seq(Channel!Conns) /\ Len(waiting') = Len(waiting) - 1
        /\ Len(waiting) \in Nat
    BY <1>3, <2>1 DEF Channel!TypeOK
  <2>3. Channel!TypeOK'
    BY <1>3, <1>4, <2>2 DEF Channel!Finish, Channel!TypeOK
  <2>4. done' \in Nat /\ done' + Len(waiting') = Len(conns')
    <3>1. done \in Nat /\ done + Len(waiting) = Len(conns) /\ conns' = conns
      BY <1>1 DEF TypeOK
    <3>2. done' = done + 1 /\ Len(waiting') = Len(waiting) - 1 /\ Len(waiting) \in Nat
      BY <1>4, <2>2
    <3>. QED  BY <3>1, <3>2
  <2>. QED  BY <1>1, <1>2, <2>3, <2>4 DEF TypeOK
<1>5. ASSUME waiting' = waiting, done' = done, Channel!TypeOK' PROVE TypeOK' /\ AtHand'
  BY <1>1, <1>2, <1>5 DEF TypeOK
<1>6. CASE Channel!Receive /\ done' = done
  <2>1. command' \in Channel!Commands \cup {"0"}
    <3>1. waiting # <<>> /\ Head(waiting) \in Channel!Conns /\ Head(waiting) # "pending"
      BY <1>3, <1>6 DEF Channel!Receive, Channel!TypeOK
    <3>. QED  BY <1>3, <1>6, <3>1 DEF Channel!Receive, Channel!TypeOK, Channel!Conns
  <2>. QED  BY <1>3, <1>5, <1>6, <2>1 DEF Channel!Receive, Channel!TypeOK
<1>7. CASE (Channel!Refuse \/ Channel!Switch) /\ done' = done
  BY <1>3, <1>5, <1>7 DEF Channel!Refuse, Channel!Switch, Channel!TypeOK
<1>8. CASE (Channel!Signal \/ Channel!Started) /\ done' = done
  BY <1>3, <1>5, <1>8 DEF Channel!Signal, Channel!Started, Channel!TypeOK
<1>9. CASE (Channel!Die \/ (enabled /\ Channel!TunnelEnds)) /\ done' = done
  BY <1>3, <1>5, <1>9 DEF Channel!Die, Channel!TunnelEnds, Channel!TypeOK
<1>. QED  BY <1>4, <1>6, <1>7, <1>8, <1>9 DEF DaemonServes, DaemonElse

LEMMA InitType == Init => TypeOK /\ AtHand
<1>. SUFFICES ASSUME Init PROVE TypeOK /\ AtHand
  OBVIOUS
<1>1. /\ \A S : <<>> \in Seq(S)
      /\ done + Len(waiting) = Len(conns)
  BY DEF Init, Channel!Init
<1>2. Channel!TypeOK
  BY <1>1 DEF Init, Channel!Init, Channel!TypeOK
<1>3. TypeOK
  BY <1>1, <1>2 DEF Init, TypeOK
<1>. QED  BY <1>3 DEF Init, AtHand

LEMMA StutterType ==
    ASSUME TypeOK, AtHand, UNCHANGED vars
    PROVE  TypeOK' /\ AtHand'
BY DEF TypeOK, AtHand, Current, vars, child, channel, Channel!TypeOK

LEMMA AtHandAlways == Spec => [](TypeOK /\ AtHand)
<1>1. ASSUME TypeOK, AtHand, [Next]_vars PROVE TypeOK' /\ AtHand'
  BY <1>1, ReadType, ChildType, WriteIsSend, SendType, DaemonType, StutterType DEF Next
<1>2. TypeOK /\ AtHand /\ [Next]_vars => TypeOK' /\ AtHand'
  BY <1>1
<1>. QED  BY <1>2, InitType, PTL DEF Spec

\* The variables keep their types; the connections that the daemon holds are
\* those it has not served.
THEOREM TypeCorrect == Spec => []TypeOK
BY AtHandAlways, PTL


(***************************************************************************)
(* The connections and what they bring.                                    *)
(***************************************************************************)
SlotMoves(k) == Slot(k)' = Slot(k) \/ (Slot(k)' = "served" /\ Slot(k) # "pending")

\* No request and no connection is forgotten, and every connection but the j-th
\* keeps what it brings until it is served.
Moves(j) ==
    /\ \A p \in Children : \A n \in DOMAIN reqs[p] :
          n \in DOMAIN reqs'[p] /\ reqs'[p][n] = reqs[p][n]
    /\ \A k \in DOMAIN conns : k \in DOMAIN conns' /\ conns'[k] = conns[k]
    /\ \A k \in DOMAIN conns : k # j => SlotMoves(k)
    /\ done' \in {done, done + 1}

LEMMA RequestsStay ==
    ASSUME TypeOK, NEW p \in Children, ReadRequest(p) \/ reqs' = reqs
    PROVE  \A q \in Children : \A n \in DOMAIN reqs[q] :
              n \in DOMAIN reqs'[q] /\ reqs'[q][n] = reqs[q][n]
<1>1. CASE ReadRequest(p)
  <2>1. reqs[p] \in Seq(Requests) /\ reqs'[p] \in Seq(Requests)
    BY <1>1, ReadsRequest DEF TypeOK
  <2>2. DOMAIN reqs[p] = 1 .. Len(reqs[p]) /\ DOMAIN reqs'[p] = 1 .. Len(reqs[p]) + 1
        /\ Len(reqs[p]) \in Nat
    BY <1>1, <2>1, ReadsRequest
  <2>3. \A n \in DOMAIN reqs[p] : n \in DOMAIN reqs'[p] /\ reqs'[p][n] = reqs[p][n]
    BY <1>1, <2>2, ReadsRequest
  <2>. QED  BY <1>1, <2>3, ReadsRequest
<1>2. CASE reqs' = reqs
  BY <1>2
<1>. QED  BY <1>1, <1>2

LEMMA ConnMeaning ==
    ASSUME TypeOK, NEW k \in DOMAIN conns
    PROVE  /\ conns[k].child \in Children /\ conns[k].req \in Nat
           /\ conns[k] = [child |-> conns[k].child, req |-> conns[k].req]
           /\ k \in 1 .. Len(conns) /\ Len(conns) \in Nat /\ done \in Nat
           /\ Len(waiting) \in Nat /\ Len(waiting) = Len(conns) - done
           /\ k > done => k - done \in 1 .. Len(waiting) /\ k - done \in DOMAIN waiting
<1>1. conns \in Seq([child : Children, req : Nat]) /\ waiting \in Seq(Channel!Conns)
      /\ done \in Nat /\ done + Len(waiting) = Len(conns)
  BY DEF TypeOK, Channel!TypeOK
<1>2. conns[k] \in [child : Children, req : Nat]
  <2> DEFINE S == [child : Children, req : Nat]
  <2>1. conns \in Seq(S)
    BY <1>1
  <2>. HIDE DEF S
  <2>2. conns[k] \in S
    BY <2>1
  <2>. QED  BY <2>2 DEF S
<1>3. k \in 1 .. Len(conns) /\ Len(conns) \in Nat /\ Len(waiting) \in Nat
      /\ DOMAIN waiting = 1 .. Len(waiting)
  BY <1>1
<1>. QED  BY <1>1, <1>2, <1>3

LEMMA SlotsConnect ==
    ASSUME TypeOK, Channel!Connect, done' = done, NEW c, conns' = Append(conns, c)
    PROVE  /\ DOMAIN conns' = 1 .. Len(conns) + 1 /\ conns'[Len(conns) + 1] = c
           /\ \A k \in DOMAIN conns : k \in DOMAIN conns' /\ conns'[k] = conns[k]
           /\ \A k \in DOMAIN conns : Slot(k)' = Slot(k)
           /\ \A k : k = Len(conns) + 1 => Slot(k)' = "pending"
<1>1. conns \in Seq([child : Children, req : Nat]) /\ waiting \in Seq(Channel!Conns)
      /\ done \in Nat /\ done + Len(waiting) = Len(conns)
      /\ Len(conns) \in Nat /\ Len(waiting) \in Nat
  BY DEF TypeOK, Channel!TypeOK
<1>2. /\ DOMAIN conns' = 1 .. Len(conns) + 1 /\ conns'[Len(conns) + 1] = c
      /\ \A k \in 1 .. Len(conns) : conns'[k] = conns[k]
      /\ DOMAIN conns = 1 .. Len(conns)
  BY <1>1
<1>3. waiting' = Append(waiting, "pending") /\ "pending" \in Channel!Conns
  BY DEF Channel!Connect, Channel!Conns
<1>4. /\ waiting'[Len(waiting) + 1] = "pending"
      /\ \A i \in 1 .. Len(waiting) : waiting'[i] = waiting[i]
  BY <1>1, <1>3, QueueGrows
<1>5. ASSUME NEW k \in 1 .. Len(conns) PROVE Slot(k)' = Slot(k)
  <2>1. CASE k <= done
    BY <2>1 DEF Slot
  <2>2. CASE ~(k <= done)
    <3>1. k - done \in 1 .. Len(waiting)
      BY <1>1, <2>2
    <3>. QED  BY <1>4, <2>2, <3>1 DEF Slot
  <2>. QED  BY <2>1, <2>2
<1>6. ASSUME NEW k, k = Len(conns) + 1 PROVE Slot(k)' = "pending"
  <2> DEFINE w == Len(waiting)
  <2>1. done \in Nat /\ w \in Nat /\ k = done + w + 1
    BY <1>1, <1>6
  <2>. HIDE DEF w
  <2>2. ~(k <= done) /\ k - done = w + 1
    BY <2>1
  <2>. QED  BY <1>4, <2>2 DEF Slot, w
<1>7. \A k \in DOMAIN conns : k \in DOMAIN conns'
  BY <1>1, <1>2
<1>. QED  BY <1>2, <1>5, <1>6, <1>7

LEMMA SlotsSend ==
    ASSUME TypeOK, NEW j \in DOMAIN conns, Slot(j) = "pending",
           NEW w \in Channel!Conns, Channel!Send(j - done, w), done' = done, conns' = conns
    PROVE  Slot(j)' = w /\ \A k \in DOMAIN conns : k # j => Slot(k)' = Slot(k)
<1>1. /\ waiting \in Seq(Channel!Conns) /\ done \in Nat /\ Len(waiting) \in Nat
      /\ j \in 1 .. Len(conns)
      /\ waiting' = [waiting EXCEPT ![j - done] = w]
  BY ConnMeaning DEF TypeOK, Channel!TypeOK, Channel!Send
<1>2. ~(j <= done) /\ j > done
  BY <1>1 DEF Slot
<1>3. j - done \in 1 .. Len(waiting)
  BY <1>2, ConnMeaning
<1>4. \A i \in 1 .. Len(waiting) : waiting'[i] = IF i = j - done THEN w ELSE waiting[i]
  BY <1>1, QueueChanges
<1>5. Slot(j)' = w
  BY <1>2, <1>3, <1>4 DEF Slot
<1>6. ASSUME NEW k \in DOMAIN conns, k # j PROVE Slot(k)' = Slot(k)
  <2>1. CASE k <= done
    BY <2>1 DEF Slot
  <2>2. CASE ~(k <= done)
    <3>1. k \in Nat /\ k - done \in 1 .. Len(waiting)
      BY <1>1, <2>2, ConnMeaning
    <3>2. k - done # j - done
      BY <1>1, <1>6, <3>1
    <3>. QED  BY <1>4, <2>2, <3>1, <3>2 DEF Slot
  <2>. QED  BY <2>1, <2>2
<1>. QED  BY <1>5, <1>6

LEMMA SlotsFinish ==
    ASSUME TypeOK, waiting # <<>>, Slot(done + 1) # "pending",
           waiting' = Tail(waiting), done' = done + 1
    PROVE  \A k \in DOMAIN conns : SlotMoves(k)
<1>1. waiting \in Seq(Channel!Conns) /\ done \in Nat /\ Len(waiting) \in Nat
  BY DEF TypeOK, Channel!TypeOK
<1>2. \A i \in 1 .. Len(waiting) - 1 : waiting'[i] = waiting[i + 1]
  BY <1>1, QueueMovesOn
<1>3. ASSUME NEW k \in DOMAIN conns PROVE SlotMoves(k)
  <2>1. k \in Nat /\ (k > done => k - done \in 1 .. Len(waiting))
    BY ConnMeaning
  <2>2. CASE k <= done
    <3>1. k <= done + 1
      BY <1>1, <2>1, <2>2
    <3>. QED  BY <2>2, <3>1 DEF Slot, SlotMoves
  <2>3. CASE k = done + 1
    <3>1. k <= done'
      BY <1>1, <2>3
    <3>. QED  BY <2>3, <3>1 DEF Slot, SlotMoves
  <2>4. CASE k > done + 1
    <3>1. /\ ~(k <= done) /\ ~(k <= done + 1) /\ k - (done + 1) \in 1 .. Len(waiting) - 1
          /\ k - (done + 1) + 1 = k - done
      BY <1>1, <2>1, <2>4
    <3>2. waiting'[k - done'] = waiting[k - done]
      BY <1>2, <3>1
    <3>. QED  BY <3>1, <3>2 DEF Slot, SlotMoves
  <2>. QED  BY <1>1, <2>1, <2>2, <2>3, <2>4
<1>. QED  BY <1>3

\* While a child writes, ConnOf() is the connection it has just made.
LEMMA OpenConnection ==
    ASSUME TypeOK, ChildsOrder, NEW p \in Children, pc[p] = "write"
    PROVE  /\ ConnOf(p) \in DOMAIN conns
           /\ conns[ConnOf(p)] = [child |-> p, req |-> Len(reqs[p])]
           /\ Slot(ConnOf(p)) = "pending"
<1> DEFINE c == [child |-> p, req |-> Len(reqs[p])]
<1>1. PICK k \in DOMAIN conns : conns[k] = c /\ Slot(k) = "pending"
  BY DEF ChildsOrder, OpenFor
<1>2. ConnOf(p) \in DOMAIN conns /\ conns[ConnOf(p)] = c
  BY <1>1 DEF ConnOf
<1>3. Len(reqs[p]) \in Nat /\ c.child = p /\ c.req = Len(reqs[p])
  BY DEF TypeOK
<1>4. ConnOf(p) \in Nat /\ k \in Nat
  BY <1>2, ConnMeaning
<1>5. ~(ConnOf(p) < k) /\ ~(k < ConnOf(p))
  <2>. HIDE DEF c
  <2>1. ~(Len(reqs[p]) < Len(reqs[p]))
    BY <1>3
  <2>. QED  BY <1>1, <1>2, <1>3, <2>1 DEF ChildsOrder
<1>6. ConnOf(p) = k
  BY <1>4, <1>5
<1>. QED  BY <1>1, <1>2, <1>6

LEMMA AskedStays ==
    ASSUME TypeOK, Connections, NEW j, Moves(j), NEW k \in DOMAIN conns
    PROVE  /\ k \in DOMAIN conns' /\ conns'[k] = conns[k] /\ Asked(k)' = Asked(k)
           /\ conns[k].child \in Children
           /\ conns[k].req \in DOMAIN reqs[conns[k].child]
           /\ conns[k].req \in DOMAIN reqs'[conns[k].child]
<1>1. conns[k].child \in Children /\ conns[k].req \in DOMAIN reqs[conns[k].child]
  BY ConnMeaning DEF Connections
<1>. QED  BY <1>1 DEF Moves, Asked

LEMMA CommandFromStays ==
    ASSUME TypeOK, Connections, NEW j, Moves(j), NEW cmd, CommandFrom(cmd)
    PROVE  CommandFrom(cmd)'
<1>1. PICK k \in DOMAIN conns : k <= done + 1 /\ Asked(k).url = cmd
  BY DEF CommandFrom
<1>2. k \in Nat /\ done \in Nat /\ done' \in {done, done + 1}
  BY ConnMeaning DEF Moves
<1>3. k <= done' + 1
  BY <1>1, <1>2
<1>4. k \in DOMAIN conns' /\ Asked(k)' = Asked(k)
  BY AskedStays
<1>. QED  BY <1>1, <1>3, <1>4 DEF CommandFrom

LEMMA HandedStays ==
    ASSUME TypeOK, Connections, NEW j, Moves(j), j \in DOMAIN conns => Slot(j) = "pending",
           NEW p \in Children, NEW n, Handed(p, n)
    PROVE  Handed(p, n)'
<1>1. PICK k \in DOMAIN conns : /\ conns[k] = [child |-> p, req |-> n]
                                /\ Slot(k) \in {"served", reqs[p][n].url}
  BY DEF Handed
<1>2. /\ Asked(k) = reqs[p][n] /\ Asked(k).url \in Commands
      /\ Asked(k)' = reqs'[p][n] /\ Asked(k)' = Asked(k)
      /\ k \in DOMAIN conns' /\ conns'[k] = conns[k]
  BY <1>1, AskedStays DEF Asked, Connections
<1>3. "pending" \notin Commands
  BY DEF Commands
<1>4. SlotMoves(k)
  BY <1>1, <1>2, <1>3 DEF Moves
<1>. QED  BY <1>1, <1>2, <1>4 DEF SlotMoves, Handed

LEMMA OpenStays ==
    ASSUME TypeOK, Connections, NEW j, Moves(j), NEW p, j \in DOMAIN conns => conns[j].child # p,
           NEW n, OpenFor(p, n)
    PROVE  OpenFor(p, n)'
<1>1. PICK k \in DOMAIN conns : conns[k] = [child |-> p, req |-> n] /\ Slot(k) = "pending"
  BY DEF OpenFor
<1>2. k # j /\ k \in DOMAIN conns' /\ conns'[k] = conns[k]
  BY <1>1 DEF Moves
<1>3. Slot(k)' = "pending"
  BY <1>1, <1>2 DEF Moves, SlotMoves
<1>. QED  BY <1>1, <1>2, <1>3 DEF OpenFor


(***************************************************************************)
(* Steps of a child that leave the daemon and the connections alone.       *)
(***************************************************************************)
Quiet == UNCHANGED <<conns, done, channel>>

LEMMA QuietMoves ==
    ASSUME TypeOK, NEW p \in Children, Quiet, ReadRequest(p) \/ reqs' = reqs
    PROVE  Moves(0) /\ 0 \notin DOMAIN conns /\ \A k : Slot(k)' = Slot(k)
<1>1. conns' = conns /\ done' = done /\ waiting' = waiting
  BY DEF Quiet, channel
<1>2. \A k : Slot(k)' = Slot(k)
  BY <1>1 DEF Slot
<1>3. 0 \notin DOMAIN conns
  BY ConnMeaning
<1>. QED  BY <1>1, <1>2, <1>3, RequestsStay DEF Moves, SlotMoves

LEMMA QuietConnections ==
    ASSUME TypeOK, Connections, Origins, NEW p \in Children, Quiet,
           ReadRequest(p) \/ reqs' = reqs
    PROVE  Connections' /\ Origins'
<1>1. Moves(0) /\ \A k : Slot(k)' = Slot(k)
  BY QuietMoves
<1>2. conns' = conns /\ done' = done /\ phase' = phase /\ command' = command /\ enabled' = enabled
  BY DEF Quiet, channel
<1>3. \A k \in DOMAIN conns : Asked(k)' = Asked(k) /\ conns[k].req \in DOMAIN reqs'[conns[k].child]
  BY <1>1, AskedStays
<1>4. Connections'
  BY <1>1, <1>2, <1>3 DEF Connections
<1>5. \A cmd : CommandFrom(cmd) => CommandFrom(cmd)'
  BY <1>1, CommandFromStays
<1>6. Origins'
  <2>1. command # "0" => CommandFrom(command)'
    <3>1. PICK cmd : cmd = command
      OBVIOUS
    <3>2. cmd # "0" => CommandFrom(cmd)'
      BY <1>5, <3>1 DEF Origins
    <3>. QED  BY <1>2, <3>1, <3>2 DEF CommandFrom
  <2>2. enabled => CommandFrom("VPN_START")'
    BY <1>5 DEF Origins
  <2>. QED  BY <1>2, <2>1, <2>2 DEF Origins
<1>. QED  BY <1>4, <1>6

LEMMA QuietOrder ==
    ASSUME TypeOK, Connections, ChildsOrder, NEW p \in Children, Quiet,
           ReadRequest(p) \/ reqs' = reqs,
           NEW to \in Controls, Goes(p, to), to # "write",
           to \in {"dispatch", "connect"} => ReadRequest(p) \/ pc[p] \in {"dispatch", "connect"}
    PROVE  ChildsOrder'
<1>1. Moves(0) /\ 0 \notin DOMAIN conns
  BY QuietMoves
<1>2. pc'[p] = to /\ \A q \in Children : q # p => pc'[q] = pc[q]
  BY GoesThere
<1>3. conns' = conns
  BY DEF Quiet
<1>4. \A q \in Children : q # p => reqs'[q] = reqs[q]
  BY ReadsRequest
<1>5. \A j, k \in DOMAIN conns' :
          j < k /\ conns'[j].child = conns'[k].child => conns'[j].req < conns'[k].req
  BY <1>3 DEF ChildsOrder
<1>6. ASSUME NEW q \in Children, pc'[q] \in {"dispatch", "connect"},
             NEW k \in DOMAIN conns', conns'[k].child = q
      PROVE  conns'[k].req # Len(reqs'[q])
  <2>1. CASE q # p
    BY <1>2, <1>3, <1>4, <1>6, <2>1 DEF ChildsOrder
  <2>2. CASE q = p /\ ReadRequest(p)
    <3>1. conns[k].req \in DOMAIN reqs[p]
      BY <1>3, <1>6, <2>2 DEF Connections
    <3>2. Len(reqs[p]) \in Nat /\ DOMAIN reqs[p] = 1 .. Len(reqs[p])
      BY DEF TypeOK
    <3>3. Len(reqs'[p]) = Len(reqs[p]) + 1
      BY <2>2, ReadsRequest
    <3>. QED  BY <1>3, <2>2, <3>1, <3>2, <3>3
  <2>3. CASE q = p /\ ~ReadRequest(p)
    BY <1>2, <1>3, <1>6, <2>3 DEF ChildsOrder
  <2>. QED  BY <2>1, <2>2, <2>3
<1>7. ASSUME NEW q \in Children, pc'[q] = "write"
      PROVE  OpenFor(q, Len(reqs[q]))'
  <2>1. q # p /\ pc[q] = "write" /\ reqs'[q] = reqs[q]
    BY <1>2, <1>4, <1>7
  <2>2. PICK n : n = Len(reqs[q])
    OBVIOUS
  <2>3. OpenFor(q, n)'
    BY <1>1, <2>1, <2>2, OpenStays DEF ChildsOrder
  <2>. QED  BY <2>1, <2>2, <2>3 DEF OpenFor
<1>. QED  BY <1>5, <1>6, <1>7 DEF ChildsOrder

\* What was handed over for the responses so far still is.
LEMMA HandedForOut ==
    ASSUME TypeOK, Connections, Answers, CommandsHanded, phase # "gone",
           NEW j, Moves(j), j \in DOMAIN conns => Slot(j) = "pending",
           NEW q \in Children, NEW i \in DOMAIN out[q], NEW r, r = out[q][i],
           r.status = "200", reqs'[q][r.req].url \in Commands, ~Missed(q, r.req)
    PROVE  Handed(q, r.req)'
<1>1. r.req \in DOMAIN reqs[q]
  BY DEF Answers
<1>2. reqs'[q][r.req] = reqs[q][r.req]
  BY <1>1 DEF Moves
<1>3. Handed(q, r.req)
  BY <1>2 DEF CommandsHanded
<1>. QED  BY <1>3, HandedStays

LEMMA QuietHanded ==
    ASSUME TypeOK, Connections, Answers, CommandsHanded, NEW p \in Children, Quiet,
           ReadRequest(p) \/ reqs' = reqs,
           unsent \subseteq unsent', NEW to \in Controls, Goes(p, to),
           to = "ok" => reqs' = reqs /\ (Current(p).url \in Commands => Missed(p, Len(reqs[p]))'),
           \/ out' = out
           \/ \E status \in Statuses :
                 Respond(p, status) /\ reqs' = reqs /\ (status = "200" => pc[p] = "ok")
    PROVE  CommandsHanded'
<1>. SUFFICES ASSUME phase' # "gone" PROVE CommandsHanded'
  BY DEF CommandsHanded
<1>1. Moves(0) /\ 0 \notin DOMAIN conns
  BY QuietMoves
<1>2. pc'[p] = to /\ \A q \in Children : q # p => pc'[q] = pc[q]
  BY GoesThere
<1>3. phase # "gone"
  BY DEF Quiet, channel
<1>4. \A q \in Children : q # p => reqs'[q] = reqs[q]
  BY ReadsRequest
<1>5. ASSUME NEW q \in Children, pc'[q] = "ok", Current(q)'.url \in Commands,
             ~Missed(q, Len(reqs[q]))'
      PROVE  Handed(q, Len(reqs[q]))'
  <2>1. q # p
    BY <1>2, <1>3, <1>5 DEF Current
  <2>2. pc[q] = "ok" /\ Current(q).url \in Commands /\ ~Missed(q, Len(reqs[q]))
    BY <1>2, <1>4, <1>5, <2>1 DEF Current, Missed
  <2>3. PICK n : n = Len(reqs[q])
    OBVIOUS
  <2>4. Handed(q, n)'
    BY <1>1, <1>3, <2>2, <2>3, HandedStays DEF CommandsHanded
  <2>. QED  BY <1>4, <2>1, <2>3, <2>4 DEF Handed
<1>6. ASSUME NEW q \in Children, NEW i \in DOMAIN out'[q], out'[q][i].status = "200",
             reqs'[q][out'[q][i].req].url \in Commands, ~Missed(q, out[q][i].req)'
      PROVE  Handed(q, out[q][i].req)'
  <2>1. PICK r : r = out'[q][i] /\ ~Missed(q, r.req)
    BY <1>6 DEF Missed
  <2>2. Handed(q, r.req)'
    <3>1. CASE i \in DOMAIN out[q] /\ out'[q][i] = out[q][i]
      BY <1>1, <1>3, <1>6, <2>1, <3>1, HandedForOut
    <3>2. CASE ~(i \in DOMAIN out[q] /\ out'[q][i] = out[q][i])
      <4>1. PICK status \in Statuses :
               Respond(p, status) /\ reqs' = reqs /\ (status = "200" => pc[p] = "ok")
        BY <1>6, <3>2
      <4>2. q = p
        BY <1>6, <3>2, <4>1, Responds
      <4>3. out[p] \in Seq(Response) /\ out'[p] \in Seq(Response)
        BY <4>1, Responds DEF TypeOK
      <4>4. i = Len(out[p]) + 1
        <5>1. Len(out'[p]) = Len(out[p]) + 1 /\ Len(out[p]) \in Nat
              /\ \A k \in DOMAIN out[p] : out'[p][k] = out[p][k]
          <6>1. Len(out[p]) \in Nat
            BY <4>3
          <6>. QED  BY <4>1, <6>1, Responds
        <5>. QED  BY <1>6, <3>2, <4>2, <4>3, <5>1
      <4>5. r = [req |-> Len(reqs[p]), status |-> status]
        BY <2>1, <4>1, <4>2, <4>4, Responds
      <4>6. pc[p] = "ok" /\ r.req = Len(reqs[p]) /\ reqs' = reqs
        BY <1>6, <2>1, <4>1, <4>5
      <4>7. Current(p).url \in Commands /\ ~Missed(p, Len(reqs[p]))
        BY <1>6, <2>1, <4>2, <4>6 DEF Current
      <4>8. Handed(p, r.req)
        BY <1>3, <4>6, <4>7 DEF CommandsHanded
      <4>. QED  BY <1>1, <4>2, <4>8, HandedStays
    <3>. QED  BY <3>1, <3>2
  <2>. QED  BY <2>1, <2>2 DEF Handed
<1>. QED  BY <1>5, <1>6 DEF CommandsHanded


\* What there is to keep about commands; with AtHand and Answers it is inductive.
CommandInv == Connections /\ Origins /\ ChildsOrder /\ CommandsHanded

LEMMA QuietKeeps ==
    ASSUME TypeOK, CommandInv, Answers, NEW p \in Children,
           ReadRequest(p) \/ (ChildStep(p) /\ ~ConnectDaemon(p) /\ ~WriteCommand(p))
    PROVE  CommandInv'
<1>. USE DEF CommandInv
<1>1. ASSUME Quiet, ReadRequest(p) \/ reqs' = reqs, unsent \subseteq unsent',
             NEW to \in Controls, Goes(p, to), to # "write",
             to \in {"dispatch", "connect"} => ReadRequest(p) \/ pc[p] \in {"dispatch", "connect"},
             to = "ok" => reqs' = reqs /\ (Current(p).url \in Commands => Missed(p, Len(reqs[p]))'),
             \/ out' = out
             \/ \E status \in Statuses :
                   Respond(p, status) /\ reqs' = reqs /\ (status = "200" => pc[p] = "ok")
      PROVE  CommandInv'
  BY <1>1, QuietConnections, QuietOrder, QuietHanded
<1>2. CASE ReadRequest(p)
  BY <1>1, <1>2 DEF ReadRequest, Quiet, Controls
<1>3. ASSUME NEW status \in Statuses \ {"200"}, Refuse(p, status) PROVE CommandInv'
  BY <1>1, <1>3 DEF Refuse, Quiet, Controls
<1>4. CASE UnknownUrl(p) \/ BadRequest(p) \/ Unauthorized(p) \/ WrongPassword(p)
  BY <1>3, <1>4 DEF UnknownUrl, BadRequest, Unauthorized, WrongPassword, Statuses
<1>5. CASE Garbled(p) \/ AssertionFails(p) \/ WriteBroken(p)
  <2>1. Crash(p)
    BY <1>5 DEF Garbled, AssertionFails, WriteBroken
  <2>. QED  BY <1>1, <2>1 DEF Crash, Quiet, Controls
<1>6. CASE DeviceInfo(p)
  BY <1>1, <1>6 DEF DeviceInfo, Quiet, Controls, Statuses, Commands
<1>7. CASE SendsCommand(p)
  BY <1>1, <1>7 DEF SendsCommand, Authorized, WellFormed, Quiet, Controls
<1>8. CASE ConnectFails(p)
  BY <1>1, <1>8 DEF ConnectFails, Quiet, Controls, Missed
<1>9. CASE Ok(p)
  <2>1. PICK to \in {"crashed", IF keep_alive[p] THEN "request" ELSE "exited"} : Goes(p, to)
    BY <1>9 DEF Ok, Goes
  <2>2. to \in {"crashed", "request", "exited"}
    BY <2>1
  <2>3. /\ Quiet /\ reqs' = reqs /\ unsent' = unsent
        /\ pc[p] = "ok" /\ Respond(p, "200") /\ "200" \in Statuses
    BY <1>9 DEF Ok, Quiet, Statuses
  <2>4. to \in Controls /\ to \notin {"write", "dispatch", "connect", "ok"}
    BY <2>2 DEF Controls
  <2>. QED  BY <1>1, <2>1, <2>3, <2>4
<1>. QED  BY <1>2, <1>4, <1>5, <1>6, <1>7, <1>8, <1>9 DEF ChildStep

LEMMA ConnectKeeps ==
    ASSUME TypeOK, AtHand, CommandInv, Answers, NEW p \in Children, ConnectDaemon(p)
    PROVE  CommandInv'
<1>. USE DEF CommandInv
<1>1. PICK c : c = [child |-> p, req |-> Len(reqs[p])]
  OBVIOUS
<1>2. PICK m : m = Len(conns) + 1
  OBVIOUS
<1>3. /\ pc[p] = "connect" /\ Channel!Connect /\ conns' = Append(conns, c)
      /\ UNCHANGED <<reqs, keep_alive, out, done, unsent>>
      /\ UNCHANGED <<command, phase, enabled, hangup>> /\ phase # "gone"
  BY <1>1 DEF ConnectDaemon, Channel!Connect
<1>4. /\ pc'[p] = "write" /\ \A q \in Children : q # p => pc'[q] = pc[q]
  BY GoesThere DEF ConnectDaemon
<1>5. /\ DOMAIN conns' = 1 .. m /\ conns'[m] = c /\ m \in DOMAIN conns'
      /\ DOMAIN conns = 1 .. Len(conns) /\ Len(conns) \in Nat
      /\ \A k \in DOMAIN conns : k \in DOMAIN conns' /\ conns'[k] = conns[k]
      /\ \A k \in DOMAIN conns : Slot(k)' = Slot(k)
      /\ Slot(m)' = "pending"
  BY <1>2, <1>3, SlotsConnect DEF TypeOK
<1>6. \A k \in DOMAIN conns' : k = m \/ k \in DOMAIN conns
  BY <1>2, <1>5
<1>7. Moves(0) /\ 0 \notin DOMAIN conns
  BY <1>3, <1>5 DEF Moves, SlotMoves
<1>8. \A k \in DOMAIN conns : Asked(k)' = Asked(k)
  BY <1>7, AskedStays
<1>9. /\ Len(reqs[p]) \in DOMAIN reqs[p] /\ Current(p).auth = "good" /\ Current(p).url \in Commands
      /\ Asked(m)' = Current(p) /\ c.child = p /\ c.req = Len(reqs[p])
  BY <1>1, <1>3, <1>5, CurrentRequest DEF AtHand, Current, Asked
<1>10. Connections'
  <2>1. \A k \in DOMAIN conns' :
          /\ conns'[k].req \in DOMAIN reqs'[conns'[k].child]
          /\ Asked(k)'.auth = "good" /\ Asked(k)'.url \in Commands
          /\ Slot(k)' \in {"served", "pending", "eof", Asked(k)'.url}
    BY <1>3, <1>5, <1>6, <1>8, <1>9 DEF Connections
  <2>2. phase' \in {"received", "executing", "executed"} => Slot(done + 1)' # "pending"
    <3>1. SUFFICES ASSUME phase \in {"received", "executing", "executed"}
                   PROVE  Slot(done + 1)' # "pending"
      BY <1>3
    <3>2. PICK k : k = done + 1
      OBVIOUS
    <3>3. waiting # <<>> /\ done + Len(waiting) = Len(conns) /\ done \in Nat
          /\ waiting \in Seq(Channel!Conns)
      BY <3>1 DEF TypeOK, Channel!TypeOK
    <3>4. Len(waiting) \in Nat \ {0}
      BY <3>3, QueueMovesOn
    <3>5. k \in DOMAIN conns
      BY <1>5, <3>2, <3>3, <3>4
    <3>6. Slot(k)' # "pending"
      BY <1>5, <3>1, <3>2, <3>5 DEF Connections
    <3>. QED  BY <1>3, <3>2, <3>6 DEF Slot
  <2>. QED  BY <2>1, <2>2 DEF Connections
<1>11. Origins'
  <2>1. \A cmd : CommandFrom(cmd) => CommandFrom(cmd)'
    BY <1>7, CommandFromStays
  <2>. QED  BY <1>3, <2>1 DEF Origins, CommandFrom
<1>12. ChildsOrder'
  <2>1. \A j, k \in DOMAIN conns' :
          j < k /\ conns'[j].child = conns'[k].child => conns'[j].req < conns'[k].req
    <3>1. \A j, k \in DOMAIN conns :
            j < k /\ conns'[j].child = conns'[k].child => conns'[j].req < conns'[k].req
      BY <1>5 DEF ChildsOrder
    <3>2. \A j \in DOMAIN conns' : ~(m < j)
      BY <1>2, <1>5
    <3>3. ASSUME NEW j \in DOMAIN conns, conns[j].child = p PROVE conns[j].req < Len(reqs[p])
      <4>1. conns[j].req \in DOMAIN reqs[p] /\ conns[j].req # Len(reqs[p])
        BY <1>3, <3>3 DEF Connections, ChildsOrder
      <4>2. Len(reqs[p]) \in Nat /\ DOMAIN reqs[p] = 1 .. Len(reqs[p])
        BY DEF TypeOK
      <4>. QED  BY <4>1, <4>2
    <3>4. ~(m < m)
      BY <1>2, <1>5
    <3>. QED  BY <1>5, <1>6, <1>9, <3>1, <3>2, <3>3, <3>4
  <2>2. ASSUME NEW q \in Children, pc'[q] \in {"dispatch", "connect"},
               NEW k \in DOMAIN conns', conns'[k].child = q
        PROVE  conns'[k].req # Len(reqs'[q])
    <3>1. q # p /\ pc[q] \in {"dispatch", "connect"}
      BY <1>4, <2>2
    <3>2. k \in DOMAIN conns
      BY <1>5, <1>6, <1>9, <2>2, <3>1
    <3>. QED  BY <1>3, <1>5, <2>2, <3>1, <3>2 DEF ChildsOrder
  <2>3. ASSUME NEW q \in Children, pc'[q] = "write"
        PROVE  OpenFor(q, Len(reqs[q]))'
    <3>1. PICK n : n = Len(reqs[q])
      OBVIOUS
    <3>2. OpenFor(q, n)'
      <4>1. CASE q = p
        BY <1>1, <1>5, <3>1, <4>1 DEF OpenFor
      <4>2. CASE q # p
        BY <1>4, <1>7, <2>3, <3>1, <4>2, OpenStays DEF ChildsOrder
      <4>. QED  BY <4>1, <4>2
    <3>. QED  BY <1>3, <3>1, <3>2 DEF OpenFor
  <2>. QED  BY <2>1, <2>2, <2>3 DEF ChildsOrder
<1>13. CommandsHanded'
  <2>1. ASSUME NEW q \in Children, pc'[q] = "ok", Current(q)'.url \in Commands,
               ~Missed(q, Len(reqs[q]))'
        PROVE  Handed(q, Len(reqs[q]))'
    <3>1. pc[q] = "ok" /\ Current(q).url \in Commands /\ ~Missed(q, Len(reqs[q]))
      BY <1>3, <1>4, <2>1 DEF Current, Missed
    <3>2. PICK n : n = Len(reqs[q])
      OBVIOUS
    <3>3. Handed(q, n)'
      BY <1>3, <1>7, <3>1, <3>2, HandedStays DEF CommandsHanded
    <3>. QED  BY <1>3, <3>2, <3>3 DEF Handed
  <2>2. ASSUME NEW q \in Children, NEW i \in DOMAIN out'[q], out'[q][i].status = "200",
               reqs'[q][out'[q][i].req].url \in Commands, ~Missed(q, out[q][i].req)'
        PROVE  Handed(q, out[q][i].req)'
    <3>1. PICK r : r = out[q][i] /\ ~Missed(q, r.req)
      BY <1>3, <2>2 DEF Missed
    <3>2. Handed(q, r.req)'
      BY <1>3, <1>7, <2>2, <3>1, HandedForOut
    <3>. QED  BY <1>3, <3>1, <3>2 DEF Handed
  <2>. QED  BY <2>1, <2>2 DEF CommandsHanded
<1>. QED  BY <1>10, <1>11, <1>12, <1>13

LEMMA SendKeeps ==
    ASSUME TypeOK, AtHand, CommandInv, Answers, NEW p \in Children,
           NEW w, NEW to, Sends(p, w, to)
    PROVE  CommandInv'
<1>. USE DEF CommandInv
<1>1. PICK j : j = ConnOf(p)
  OBVIOUS
<1>2. /\ pc[p] = "write" /\ phase # "gone" /\ Channel!Send(j - done, w)
      /\ UNCHANGED <<reqs, keep_alive, out, conns, done, unsent>>
      /\ UNCHANGED <<command, phase, enabled, hangup>>
      /\ (w = Current(p).url /\ to = "ok") \/ (w = "eof" /\ to = "crashed")
  BY <1>1 DEF Sends, Channel!Send
<1>3. /\ pc'[p] = to /\ \A q \in Children : q # p => pc'[q] = pc[q]
  BY GoesThere DEF Sends
<1>4. /\ j \in DOMAIN conns /\ conns[j] = [child |-> p, req |-> Len(reqs[p])]
      /\ Slot(j) = "pending"
  BY <1>1, <1>2, OpenConnection
<1>5. /\ reqs[p] # <<>> /\ Current(p).auth = "good" /\ Current(p).url \in Commands
      /\ w \in Channel!Conns /\ w # "pending" /\ Asked(j) = Current(p)
  BY <1>2, <1>4 DEF AtHand, Channel!Conns, Commands, Channel!Commands, Asked, Current
<1>6. Slot(j)' = w /\ \A k \in DOMAIN conns : k # j => Slot(k)' = Slot(k)
  BY <1>2, <1>4, <1>5, SlotsSend
<1>7. Moves(j) /\ (j \in DOMAIN conns => Slot(j) = "pending")
  BY <1>2, <1>4, <1>6 DEF Moves, SlotMoves
<1>8. \A k \in DOMAIN conns : Asked(k)' = Asked(k)
  BY <1>7, AskedStays
<1>9. Connections'
  <2>1. \A k \in DOMAIN conns' :
          /\ conns'[k].req \in DOMAIN reqs'[conns'[k].child]
          /\ Asked(k)'.auth = "good" /\ Asked(k)'.url \in Commands
          /\ Slot(k)' \in {"served", "pending", "eof", Asked(k)'.url}
    BY <1>2, <1>5, <1>6, <1>8 DEF Connections
  <2>2. phase' \in {"received", "executing", "executed"} => Slot(done + 1)' # "pending"
    <3>1. SUFFICES ASSUME phase \in {"received", "executing", "executed"}
                   PROVE  Slot(done + 1)' # "pending"
      BY <1>2
    <3>2. PICK k : k = done + 1
      OBVIOUS
    <3>3. waiting # <<>> /\ done + Len(waiting) = Len(conns) /\ done \in Nat
          /\ waiting \in Seq(Channel!Conns)
      BY <3>1 DEF TypeOK, Channel!TypeOK
    <3>4. Len(waiting) \in Nat \ {0} /\ Len(conns) \in Nat /\ DOMAIN conns = 1 .. Len(conns)
      BY <3>3, QueueMovesOn DEF TypeOK
    <3>5. k \in DOMAIN conns
      BY <3>2, <3>3, <3>4
    <3>6. Slot(k)' # "pending"
      BY <1>4, <1>6, <3>1, <3>2, <3>5 DEF Connections
    <3>. QED  BY <1>2, <3>2, <3>6 DEF Slot
  <2>. QED  BY <2>1, <2>2 DEF Connections
<1>10. Origins'
  <2>1. \A cmd : CommandFrom(cmd) => CommandFrom(cmd)'
    BY <1>7, CommandFromStays
  <2>. QED  BY <1>2, <2>1 DEF Origins, CommandFrom
<1>11. ChildsOrder'
  <2>1. ASSUME NEW q \in Children, pc'[q] = "write"
        PROVE  OpenFor(q, Len(reqs[q]))'
    <3>1. PICK n : n = Len(reqs[q])
      OBVIOUS
    <3>2. q # p /\ pc[q] = "write" /\ conns[j].child # q
      BY <1>2, <1>3, <1>4, <2>1
    <3>3. OpenFor(q, n)'
      BY <1>7, <3>1, <3>2, OpenStays DEF ChildsOrder
    <3>. QED  BY <1>2, <3>1, <3>3 DEF OpenFor
  <2>2. \A q \in Children : pc'[q] \in {"dispatch", "connect"} => pc[q] = pc'[q]
    BY <1>2, <1>3
  <2>. QED  BY <1>2, <2>1, <2>2 DEF ChildsOrder
<1>12. CommandsHanded'
  <2>1. ASSUME NEW q \in Children, pc'[q] = "ok", Current(q)'.url \in Commands,
               ~Missed(q, Len(reqs[q]))'
        PROVE  Handed(q, Len(reqs[q]))'
    <3>1. PICK n : n = Len(reqs[q])
      OBVIOUS
    <3>2. Handed(q, n)'
      <4>1. CASE q = p
        <5>1. reqs'[p][n] = Current(p)
          BY <1>2, <3>1, <4>1 DEF Current
        <5>2. w = Current(p).url
          BY <1>2, <1>3, <2>1, <4>1
        <5>. QED  BY <1>2, <1>4, <1>6, <3>1, <4>1, <5>1, <5>2 DEF Handed
      <4>2. CASE q # p
        <5>1. pc[q] = "ok" /\ Current(q).url \in Commands /\ ~Missed(q, Len(reqs[q]))
          BY <1>2, <1>3, <2>1, <4>2 DEF Current, Missed
        <5>. QED  BY <1>2, <1>7, <3>1, <5>1, HandedStays DEF CommandsHanded
      <4>. QED  BY <4>1, <4>2
    <3>. QED  BY <1>2, <3>1, <3>2 DEF Handed
  <2>2. ASSUME NEW q \in Children, NEW i \in DOMAIN out'[q], out'[q][i].status = "200",
               reqs'[q][out'[q][i].req].url \in Commands, ~Missed(q, out[q][i].req)'
        PROVE  Handed(q, out[q][i].req)'
    <3>1. PICK r : r = out[q][i] /\ ~Missed(q, r.req)
      BY <1>2, <2>2 DEF Missed
    <3>2. Handed(q, r.req)'
      BY <1>2, <1>7, <2>2, <3>1, HandedForOut
    <3>. QED  BY <1>2, <3>1, <3>2 DEF Handed
  <2>. QED  BY <2>1, <2>2 DEF CommandsHanded
<1>. QED  BY <1>9, <1>10, <1>11, <1>12


\* A step of the daemon moves connections on; its command is one they brought.
LEMMA DaemonKeeps ==
    ASSUME TypeOK, CommandInv, Answers, DaemonServes \/ DaemonElse
    PROVE  CommandInv'
<1>. USE DEF CommandInv
<1>1. UNCHANGED <<pc, reqs, keep_alive, out, conns, unsent>> /\ Channel!TypeOK
  BY DEF DaemonServes, DaemonElse, child, TypeOK
<1>2. /\ done \in Nat /\ conns \in Seq([child : Children, req : Nat]) /\ Len(conns) \in Nat
      /\ DOMAIN conns = 1 .. Len(conns) /\ Len(waiting) \in Nat
      /\ done + Len(waiting) = Len(conns) /\ waiting \in Seq(Channel!Conns)
  BY DEF TypeOK, Channel!TypeOK
<1>3. waiting # <<>> => done + 1 \in DOMAIN conns /\ waiting[1] = Slot(done + 1)
  <2>. SUFFICES ASSUME waiting # <<>>
                PROVE  done + 1 \in DOMAIN conns /\ waiting[1] = Slot(done + 1)
    OBVIOUS
  <2>1. Len(waiting) \in Nat \ {0}
    BY <1>2, QueueMovesOn
  <2>2. done + 1 \in 1 .. Len(conns) /\ ~(done + 1 <= done) /\ done + 1 - done = 1
    BY <1>2, <2>1
  <2>. QED  BY <1>2, <2>2 DEF Slot
<1>4. ASSUME \A k \in DOMAIN conns : SlotMoves(k), done' \in {done, done + 1}
      PROVE  Moves(0) /\ 0 \notin DOMAIN conns
  BY <1>1, <1>2, <1>4 DEF Moves
\* What a step of the daemon owes: nothing of the connections is undone, the
\* command is one they brought, a busy daemon has read one.
<1>5. ASSUME \A k \in DOMAIN conns : SlotMoves(k), done' \in {done, done + 1},
             phase' \in {"received", "executing", "executed"} => Slot(done + 1)' # "pending",
             phase' # "gone" => phase # "gone",
             command' # "0" => CommandFrom(command)',
             enabled' => enabled \/ CommandFrom("VPN_START")
      PROVE  CommandInv'
  <2>1. Moves(0) /\ 0 \notin DOMAIN conns
    BY <1>4, <1>5
  <2>2. \A k \in DOMAIN conns : Asked(k)' = Asked(k)
    BY <2>1, AskedStays
  <2>3. Connections'
    <3>1. \A k \in DOMAIN conns : Slot(k)' \in {"served", "pending", "eof", Asked(k).url}
      BY <1>5 DEF Connections, SlotMoves
    <3>. QED  BY <1>1, <1>5, <2>2, <3>1 DEF Connections
  <2>4. Origins'
    <3>1. enabled' => CommandFrom("VPN_START")'
      BY <1>5, <2>1, CommandFromStays DEF Origins
    <3>. QED  BY <1>5, <3>1 DEF Origins
  <2>5. ChildsOrder'
    <3>1. ASSUME NEW q \in Children, pc'[q] = "write"
          PROVE  OpenFor(q, Len(reqs[q]))'
      <4>1. PICK n : n = Len(reqs[q])
        OBVIOUS
      <4>2. OpenFor(q, n)'
        BY <1>1, <2>1, <3>1, <4>1, OpenStays DEF ChildsOrder
      <4>. QED  BY <1>1, <4>1, <4>2 DEF OpenFor
    <3>. QED  BY <1>1, <3>1 DEF ChildsOrder
  <2>6. CommandsHanded'
    <3>. SUFFICES ASSUME phase' # "gone" PROVE CommandsHanded'
      BY DEF CommandsHanded
    <3>1. phase # "gone"
      BY <1>5
    <3>2. ASSUME NEW q \in Children, pc'[q] = "ok", Current(q)'.url \in Commands,
                 ~Missed(q, Len(reqs[q]))'
          PROVE  Handed(q, Len(reqs[q]))'
      <4>1. PICK n : n = Len(reqs[q])
        OBVIOUS
      <4>2. Current(q)' = Current(q) /\ ~Missed(q, Len(reqs[q]))
        BY <1>1, <3>2 DEF Current, Missed
      <4>3. Handed(q, n)'
        BY <1>1, <2>1, <3>1, <3>2, <4>1, <4>2, HandedStays DEF CommandsHanded
      <4>. QED  BY <1>1, <4>1, <4>3 DEF Handed
    <3>3. ASSUME NEW q \in Children, NEW i \in DOMAIN out'[q], out'[q][i].status = "200",
                 reqs'[q][out'[q][i].req].url \in Commands, ~Missed(q, out[q][i].req)'
          PROVE  Handed(q, out[q][i].req)'
      <4>1. PICK r : r = out[q][i] /\ ~Missed(q, r.req)
        BY <1>1, <3>3 DEF Missed
      <4>2. Handed(q, r.req)'
        BY <1>1, <2>1, <3>1, <3>3, <4>1, HandedForOut
      <4>. QED  BY <1>1, <4>1, <4>2 DEF Handed
    <3>. QED  BY <3>2, <3>3 DEF CommandsHanded
  <2>. QED  BY <2>3, <2>4, <2>5, <2>6
<1>6. ASSUME waiting' = waiting, done' = done
      PROVE  /\ \A k \in DOMAIN conns : SlotMoves(k)
             /\ \A cmd : CommandFrom(cmd) => CommandFrom(cmd)'
             /\ Slot(done + 1)' = Slot(done + 1)
  BY <1>1, <1>6 DEF Slot, SlotMoves, CommandFrom, Asked
<1>7. ASSUME command' = command, \A cmd : CommandFrom(cmd) => CommandFrom(cmd)'
      PROVE  command' # "0" => CommandFrom(command)'
  <2>1. PICK cmd : cmd = command
    OBVIOUS
  <2>2. cmd # "0" => CommandFrom(cmd)'
    BY <1>7, <2>1 DEF Origins
  <2>. QED  BY <1>7, <2>1, <2>2 DEF CommandFrom
<1>8. CASE Channel!Receive /\ done' = done
  <2>1. /\ waiting # <<>> /\ Head(waiting) # "pending" /\ waiting' = waiting
        /\ command' = IF Head(waiting) = "eof" THEN command ELSE Head(waiting)
        /\ phase = "idle" /\ phase' = "received" /\ enabled' = enabled
    BY <1>8 DEF Channel!Receive
  <2>2. PICK k : k = done + 1
    OBVIOUS
  <2>3. k \in DOMAIN conns /\ Head(waiting) = Slot(k) /\ Slot(k) # "served"
    <3>1. k \in DOMAIN conns /\ Head(waiting) = Slot(k)
      BY <1>2, <1>3, <2>1, <2>2, QueueMovesOn
    <3>2. Head(waiting) \in Channel!Conns
      BY <1>2, <2>1, QueueMovesOn
    <3>. QED  BY <3>1, <3>2 DEF Channel!Conns, Channel!Commands
  <2>4. Head(waiting) \in {"eof", Asked(k).url} /\ Asked(k).url \in Commands
    BY <2>1, <2>3 DEF Connections
  <2>5. k <= done' + 1 /\ k \in DOMAIN conns' /\ Asked(k)' = Asked(k)
    BY <1>1, <1>2, <1>8, <2>2, <2>3 DEF Asked
  <2>6. CASE Head(waiting) = "eof"
    BY <1>5, <1>6, <1>7, <1>8, <2>1, <2>2, <2>3, <2>6
  <2>7. CASE Head(waiting) # "eof"
    <3>1. CommandFrom(command)'
      BY <2>1, <2>4, <2>5, <2>7 DEF CommandFrom
    <3>. QED  BY <1>5, <1>6, <1>8, <2>1, <2>2, <2>3, <3>1
  <2>. QED  BY <2>6, <2>7
<1>9. CASE (Channel!Refuse \/ Channel!Switch \/ Channel!Signal \/ Channel!Started) /\ done' = done
  <2>1. /\ waiting' = waiting /\ command' = command
        /\ phase \in {"received", "executing"} /\ phase' \in {"executing", "executed"}
        /\ enabled' => enabled \/ command = "VPN_START"
    <3>1. CASE Channel!Refuse
      BY <3>1, <1>9 DEF Channel!Refuse
    <3>2. CASE Channel!Switch
      <4>1. enabled \in BOOLEAN /\ enabled' = ~enabled
            /\ (command = "VPN_START" \/ (command = "VPN_STOP" /\ enabled))
        BY <1>1, <3>2 DEF Channel!Switch, Channel!TypeOK
      <4>2. enabled' => enabled \/ command = "VPN_START"
        BY <4>1
      <4>. QED  BY <3>2, <4>2 DEF Channel!Switch
    <3>3. CASE Channel!Signal
      BY <3>3 DEF Channel!Signal
    <3>4. CASE Channel!Started
      BY <3>4 DEF Channel!Started
    <3>. QED  BY <1>9, <3>1, <3>2, <3>3, <3>4
  <2>2. enabled' => enabled \/ CommandFrom("VPN_START")
    BY <2>1 DEF Origins
  <2>3. Slot(done + 1)' # "pending"
    BY <1>6, <1>9, <2>1 DEF Connections
  <2>. QED  BY <1>5, <1>6, <1>7, <1>9, <2>1, <2>2, <2>3
<1>10. CASE (Channel!Die \/ (enabled /\ Channel!TunnelEnds)) /\ done' = done
  <2>1. /\ waiting' = waiting /\ command' = command /\ (enabled' => enabled)
        /\ phase' = phase \/ phase' = "gone"
    BY <1>10 DEF Channel!Die, Channel!TunnelEnds
  <2>2. phase' \in {"received", "executing", "executed"} => Slot(done + 1)' # "pending"
    BY <1>6, <1>10, <2>1 DEF Connections
  <2>. QED  BY <1>5, <1>6, <1>7, <1>10, <2>1, <2>2
<1>11. CASE Channel!Finish /\ done' = done + 1
  <2>1. /\ waiting # <<>> /\ waiting' = Tail(waiting) /\ command' = command
        /\ phase = "executed" /\ phase' = "idle" /\ enabled' = enabled
    BY <1>1, <1>11 DEF Channel!Finish, Channel!TypeOK
  <2>2. \A k \in DOMAIN conns : SlotMoves(k)
    BY <1>11, <2>1, SlotsFinish DEF Connections
  <2>3. \A cmd : CommandFrom(cmd) => CommandFrom(cmd)'
    BY <1>4, <1>11, <2>2, CommandFromStays
  <2>. QED  BY <1>5, <1>7, <1>11, <2>1, <2>2, <2>3
<1>. QED  BY <1>8, <1>9, <1>10, <1>11 DEF DaemonServes, DaemonElse

(***************************************************************************)
(* The responses.                                                          *)
(***************************************************************************)
\* Sending none: the child goes on with the request at hand, or ends.
LEMMA SilentAnswers ==
    ASSUME TypeOK, AtHand, Answers, NEW p \in Children, NEW to \in Controls, Goes(p, to),
           UNCHANGED <<reqs, out>>,
           to \notin {"request", "exited", "dispatch"},
           to \in {"connect", "write", "ok"} => pc[p] \in {"dispatch", "connect", "write"}
    PROVE  Answers'
<1>1. pc'[p] = to /\ \A q \in Children : q # p => pc'[q] = pc[q]
  BY GoesThere
<1>2. \A q : \A n : AnswersUpTo(q, n)' <=> AnswersUpTo(q, n)
  BY DEF AnswersUpTo
<1>3. \A q : Len(reqs[q])' = Len(reqs[q])
  OBVIOUS
<1>4. ASSUME NEW q \in Children
      PROVE  /\ pc'[q] \in {"request", "exited"} => AnswersUpTo(q, Len(reqs[q]))
             /\ pc'[q] \in {"dispatch", "connect", "write"} => AnswersUpTo(q, Len(reqs[q]) - 1)
             /\ pc'[q] = "ok" =>
                   \/ AnswersUpTo(q, Len(reqs[q]) - 1)
                   \/ /\ out[q] # <<>> /\ out[q][Len(out[q])].req = Len(reqs[q])
                      /\ out[q][Len(out[q])].status = "200info"
  <2>1. CASE q = p
    BY <1>1, <2>1 DEF Answers, Controls
  <2>2. CASE q # p
    BY <1>1, <2>2 DEF Answers
  <2>. QED  BY <2>1, <2>2
<1>. QED  BY <1>2, <1>4 DEF Answers, AnswersUpTo

\* Sending one: it is for the request at hand, and the next one.
LEMMA AnswersOne ==
    ASSUME TypeOK, AtHand, Answers, NEW p \in Children, NEW to \in Controls, Goes(p, to),
           reqs' = reqs, NEW status \in Statuses, Respond(p, status),
           pc[p] \in {"dispatch", "ok"}, status = "200info" => pc[p] = "dispatch",
           to \in {"request", "exited"} => status # "200info",
           to \notin {"dispatch", "connect", "write"},
           to = "ok" => status = "200info"
    PROVE  Answers'
<1>1. pc'[p] = to /\ \A q \in Children : q # p => pc'[q] = pc[q]
  BY GoesThere
<1> DEFINE n == Len(reqs[p])
           m == Len(out[p])
<1>2. /\ reqs[p] # <<>> /\ n \in Nat \ {0} /\ n \in DOMAIN reqs[p]
  BY CurrentRequest DEF AtHand
<1>3. /\ out[p] \in Seq(Response) /\ m \in Nat /\ DOMAIN out[p] = 1 .. m
      /\ out'[p] \in Seq(Response) /\ (out[p] = <<>> <=> m = 0)
  <2>1. out[p] \in Seq(Response) /\ out'[p] \in Seq(Response)
    BY Responds DEF TypeOK
  <2>. QED  BY <2>1
<1>4. /\ Len(out'[p]) = m + 1 /\ \A i \in 1 .. m : out'[p][i] = out[p][i]
      /\ out'[p][m + 1].req = n /\ out'[p][m + 1].status = status
      /\ \A q \in Children : q # p => out'[q] = out[q]
  <2>1. out'[p][m + 1] = [req |-> n, status |-> status]
    BY Responds
  <2>2. out'[p][m + 1].req = n /\ out'[p][m + 1].status = status
    BY <2>1
  <2>3. Len(out'[p]) = m + 1 /\ \A q \in Children : q # p => out'[q] = out[q]
    BY Responds
  <2>4. \A i \in DOMAIN out[p] : out'[p][i] = out[p][i]
    BY Responds
  <2>. QED  BY <1>3, <2>2, <2>3, <2>4
<1>5. DOMAIN out'[p] = 1 .. m + 1 /\ out'[p] # <<>>
  <2>1. Len(out'[p]) = m + 1
    BY <1>4
  <2>. HIDE DEF m
  <2>. QED  BY <1>3, <2>1
<1>6. \/ m = 0 /\ n = 1
      \/ m # 0 /\ out[p][m].req = n - 1 /\ out[p][m].status # "200info"
      \/ m # 0 /\ out[p][m].req = n /\ out[p][m].status = "200info"
  <2>1. \/ AnswersUpTo(p, n - 1)
        \/ out[p] # <<>> /\ out[p][m].req = n /\ out[p][m].status = "200info"
    BY DEF Answers
  <2>2. AnswersUpTo(p, n - 1) => \/ m = 0 /\ n - 1 = 0
                                 \/ m # 0 /\ out[p][m].req = n - 1 /\ out[p][m].status # "200info"
    BY <1>3 DEF AnswersUpTo
  <2>3. n - 1 = 0 => n = 1
    <3>. HIDE DEF n
    <3>. QED  BY <1>2
  <2>. QED  BY <1>3, <2>1, <2>2, <2>3
<1>7. \A i \in DOMAIN out'[p] : out'[p][i].req \in DOMAIN reqs[p]
  <2>1. \A i \in 1 .. m : out[p][i].req \in DOMAIN reqs[p]
    BY <1>3 DEF Answers
  <2>2. \A i \in 1 .. m + 1 : i = m + 1 \/ i \in 1 .. m
    <3>. HIDE DEF m
    <3>. QED  BY <1>3
  <2>3. DOMAIN out'[p] = 1 .. m + 1
    BY <1>5
  <2>. HIDE DEF m, n
  <2>. QED  BY <1>2, <1>4, <2>1, <2>2, <2>3
<1>8. \A i \in 1 .. Len(out'[p]) - 1 :
        out'[p][i + 1].req = out'[p][i].req + (IF out'[p][i].status = "200info" THEN 0 ELSE 1)
  <2>1. \A i \in 1 .. m - 1 :
          out[p][i + 1].req = out[p][i].req + (IF out[p][i].status = "200info" THEN 0 ELSE 1)
    BY DEF Answers
  <2>2. m # 0 => n = out[p][m].req + (IF out[p][m].status = "200info" THEN 0 ELSE 1)
    <3>1. n - 1 + 1 = n /\ n + 0 = n
      <4>. HIDE DEF n
      <4>. QED  BY <1>2
    <3>. QED  BY <1>6, <3>1
  <2>3. Len(out'[p]) - 1 = m
    <3>1. Len(out'[p]) = m + 1
      BY <1>4
    <3>. HIDE DEF m
    <3>. QED  BY <1>3, <3>1
  <2>4. \A i \in 1 .. m : (i = m /\ m # 0) \/ (i \in 1 .. m - 1 /\ i + 1 \in 1 .. m)
    <3>. HIDE DEF m
    <3>. QED  BY <1>3
  <2>5. ASSUME NEW i \in 1 .. m
        PROVE  out'[p][i + 1].req = out'[p][i].req + (IF out'[p][i].status = "200info" THEN 0 ELSE 1)
    <3>. HIDE DEF m, n
    <3>1. CASE i = m /\ m # 0
      BY <1>4, <2>2, <3>1
    <3>2. CASE i \in 1 .. m - 1 /\ i + 1 \in 1 .. m
      BY <1>4, <2>1, <3>2
    <3>. QED  BY <2>4, <3>1, <3>2
  <2>. QED  BY <2>3, <2>5
<1>9. out'[p][1].req = 1
  <2>1. m # 0 => out[p][1].req = 1
    BY <1>3 DEF Answers
  <2>2. m # 0 => 1 \in 1 .. m
    <3>. HIDE DEF m
    <3>. QED  BY <1>3
  <2>3. m = 0 => m + 1 = 1 /\ n = 1
    BY <1>6
  <2>. HIDE DEF m, n
  <2>. QED  BY <1>4, <2>1, <2>2, <2>3
<1>10. /\ to \in {"request", "exited"} => AnswersUpTo(p, Len(reqs[p]))'
       /\ to = "ok" => /\ out'[p][Len(out'[p])].req = Len(reqs'[p])
                       /\ out'[p][Len(out'[p])].status = "200info"
  <2>1. Len(reqs'[p]) = n /\ Len(out'[p]) = m + 1
    BY <1>4
  <2>. HIDE DEF m, n
  <2>. QED  BY <1>4, <1>5, <2>1 DEF AnswersUpTo
<1>11. ASSUME NEW q \in Children, q # p
       PROVE  \A k : AnswersUpTo(q, k)' <=> AnswersUpTo(q, k)
  BY <1>4, <1>11 DEF AnswersUpTo
<1>12. ASSUME NEW q \in Children
       PROVE  /\ \A i \in DOMAIN out'[q] : out'[q][i].req \in DOMAIN reqs'[q]
              /\ \A i \in 1 .. Len(out'[q]) - 1 :
                    out'[q][i + 1].req =
                        out'[q][i].req + (IF out'[q][i].status = "200info" THEN 0 ELSE 1)
              /\ out'[q] # <<>> => out'[q][1].req = 1
  <2>1. CASE q = p
    BY <1>7, <1>8, <1>9, <2>1
  <2>2. CASE q # p
    BY <1>4, <2>2 DEF Answers
  <2>. QED  BY <2>1, <2>2
<1>13. ASSUME NEW q \in Children
       PROVE  /\ pc'[q] \in {"request", "exited"} => AnswersUpTo(q, Len(reqs[q]))'
              /\ pc'[q] \in {"dispatch", "connect", "write"} => AnswersUpTo(q, Len(reqs[q]) - 1)'
              /\ pc'[q] = "ok" =>
                    \/ AnswersUpTo(q, Len(reqs[q]) - 1)'
                    \/ /\ out'[q] # <<>> /\ out'[q][Len(out'[q])].req = Len(reqs'[q])
                       /\ out'[q][Len(out'[q])].status = "200info"
  <2>1. CASE q = p
    BY <1>1, <1>5, <1>10, <2>1
  <2>2. CASE q # p
    BY <1>1, <1>4, <2>2 DEF Answers, AnswersUpTo
  <2>. QED  BY <2>1, <2>2
<1>. QED  BY <1>12, <1>13 DEF Answers


\* Reading a request: the responses are behind by one.
LEMMA ReadAnswers ==
    ASSUME TypeOK, Answers, NEW p \in Children, ReadRequest(p)
    PROVE  Answers'
<1>1. /\ pc[p] = "request" /\ out' = out
      /\ pc'[p] = "dispatch" /\ \A q \in Children : q # p => pc'[q] = pc[q]
  BY GoesThere DEF ReadRequest
<1>2. \A q \in Children : \A i \in DOMAIN reqs[q] : i \in DOMAIN reqs'[q]
  BY RequestsStay
<1>3. \A q \in Children : q # p => reqs'[q] = reqs[q]
  BY ReadsRequest
<1>4. Len(reqs'[p]) - 1 = Len(reqs[p])
  <2>1. Len(reqs'[p]) = Len(reqs[p]) + 1 /\ Len(reqs[p]) \in Nat
    BY ReadsRequest DEF TypeOK
  <2>. QED  BY <2>1
<1>5. \A q : \A n : AnswersUpTo(q, n)' <=> AnswersUpTo(q, n)
  BY <1>1 DEF AnswersUpTo
<1>6. ASSUME NEW q \in Children
      PROVE  /\ pc'[q] \in {"request", "exited"} => AnswersUpTo(q, Len(reqs[q]))'
             /\ pc'[q] \in {"dispatch", "connect", "write"} => AnswersUpTo(q, Len(reqs[q]) - 1)'
             /\ pc'[q] = "ok" =>
                   \/ AnswersUpTo(q, Len(reqs[q]) - 1)'
                   \/ /\ out'[q] # <<>> /\ out'[q][Len(out'[q])].req = Len(reqs'[q])
                      /\ out'[q][Len(out'[q])].status = "200info"
  <2>1. CASE q = p
    <3>1. AnswersUpTo(p, Len(reqs[p]))
      BY <1>1 DEF Answers
    <3>2. AnswersUpTo(p, Len(reqs[p]) - 1)'
      BY <1>1, <1>4, <3>1 DEF AnswersUpTo
    <3>. QED  BY <1>1, <2>1, <3>2
  <2>2. CASE q # p
    BY <1>1, <1>3, <2>2 DEF Answers, AnswersUpTo
  <2>. QED  BY <2>1, <2>2
<1>7. ASSUME NEW q \in Children
      PROVE  /\ \A i \in DOMAIN out'[q] : out'[q][i].req \in DOMAIN reqs'[q]
             /\ \A i \in 1 .. Len(out'[q]) - 1 :
                   out'[q][i + 1].req =
                       out'[q][i].req + (IF out'[q][i].status = "200info" THEN 0 ELSE 1)
             /\ out'[q] # <<>> => out'[q][1].req = 1
  BY <1>1, <1>2 DEF Answers
<1>. QED  BY <1>6, <1>7 DEF Answers

LEMMA ChildAnswers ==
    ASSUME TypeOK, AtHand, Answers, NEW p \in Children, ChildStep(p)
    PROVE  Answers'
<1>1. ASSUME pc[p] = "dispatch", NEW status \in Statuses \ {"200info"}, Refuse(p, status)
      PROVE  Answers'
  BY <1>1, AnswersOne DEF Refuse, Controls
<1>2. CASE UnknownUrl(p) \/ BadRequest(p) \/ Unauthorized(p) \/ WrongPassword(p)
  BY <1>1, <1>2 DEF UnknownUrl, BadRequest, Unauthorized, WrongPassword, WellFormed, Statuses
<1>3. CASE Garbled(p) \/ AssertionFails(p) \/ WriteBroken(p)
  <2>1. Crash(p)
    BY <1>3 DEF Garbled, AssertionFails, WriteBroken
  <2>. QED  BY <2>1, SilentAnswers DEF Crash, Controls
<1>4. CASE DeviceInfo(p)
  BY <1>4, AnswersOne DEF DeviceInfo, Authorized, WellFormed, Controls, Statuses
<1>5. CASE SendsCommand(p)
  BY <1>5, SilentAnswers DEF SendsCommand, Authorized, WellFormed, Controls
<1>6. CASE ConnectDaemon(p) \/ ConnectFails(p) \/ WriteCommand(p)
  <2>1. PICK to \in {"write", "ok"} : Goes(p, to) /\ UNCHANGED <<reqs, out>>
    BY <1>6 DEF ConnectDaemon, ConnectFails, WriteCommand
  <2>2. pc[p] \in {"connect", "write"}
    BY <1>6 DEF ConnectDaemon, ConnectFails, WriteCommand
  <2>. QED  BY <2>1, <2>2, SilentAnswers DEF Controls
<1>7. CASE Ok(p)
  <2>1. PICK to \in {"crashed", IF keep_alive[p] THEN "request" ELSE "exited"} : Goes(p, to)
    BY <1>7 DEF Ok, Goes
  <2>2. to \in {"crashed", "request", "exited"}
    BY <2>1
  <2>3. reqs' = reqs /\ pc[p] = "ok" /\ Respond(p, "200") /\ "200" \in Statuses
    BY <1>7 DEF Ok, Statuses
  <2>4. to \in Controls /\ to \notin {"write", "dispatch", "connect", "ok"}
    BY <2>2 DEF Controls
  <2>. QED  BY <2>1, <2>3, <2>4, AnswersOne
<1>. QED  BY <1>2, <1>3, <1>4, <1>5, <1>6, <1>7 DEF ChildStep

LEMMA OthersAnswers ==
    ASSUME Answers, UNCHANGED child
    PROVE  Answers'
BY DEF Answers, AnswersUpTo, child

LEMMA StutterKeeps ==
    ASSUME CommandInv, UNCHANGED vars
    PROVE  CommandInv'
<1>1. UNCHANGED <<pc, reqs, out, conns, done, unsent, waiting, command, phase, enabled>>
  BY DEF vars, child, channel
<1>2. /\ \A k : Slot(k)' = Slot(k) /\ Asked(k)' = Asked(k)
      /\ \A cmd : CommandFrom(cmd)' <=> CommandFrom(cmd)
      /\ \A q : Current(q)' = Current(q)
  BY <1>1 DEF Slot, Asked, CommandFrom, Current
<1>3. Connections' /\ Origins'
  BY <1>1, <1>2 DEF CommandInv, Connections, Origins, CommandFrom, Slot, Asked
<1>4. ChildsOrder'
  BY <1>1, <1>2 DEF CommandInv, ChildsOrder, OpenFor, Slot
<1>5. CommandsHanded'
  BY <1>1, <1>2 DEF CommandInv, CommandsHanded, Handed, Missed, Slot, Current
<1>. QED  BY <1>3, <1>4, <1>5 DEF CommandInv

(***************************************************************************)
(* Requests for which opensocket() has failed, and connections.            *)
(***************************************************************************)
\* Connections, requests and failures stay; no child comes to its call of
\* opensocket() but by reading a request.
LEMMA ApartKept ==
    ASSUME TypeOK, Apart, unsent' = unsent, conns' = conns, NEW p \in Children,
           ReadRequest(p) \/ (reqs' = reqs /\ (pc'[p] \in {"dispatch", "connect"} =>
                                                  pc[p] \in {"dispatch", "connect"})),
           \A q \in Children : q # p => pc'[q] = pc[q]
    PROVE  Apart'
<1>1. \A q \in Children : q # p => reqs'[q] = reqs[q]
  BY ReadsRequest
<1>2. ASSUME NEW u \in unsent PROVE u.req \in DOMAIN reqs'[u.child]
  <2>1. u.child \in Children /\ u.req \in DOMAIN reqs[u.child]
    BY DEF TypeOK, Apart
  <2>. QED  BY <2>1, RequestsStay
<1>3. ASSUME NEW q \in Children, pc'[q] \in {"dispatch", "connect"}
      PROVE  ~Missed(q, Len(reqs[q]))'
  <2>1. CASE q = p /\ ReadRequest(p)
    <3>. SUFFICES ASSUME Missed(p, Len(reqs[p]))' PROVE FALSE
      BY <2>1
    <3>1. PICK u \in unsent : u = [child |-> p, req |-> Len(reqs'[p])]
      BY DEF Missed
    <3>2. Len(reqs'[p]) \in DOMAIN reqs[p]
      BY <3>1 DEF Apart
    <3>3. Len(reqs'[p]) = Len(reqs[p]) + 1 /\ Len(reqs[p]) \in Nat
          /\ DOMAIN reqs[p] = 1 .. Len(reqs[p])
      BY <2>1, ReadsRequest DEF TypeOK
    <3>. QED  BY <3>2, <3>3
  <2>2. CASE ~(q = p /\ ReadRequest(p))
    <3>1. reqs'[q] = reqs[q] /\ pc[q] \in {"dispatch", "connect"}
      BY <1>1, <1>3, <2>2
    <3>. QED  BY <3>1 DEF Apart, Missed
  <2>. QED  BY <2>1, <2>2
<1>. QED  BY <1>2, <1>3 DEF Apart

LEMMA ConnectApart ==
    ASSUME TypeOK, Apart, NEW p \in Children, ConnectDaemon(p)
    PROVE  Apart'
<1>1. PICK c : c = [child |-> p, req |-> Len(reqs[p])]
  OBVIOUS
<1>2. /\ pc[p] = "connect" /\ Channel!Connect /\ conns' = Append(conns, c)
      /\ UNCHANGED <<reqs, done, unsent>>
  BY <1>1 DEF ConnectDaemon
<1>3. pc'[p] = "write" /\ \A q \in Children : q # p => pc'[q] = pc[q]
  BY GoesThere DEF ConnectDaemon
<1>4. c \notin unsent
  BY <1>1, <1>2 DEF Apart, Missed
<1>5. /\ DOMAIN conns' = 1 .. Len(conns) + 1 /\ conns'[Len(conns) + 1] = c
      /\ DOMAIN conns = 1 .. Len(conns) /\ Len(conns) \in Nat
      /\ \A k \in DOMAIN conns : conns'[k] = conns[k]
  BY <1>2, SlotsConnect DEF TypeOK
<1>6. \A k \in DOMAIN conns' : conns'[k] \notin unsent
  <2>1. \A k \in DOMAIN conns' : k = Len(conns) + 1 \/ k \in DOMAIN conns
    BY <1>5
  <2>. QED  BY <1>4, <1>5, <2>1 DEF Apart
<1>7. \A q \in Children : pc'[q] \in {"dispatch", "connect"} => ~Missed(q, Len(reqs[q]))'
  <2>1. \A q \in Children : pc'[q] \in {"dispatch", "connect"} => pc[q] \in {"dispatch", "connect"}
    BY <1>3
  <2>. QED  BY <1>2, <2>1 DEF Apart, Missed
<1>. QED  BY <1>2, <1>6, <1>7 DEF Apart

LEMMA FailureApart ==
    ASSUME TypeOK, AtHand, ChildsOrder, Apart, NEW p \in Children, ConnectFails(p)
    PROVE  Apart'
<1>1. PICK c : c = [child |-> p, req |-> Len(reqs[p])]
  OBVIOUS
<1>2. /\ pc[p] = "connect" /\ unsent' = unsent \cup {c} /\ UNCHANGED <<reqs, conns>>
  BY <1>1 DEF ConnectFails
<1>3. pc'[p] = "ok" /\ \A q \in Children : q # p => pc'[q] = pc[q]
  BY GoesThere DEF ConnectFails
<1>4. c.child = p /\ c.req = Len(reqs[p]) /\ c.req \in DOMAIN reqs[p]
  BY <1>1, <1>2, CurrentRequest DEF AtHand
<1>5. \A u \in unsent' : u.req \in DOMAIN reqs'[u.child]
  BY <1>2, <1>4 DEF Apart
<1>6. ASSUME NEW k \in DOMAIN conns' PROVE conns'[k] \notin unsent'
  <2>1. conns[k] # c
    BY <1>2, <1>4, <1>6 DEF ChildsOrder
  <2>. QED  BY <1>2, <1>6, <2>1 DEF Apart
<1>7. ASSUME NEW q \in Children, pc'[q] \in {"dispatch", "connect"}
      PROVE  ~Missed(q, Len(reqs[q]))'
  <2>1. q # p /\ pc[q] \in {"dispatch", "connect"}
    BY <1>3, <1>7
  <2>2. ~Missed(q, Len(reqs[q]))
    BY <2>1 DEF Apart
  <2>. QED  BY <1>1, <1>2, <2>1, <2>2 DEF Missed
<1>. QED  BY <1>5, <1>6, <1>7 DEF Apart

LEMMA NextApart ==
    ASSUME TypeOK, AtHand, ChildsOrder, Apart, [Next]_vars
    PROVE  Apart'
<1>1. ASSUME NEW p \in Children, ReadRequest(p) PROVE Apart'
  BY <1>1, GoesThere, ApartKept DEF ReadRequest
<1>2. ASSUME NEW p \in Children, ChildStep(p) \/ Vanish(p) PROVE Apart'
  <2>1. CASE ConnectDaemon(p)
    BY <2>1, ConnectApart
  <2>2. CASE ConnectFails(p)
    BY <2>2, FailureApart
  <2>3. CASE ~ConnectDaemon(p) /\ ~ConnectFails(p)
    <3>1. /\ UNCHANGED <<unsent, conns, reqs>>
          /\ \E to : Goes(p, to) /\ (to \in {"dispatch", "connect"} => pc[p] = "dispatch")
      BY <1>2, <2>3
         DEF ChildStep, UnknownUrl, BadRequest, Unauthorized, WrongPassword, Garbled,
             AssertionFails, DeviceInfo, SendsCommand, WriteCommand, WriteBroken, Ok, Vanish,
             Authorized, WellFormed, Refuse, Crash, Goes
    <3>2. /\ pc'[p] \in {"dispatch", "connect"} => pc[p] \in {"dispatch", "connect"}
          /\ \A q \in Children : q # p => pc'[q] = pc[q]
      BY <3>1, GoesThere
    <3>. QED  BY <3>1, <3>2, ApartKept
  <2>. QED  BY <2>1, <2>2, <2>3
<1>3. CASE (DaemonServes \/ DaemonElse) \/ UNCHANGED vars
  <2>1. UNCHANGED <<pc, reqs, conns, unsent>>
    BY <1>3 DEF DaemonServes, DaemonElse, vars, child
  <2>. QED  BY <2>1 DEF Apart, Missed
<1>. QED  BY <1>1, <1>2, <1>3 DEF Next

DeviceInv == AtHand /\ CommandInv /\ Answers /\ Apart

LEMMA InitDevice == Init => DeviceInv
<1>. SUFFICES ASSUME Init PROVE DeviceInv
  OBVIOUS
<1>1. AtHand
  BY InitType
<1>2. CommandInv
  BY DEF Init, Channel!Init, CommandInv, Connections, Origins, ChildsOrder, CommandsHanded
<1>3. Answers
  <2>1. Len(<<>>) = 0 /\ DOMAIN <<>> = {} /\ 1 .. 0 - 1 = {}
    OBVIOUS
  <2>. QED  BY <2>1 DEF Init, Answers, AnswersUpTo
<1>4. Apart
  BY DEF Init, Apart, Missed
<1>. QED  BY <1>1, <1>2, <1>3, <1>4 DEF DeviceInv

LEMMA DeviceInvariant == Spec => [](TypeOK /\ DeviceInv)
<1>1. ASSUME TypeOK, DeviceInv, [Next]_vars
      PROVE  TypeOK' /\ DeviceInv'
  <2>. USE DEF DeviceInv
  <2>. Apart'
    BY <1>1, NextApart DEF CommandInv
  <2>1. ASSUME NEW p \in Children, ReadRequest(p) PROVE TypeOK' /\ DeviceInv'
    BY <1>1, <2>1, ReadType, QuietKeeps, ReadAnswers
  <2>2. ASSUME NEW p \in Children, ChildStep(p) PROVE TypeOK' /\ DeviceInv'
    BY <1>1, <2>2, ChildType, QuietKeeps, ConnectKeeps, WriteIsSend, SendKeeps, ChildAnswers
  <2>3. CASE DaemonServes \/ DaemonElse
    <3>1. UNCHANGED child
      BY <2>3 DEF DaemonServes, DaemonElse
    <3>. QED  BY <1>1, <2>3, <3>1, DaemonType, DaemonKeeps, OthersAnswers
  <2>4. CASE UNCHANGED vars
    <3>1. UNCHANGED child
      BY <2>4 DEF vars
    <3>. QED  BY <1>1, <2>4, <3>1, StutterType, StutterKeeps, OthersAnswers
  <2>5. ASSUME NEW p \in Children, Vanish(p) PROVE TypeOK' /\ DeviceInv'
    <3>1. Sends(p, "eof", "crashed")
      BY <2>5, WriteIsSend
    <3>2. Answers'
      BY <1>1, <2>5, SilentAnswers DEF Vanish, Controls
    <3>. QED  BY <1>1, <3>1, <3>2, SendType, SendKeeps
  <2>. QED  BY <1>1, <2>1, <2>2, <2>3, <2>4, <2>5 DEF Next
<1>2. TypeOK /\ DeviceInv /\ [Next]_vars => TypeOK' /\ DeviceInv'
  BY <1>1
<1>3. Init => TypeOK /\ DeviceInv
  BY InitType, InitDevice
<1>. QED  BY <1>2, <1>3, PTL DEF Spec

\* Whatever the children of any number of clients do at once, and whether or not
\* the daemon is still there: it is given no command but those of requests with
\* good credentials, it executes none but those it was given, and it enables the
\* VPN only for one of them.
THEOREM OnlyAuthorisedCommands == Spec => []CommandsAuthorised
<1>1. TypeOK /\ DeviceInv => CommandsAuthorised
  <2>. SUFFICES ASSUME TypeOK, DeviceInv PROVE CommandsAuthorised
    OBVIOUS
  <2>1. \A cmd : CommandFrom(cmd) => \E k \in 1 .. done + 1 : Asked(k).url = cmd
    <3>1. \A k \in DOMAIN conns : k <= done + 1 => k \in 1 .. done + 1
      BY ConnMeaning
    <3>. QED  BY <3>1 DEF CommandFrom
  <2>. QED  BY <2>1 DEF CommandsAuthorised, DeviceInv, CommandInv, Connections, Origins
<1>. QED  BY <1>1, DeviceInvariant, PTL

\* A 200 to a command tells the client the truth while the daemon is there, unless
\* opensocket() has failed for it: the command is in the daemon's hands, on one
\* connection of its own, and after those of the earlier requests of the same
\* client; of a request for which it has failed, the daemon has no connection.
THEOREM CommandsReachDaemon == Spec => []HandedOver
<1>1. TypeOK /\ DeviceInv => HandedOver
  <2>. SUFFICES ASSUME TypeOK, DeviceInv PROVE HandedOver
    OBVIOUS
  <2>1. \A j, k \in DOMAIN conns :
          j < k /\ conns[j].child = conns[k].child => conns[j].req < conns[k].req
    BY DEF DeviceInv, CommandInv, ChildsOrder
  <2>2. \A k \in DOMAIN conns : conns[k] \notin unsent
    BY DEF DeviceInv, Apart
  <2>3. ASSUME phase # "gone", NEW p \in Children, NEW i \in DOMAIN out[p],
               out[p][i].status = "200", NEW n, n = out[p][i].req, reqs[p][n].url \in Commands,
               [child |-> p, req |-> n] \notin unsent
        PROVE  \E k \in DOMAIN conns :
                  /\ conns[k] = [child |-> p, req |-> n]
                  /\ k > done => waiting[k - done] = reqs[p][n].url
    <3>1. Handed(p, n)
      BY <2>3 DEF DeviceInv, CommandInv, CommandsHanded, Missed
    <3>2. PICK k \in DOMAIN conns : /\ conns[k] = [child |-> p, req |-> n]
                                    /\ Slot(k) \in {"served", reqs[p][n].url}
      BY <3>1 DEF Handed
    <3>3. ASSUME k > done PROVE waiting[k - done] = reqs[p][n].url
      <4>1. /\ k \in Nat /\ done \in Nat /\ k - done \in 1 .. Len(waiting)
            /\ waiting \in Seq(Channel!Conns)
        <5>1. k \in 1 .. Len(conns) /\ Len(conns) \in Nat /\ done \in Nat
              /\ k - done \in 1 .. Len(waiting)
          BY <3>3, ConnMeaning
        <5>2. waiting \in Seq(Channel!Conns)
          BY DEF TypeOK, Channel!TypeOK
        <5>. QED  BY <5>1, <5>2
      <4>2. Slot(k) = waiting[k - done]
        <5>1. ~(k <= done)
          BY <3>3, <4>1
        <5>. QED  BY <5>1 DEF Slot
      <4>3. waiting[k - done] \in Channel!Conns
        BY <4>1
      <4>4. "served" \notin Channel!Conns
        BY DEF Channel!Conns, Channel!Commands
      <4>. QED  BY <3>2, <4>2, <4>3, <4>4
    <3>. QED  BY <3>2, <3>3
  <2>. QED  BY <2>1, <2>2, <2>3 DEF HandedOver
<1>. QED  BY <1>1, DeviceInvariant, PTL

\* Whatever the daemon does, each client gets the responses to its requests in
\* their order, one to each, device information excepted, and has them all when
\* its child reads the next request or has exited.
THEOREM ResponsesKeepOrder == Spec => []ResponsesInOrder
<1>1. TypeOK /\ DeviceInv => ResponsesInOrder
  <2>. SUFFICES ASSUME TypeOK, DeviceInv, NEW p \in Children
                PROVE  /\ \A i \in 1 .. Len(out[p]) - 1 :
                             out[p][i + 1].req =
                                 out[p][i].req + (IF out[p][i].status = "200info" THEN 0 ELSE 1)
                       /\ out[p] # <<>> => out[p][1].req = 1
                       /\ pc[p] \in {"request", "exited"} /\ reqs[p] # <<>> =>
                             /\ out[p] # <<>> /\ Last(out[p]).req = Len(reqs[p])
                             /\ Last(out[p]).status # "200info"
    BY DEF ResponsesInOrder
  <2>1. ASSUME pc[p] \in {"request", "exited"}, reqs[p] # <<>>
        PROVE  /\ out[p] # <<>> /\ Last(out[p]).req = Len(reqs[p])
               /\ Last(out[p]).status # "200info"
    <3>1. Len(reqs[p]) # 0
      BY <2>1, CurrentRequest
    <3>2. AnswersUpTo(p, Len(reqs[p]))
      BY <2>1 DEF DeviceInv, Answers
    <3>. QED  BY <3>1, <3>2 DEF AnswersUpTo, Last
  <2>. QED  BY <2>1 DEF DeviceInv, Answers
<1>. QED  BY <1>1, DeviceInvariant, PTL


(***************************************************************************)
(* Who waits for whom: a connection from which the daemon has to read is   *)
(* the last one of a child that is about to write.                         *)
(***************************************************************************)
\* Its child is about to write on the connection, its last one.
Writing(k) == pc[conns[k].child] = "write" /\ conns[k].req = Len(reqs[conns[k].child])
AreWritten == phase # "gone" => \A k \in DOMAIN conns : Slot(k) = "pending" => Writing(k)

\* Steps of a child that leave the connections alone, unless it was to write.
LEMMA QuietWritten ==
    ASSUME TypeOK, AreWritten, NEW p \in Children, Quiet, pc[p] # "write" \/ phase = "gone",
           ReadRequest(p) \/ reqs' = reqs, \A q \in Children : q # p => pc'[q] = pc[q]
    PROVE  AreWritten'
<1>1. conns' = conns /\ phase' = phase /\ \A k : Slot(k)' = Slot(k)
  BY QuietMoves DEF Quiet, channel
<1>2. \A q \in Children : q # p => reqs'[q] = reqs[q]
  BY ReadsRequest
<1>3. ASSUME phase' # "gone", NEW k \in DOMAIN conns', Slot(k)' = "pending"
      PROVE  Writing(k)'
  <2>1. Writing(k) /\ conns[k].child \in Children
    BY <1>1, <1>3, ConnMeaning DEF AreWritten
  <2>2. conns[k].child # p
    BY <1>1, <1>3, <2>1 DEF Writing
  <2>. QED  BY <1>1, <1>2, <2>1, <2>2 DEF Writing
<1>. QED  BY <1>3 DEF AreWritten

LEMMA ConnectWritten ==
    ASSUME TypeOK, AreWritten, NEW p \in Children, ConnectDaemon(p)
    PROVE  AreWritten'
<1>1. PICK c : c = [child |-> p, req |-> Len(reqs[p])]
  OBVIOUS
<1>2. /\ pc[p] = "connect" /\ Channel!Connect /\ conns' = Append(conns, c)
      /\ reqs' = reqs /\ done' = done /\ phase' = phase
  BY <1>1 DEF ConnectDaemon, Channel!Connect
<1>3. pc'[p] = "write" /\ \A q \in Children : q # p => pc'[q] = pc[q]
  BY GoesThere DEF ConnectDaemon
<1>4. /\ DOMAIN conns' = 1 .. Len(conns) + 1 /\ conns'[Len(conns) + 1] = c
      /\ DOMAIN conns = 1 .. Len(conns) /\ Len(conns) \in Nat
      /\ \A k \in DOMAIN conns : conns'[k] = conns[k] /\ Slot(k)' = Slot(k)
  <2>1. DOMAIN conns = 1 .. Len(conns) /\ Len(conns) \in Nat
    BY DEF TypeOK
  <2>. QED  BY <1>2, <2>1, SlotsConnect
<1>5. ASSUME phase' # "gone", NEW k \in DOMAIN conns', Slot(k)' = "pending"
      PROVE  Writing(k)'
  <2>1. CASE k = Len(conns) + 1
    BY <1>1, <1>2, <1>3, <1>4, <2>1 DEF Writing
  <2>2. CASE k \in DOMAIN conns
    <3>1. Writing(k) /\ conns[k].child \in Children
      BY <1>2, <1>4, <1>5, <2>2, ConnMeaning DEF AreWritten
    <3>2. conns[k].child # p
      BY <1>2, <3>1 DEF Writing
    <3>. QED  BY <1>2, <1>3, <1>4, <2>2, <3>1, <3>2 DEF Writing
  <2>. QED  BY <1>4, <1>5, <2>1, <2>2
<1>. QED  BY <1>5 DEF AreWritten

LEMMA SendWritten ==
    ASSUME TypeOK, AtHand, ChildsOrder, AreWritten, NEW p \in Children,
           NEW w, NEW to, Sends(p, w, to)
    PROVE  AreWritten'
<1>1. PICK j : j = ConnOf(p)
  OBVIOUS
<1>2. /\ pc[p] = "write" /\ Channel!Send(j - done, w)
      /\ conns' = conns /\ reqs' = reqs /\ done' = done /\ phase' = phase
  BY <1>1 DEF Sends, Channel!Send
<1>3. \A q \in Children : q # p => pc'[q] = pc[q]
  BY GoesThere DEF Sends
<1>4. j \in DOMAIN conns /\ conns[j] = [child |-> p, req |-> Len(reqs[p])] /\ Slot(j) = "pending"
  BY <1>1, <1>2, OpenConnection
<1>5. w \in Channel!Conns /\ w # "pending"
  BY DEF Sends, AtHand, Commands, Channel!Conns, Channel!Commands
<1>6. Slot(j)' # "pending" /\ \A k \in DOMAIN conns : k # j => Slot(k)' = Slot(k)
  BY <1>2, <1>4, <1>5, SlotsSend
<1>7. ASSUME phase' # "gone", NEW k \in DOMAIN conns', Slot(k)' = "pending"
      PROVE  Writing(k)'
  <2>1. k # j /\ k \in DOMAIN conns
    BY <1>2, <1>6, <1>7
  <2>2. Writing(k) /\ conns[k].child \in Children /\ k \in Nat /\ j \in Nat
    BY <1>2, <1>4, <1>6, <1>7, <2>1, ConnMeaning DEF AreWritten
  <2>3. conns[k].child # p
    <3>. SUFFICES ASSUME conns[k].child = p PROVE FALSE
      OBVIOUS
    <3>1. conns[k].req = Len(reqs[p]) /\ conns[j].req = Len(reqs[p]) /\ conns[j].child = p
      BY <1>4, <2>2 DEF Writing
    <3>2. Len(reqs[p]) \in Nat
      BY DEF TypeOK
    <3>3. ~(k < j) /\ ~(j < k)
      BY <1>4, <2>1, <3>1, <3>2 DEF ChildsOrder
    <3>. QED  BY <2>1, <2>2, <3>3
  <2>. QED  BY <1>2, <1>3, <2>2, <2>3 DEF Writing
<1>. QED  BY <1>7 DEF AreWritten

LEMMA DaemonWritten ==
    ASSUME TypeOK, Connections, AreWritten, DaemonServes \/ DaemonElse
    PROVE  AreWritten'
<1>1. UNCHANGED <<pc, reqs, conns>>
  BY DEF DaemonServes, DaemonElse, child
<1>2. phase' # "gone" => phase # "gone"
  BY DEF DaemonServes, DaemonElse, Channel!Receive, Channel!Refuse, Channel!Switch,
         Channel!Signal, Channel!Started, Channel!Finish, Channel!Die, Channel!TunnelEnds
<1>3. \A k \in DOMAIN conns : Slot(k)' = "pending" => Slot(k) = "pending"
  <2>1. CASE Channel!Finish /\ done' = done + 1
    <3>1. waiting # <<>> /\ Slot(done + 1) # "pending" /\ waiting' = Tail(waiting)
      BY <2>1 DEF TypeOK, Channel!TypeOK, Connections, Channel!Finish
    <3>. QED  BY <2>1, <3>1, SlotsFinish DEF SlotMoves
  <2>2. CASE done' = done /\ waiting' = waiting
    BY <2>2 DEF Slot
  <2>. QED  BY <2>1, <2>2
            DEF DaemonServes, DaemonElse, Channel!Receive, Channel!Refuse, Channel!Switch,
                Channel!Signal, Channel!Started, Channel!Die, Channel!TunnelEnds
<1>. QED  BY <1>1, <1>2, <1>3 DEF AreWritten, Writing

LEMMA NextWritten ==
    ASSUME TypeOK, DeviceInv, AreWritten, [Next]_vars
    PROVE  AreWritten'
<1>1. ASSUME NEW p \in Children, ReadRequest(p) PROVE AreWritten'
  BY <1>1, GoesThere, QuietWritten DEF ReadRequest, Quiet
<1>2. ASSUME NEW p \in Children, ChildStep(p) \/ Vanish(p) PROVE AreWritten'
  <2>1. CASE ConnectDaemon(p)
    BY <2>1, ConnectWritten
  <2>2. CASE WriteCommand(p) \/ Vanish(p)
    BY <2>2, WriteIsSend, SendWritten DEF DeviceInv, CommandInv
  <2>3. CASE ~ConnectDaemon(p) /\ ~WriteCommand(p) /\ ~Vanish(p)
    <3>1. /\ Quiet /\ reqs' = reqs /\ (pc[p] # "write" \/ phase = "gone")
          /\ \E to : Goes(p, to)
      BY <1>2, <2>3
         DEF ChildStep, UnknownUrl, BadRequest, Unauthorized, WrongPassword, Garbled,
             AssertionFails, DeviceInfo, SendsCommand, ConnectFails, WriteBroken, Ok,
             Authorized, WellFormed, Refuse, Crash, Quiet, Goes
    <3>. QED  BY <3>1, GoesThere, QuietWritten
  <2>. QED  BY <2>1, <2>2, <2>3
<1>3. CASE DaemonServes \/ DaemonElse
  BY <1>3, DaemonWritten DEF DeviceInv, CommandInv
<1>4. CASE UNCHANGED vars
  BY <1>4 DEF vars, child, channel, AreWritten, Writing, Slot
<1>. QED  BY <1>1, <1>2, <1>3, <1>4 DEF Next

\* Any number of children, any backlog: the daemon's read() and the calls of
\* connect() that its full queue holds up wait for nobody who waits for them.
THEOREM NobodyWaitsInCircle == Spec => []PendingIsWritten
<1>1. TypeOK /\ DeviceInv /\ AreWritten /\ [Next]_vars => AreWritten'
  BY NextWritten
<1>2. Init => AreWritten
  BY DEF Init, AreWritten
<1>3. TypeOK /\ AreWritten => PendingIsWritten
  <2>. SUFFICES ASSUME TypeOK, AreWritten, phase # "gone", NEW i \in DOMAIN waiting,
                       waiting[i] = "pending"
                PROVE  \E p \in Children :
                          /\ pc[p] = "write"
                          /\ conns[done + i] = [child |-> p, req |-> Len(reqs[p])]
    BY DEF PendingIsWritten
  <2>1. PICK k : k = done + i
    OBVIOUS
  <2>2. /\ done \in Nat /\ conns \in Seq([child : Children, req : Nat])
        /\ waiting \in Seq(Channel!Conns) /\ done + Len(waiting) = Len(conns)
    BY DEF TypeOK, Channel!TypeOK
  <2>3. i \in 1 .. Len(waiting) /\ Len(waiting) \in Nat /\ DOMAIN conns = 1 .. Len(conns)
    BY <2>2
  <2>4. k \in DOMAIN conns /\ ~(k <= done) /\ k - done = i
    BY <2>1, <2>2, <2>3
  <2>5. Writing(k)
    BY <2>4 DEF AreWritten, Slot
  <2>6. conns[k].child \in Children /\ conns[k] = [child |-> conns[k].child, req |-> conns[k].req]
    BY <2>4, ConnMeaning
  <2>. QED  BY <2>1, <2>5, <2>6 DEF Writing
<1>. QED  BY <1>1, <1>2, <1>3, DeviceInvariant, PTL DEF Spec

(***************************************************************************)
(* The children are clients as the daemon expects them.                    *)
(***************************************************************************)
LEMMA StepOfChannel ==
    ASSUME TypeOK, DeviceInv, [Next]_vars
    PROVE  [Channel!Next]_(Channel!vars)
<1>1. ASSUME UNCHANGED channel PROVE [Channel!Next]_(Channel!vars)
  BY <1>1 DEF channel, Channel!vars
<1>2. CASE UNCHANGED vars
  BY <1>1, <1>2 DEF vars
<1>3. ASSUME NEW p \in Children, ReadRequest(p) \/ ChildStep(p) \/ Vanish(p)
      PROVE  [Channel!Next]_(Channel!vars)
  <2>1. CASE ReadRequest(p)
    BY <1>1, <2>1 DEF ReadRequest
  <2>2. CASE UnknownUrl(p) \/ BadRequest(p) \/ Unauthorized(p) \/ WrongPassword(p)
    BY <1>1, <2>2 DEF UnknownUrl, BadRequest, Unauthorized, WrongPassword, Refuse
  <2>3. CASE Garbled(p) \/ AssertionFails(p) \/ WriteBroken(p)
    BY <1>1, <2>3 DEF Garbled, AssertionFails, WriteBroken, Crash
  <2>4. CASE DeviceInfo(p) \/ SendsCommand(p) \/ ConnectFails(p) \/ Ok(p)
    BY <1>1, <2>4 DEF DeviceInfo, SendsCommand, ConnectFails, Ok
  <2>5. CASE ConnectDaemon(p)
    BY <2>5 DEF ConnectDaemon, Channel!Next
  <2>6. ASSUME NEW w, NEW to, Sends(p, w, to) PROVE [Channel!Next]_(Channel!vars)
    <3>1. PICK j : j = ConnOf(p)
      OBVIOUS
    <3>2. pc[p] = "write" /\ Channel!Send(j - done, w)
      BY <2>6, <3>1 DEF Sends
    <3>3. j \in DOMAIN conns /\ Slot(j) = "pending"
      BY <3>1, <3>2, OpenConnection DEF DeviceInv, CommandInv
    <3>4. j - done \in DOMAIN waiting
      <4>1. j \in 1 .. Len(conns) /\ Len(conns) \in Nat /\ done \in Nat
            /\ (j > done => j - done \in DOMAIN waiting)
        BY <3>3, ConnMeaning
      <4>2. ~(j <= done)
        BY <3>3 DEF Slot
      <4>. QED  BY <4>1, <4>2
    <3>5. w \in Channel!Commands \cup {"eof"}
      BY <2>6 DEF Sends, DeviceInv, AtHand, Commands, Channel!Commands
    <3>. QED  BY <3>2, <3>4, <3>5 DEF Channel!Next
  <2>. QED  BY <1>3, <2>1, <2>2, <2>3, <2>4, <2>5, <2>6, WriteIsSend DEF ChildStep
<1>4. CASE DaemonServes \/ DaemonElse
  BY <1>4 DEF DaemonServes, DaemonElse, Channel!Next, Channel!Serve
<1>. QED  BY <1>2, <1>3, <1>4 DEF Next

\* The children command the daemon only as CmdChannel lets clients do: each writes
\* on the connection it has made, once, and a command; so that what VpnControl is
\* shown to promise those who use the channel is promised to them.
THEOREM ChildrenUseChannel == Spec => Channel!Spec
<1>1. Init => Channel!Init
  BY DEF Init
<1>2. TypeOK /\ DeviceInv /\ [Next]_vars => [Channel!Next]_(Channel!vars)
  BY StepOfChannel
<1>. QED  BY <1>1, <1>2, DeviceInvariant, PTL DEF Spec, Channel!Spec
===============================================================================
