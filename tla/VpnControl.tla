----------------------------- MODULE VpnControl -----------------------------
(***************************************************************************)
(* The VPN daemon of vpn.c: the thread recvcgicmd() that executes the      *)
(* commands of the CGI processes, one connection at a time, the tunnel     *)
(* threads openvpn_start(), and the threads that watch the connection,     *)
(* openvpn_check_connection_task().  They share, without a lock, the flag  *)
(* stopenvpn_flag.benable and the signal slot vpn_context.sig.             *)
(*                                                                         *)
(* openvpn_client() is a library.  Of it the model assumes what vpn.c      *)
(* relies on, in the reading kindest to vpn.c: on entry it points          *)
(* vpn_context.sig at a signal slot without a signal; on SIGHUP it looks   *)
(* at is_openvpn_enable() and starts over or returns, in one step; and it  *)
(* may fail at any time.  Of checkconfigfile() the model keeps that it may *)
(* end the process; what it does to the files is ConfigFiles.              *)
(***************************************************************************)
EXTENDS Integers, Sequences

CONSTANTS MaxCommands,         \* bound on the connections of CGI processes
          MaxSerial,           \* bound on the starts by serial command
          Backlog,             \* the second argument of listen()
          ResourcesMayRunOut,  \* may accept(), pthread_create() and opendir() fail?
          SigPipeKills         \* does SIGPIPE have its default action?

ASSUME VpnAssumption ==
    /\ MaxCommands \in Nat /\ MaxSerial \in Nat /\ Backlog \in Nat
    /\ ResourcesMayRunOut \in BOOLEAN
    /\ SigPipeKills \in BOOLEAN

VARIABLES
    benable,    \* stopenvpn_flag.benable
    sig,        \* vpn_context.sig: NULL, or the signal in the slot
    tunnels,    \* the threads that run openvpn_start(), in order of creation
    checkers,   \* the threads that run openvpn_check_connection_task()
    pc,         \* where recvcgicmd() is
    recv_buf,   \* its static variable: the last command received
    com,        \* the connection being served
    backlog,    \* the connections not yet accepted
    nconn,      \* how many connections there have been
    nserial,    \* how many starts by serial command there have been
    link,       \* what tun0 and the server at its other end would show
    failed,     \* history: has pthread_create() failed?
    overlooked  \* history: the tunnels that a stop may miss, see NewTunnel and StopSignal

client  == <<backlog, nconn>>
history == <<failed, overlooked>>
vars    == <<benable, sig, tunnels, checkers, pc, recv_buf, com, client, nserial, link, history>>

Commands == {"CHECKSTATUS", "VPN_START", "VPN_STOP", "VPN_RESTART"}
\* What there is to read on a connection: nothing yet, a command, or the end.
Conns    == Commands \cup {"pending", "eof"}
Links    == {"no_tun", "dead", "alive"}

(***************************************************************************)
(* recvcgicmd(): accept, read, msgprocess(), close.                        *)
(***************************************************************************)
\* Mutant: the client that has waited least is served first.
AcceptNewest ==
    /\ pc = "accept" /\ backlog # <<>>
    /\ com' = backlog[Len(backlog)]
    /\ backlog' = SubSeq(backlog, 1, Len(backlog) - 1)
    /\ pc' = "read"
    /\ UNCHANGED <<benable, sig, tunnels, checkers, recv_buf, nconn, nserial, link, history>>
Accept ==
    /\ pc = "accept" /\ backlog # <<>>
    /\ com' = Head(backlog)
    /\ backlog' = Tail(backlog)
    /\ pc' = "read"
    /\ UNCHANGED <<benable, sig, tunnels, checkers, recv_buf, nconn, nserial, link, history>>

\* The thread returns; nobody serves commands any more.
AcceptFails ==
    /\ pc = "accept" /\ ResourcesMayRunOut
    /\ pc' = "ended"
    /\ UNCHANGED <<benable, sig, tunnels, checkers, recv_buf, com, client, nserial, link, history>>

\* The result of read() is not looked at: at the end of the file recv_buf
\* keeps the command of an earlier client.
\* Mutant: read() is repeated until there is a byte.
ReadUntilByte ==
    /\ pc = "read" /\ com \in Commands
    /\ recv_buf' = com
    /\ pc' = "process"
    /\ UNCHANGED <<benable, sig, tunnels, checkers, com, client, nserial, link, history>>
Read ==
    /\ pc = "read" /\ com # "pending"
    /\ recv_buf' = IF com = "eof" THEN recv_buf ELSE com
    /\ pc' = "process"
    /\ UNCHANGED <<benable, sig, tunnels, checkers, com, client, nserial, link, history>>

Processing(cmd) == pc = "process" /\ recv_buf = cmd

Ignore ==
    /\ pc' = "close"
    /\ UNCHANGED <<benable, sig, tunnels, checkers, recv_buf, com, client, nserial, link, history>>

UnknownCommand == Processing("0") /\ Ignore

\* The write of the status gets a character for a pointer and fails ...
CheckStatus == Processing("CHECKSTATUS") /\ Ignore

\* ... or, when the client has closed already, raises SIGPIPE.
CheckStatusSigPipe ==
    /\ Processing("CHECKSTATUS") /\ SigPipeKills
    /\ pc' = "dead"
    /\ UNCHANGED <<benable, sig, tunnels, checkers, recv_buf, com, client, nserial, link, history>>

StartRefused == Processing("VPN_START") /\ benable /\ Ignore

\* Mutant: a start is never refused.
StartAlways ==
    /\ Processing("VPN_START")
    /\ benable' = TRUE
    /\ pc' = "create_tunnel"
    /\ UNCHANGED <<sig, tunnels, checkers, recv_buf, com, client, nserial, link, history>>
Start ==
    /\ Processing("VPN_START") /\ ~benable
    /\ benable' = TRUE
    /\ pc' = "create_tunnel"
    /\ UNCHANGED <<sig, tunnels, checkers, recv_buf, com, client, nserial, link, history>>

LiveTunnels == {t \in DOMAIN tunnels : tunnels[t] # "done"}

\* A thread for openvpn_start().  The history notes what can hide a tunnel from a
\* stop: that it shares the context with another one, or is created while the
\* VPN is disabled.
NewTunnel ==
    LET new == Len(tunnels) + 1
    IN  /\ tunnels' = Append(tunnels, "created")
        /\ overlooked' = overlooked
              \cup (IF LiveTunnels # {} THEN LiveTunnels \cup {new} ELSE {})
              \cup (IF benable THEN {} ELSE {new})
        /\ UNCHANGED failed

CreateTunnel ==
    /\ pc = "create_tunnel"
    /\ NewTunnel
    /\ pc' = "create_checker"
    /\ UNCHANGED <<benable, sig, checkers, recv_buf, com, client, nserial, link>>

CreateChecker ==
    /\ pc = "create_checker"
    /\ checkers' = Append(checkers, [at |-> "test", lost |-> 0])
    /\ pc' = "close"
    /\ UNCHANGED <<benable, sig, tunnels, recv_buf, com, client, nserial, link, history>>

\* msgprocess() returns early, with benable set.
CreateFails ==
    /\ pc \in {"create_tunnel", "create_checker"} /\ ResourcesMayRunOut
    /\ failed' = TRUE
    /\ pc' = "close"
    /\ UNCHANGED <<benable, sig, tunnels, checkers, recv_buf, com, client, nserial, link, overlooked>>

StopRefused == Processing("VPN_STOP") /\ ~benable /\ Ignore

Stop ==
    /\ Processing("VPN_STOP") /\ benable
    /\ benable' = FALSE
    /\ pc' = "stop_signal"
    /\ UNCHANGED <<sig, tunnels, checkers, recv_buf, com, client, nserial, link, history>>

RaiseHangup == sig' = IF sig = "NULL" THEN "NULL" ELSE "SIGHUP"

\* Mutant: the flag is thought to be enough.
StopByFlagOnly == pc = "stop_signal" /\ Ignore
\* The history notes the tunnels that have not entered the library yet: they find
\* no slot, or replace it by one without the signal.
StopSignal ==
    /\ pc = "stop_signal"
    /\ RaiseHangup
    /\ overlooked' = overlooked \cup {t \in DOMAIN tunnels : tunnels[t] = "created"}
    /\ pc' = "close"
    /\ UNCHANGED <<benable, tunnels, checkers, recv_buf, com, client, nserial, link, failed>>

\* A disabled VPN gets the message that there is no need, and the signal.
Restart ==
    /\ Processing("VPN_RESTART")
    /\ RaiseHangup
    /\ pc' = "close"
    /\ UNCHANGED <<benable, tunnels, checkers, recv_buf, com, client, nserial, link, history>>

\* readFileList() cannot open /home: exit(1), whatever the threads are at.
CannotOpenHome ==
    /\ ResourcesMayRunOut
    /\ pc' = "dead"
    /\ UNCHANGED <<benable, sig, tunnels, checkers, recv_buf, com, client, nserial, link, history>>

ExitInRestart == Processing("VPN_RESTART") /\ CannotOpenHome

Close ==
    /\ pc = "close"
    /\ pc' = "accept" /\ com' = "none"
    /\ UNCHANGED <<benable, sig, tunnels, checkers, recv_buf, client, nserial, link, history>>

(***************************************************************************)
(* openvpn_start(): the thread of a tunnel.                                *)
(***************************************************************************)
Tunnel(t, from, to) ==
    /\ pc # "dead"
    /\ t \in DOMAIN tunnels /\ tunnels[t] = from
    /\ tunnels' = [tunnels EXCEPT ![t] = to]
    /\ UNCHANGED <<checkers, pc, recv_buf, com, client, nserial, link, history>>

Enter(t) ==
    /\ Tunnel(t, "created", "running")
    /\ sig' = "none"
    /\ UNCHANGED benable

Hangup(t) ==
    /\ sig = "SIGHUP"
    /\ Tunnel(t, "running", IF benable THEN "running" ELSE "returned")
    /\ sig' = "none"
    /\ UNCHANGED benable

GiveUp(t) == Tunnel(t, "running", "returned") /\ UNCHANGED <<benable, sig>>

\* Mutant: the end of the tunnel is not recorded.
FinishEnabled(t) == Tunnel(t, "returned", "done") /\ UNCHANGED <<benable, sig>>
Finish(t) ==
    /\ Tunnel(t, "returned", "done")
    /\ benable' = FALSE
    /\ UNCHANGED sig

\* vpnstartbyserialcmd() leaves benable alone and starts no checker.
StartBySerial ==
    /\ pc # "dead" /\ nserial < MaxSerial
    /\ NewTunnel
    /\ nserial' = nserial + 1
    /\ UNCHANGED <<benable, sig, checkers, pc, recv_buf, com, client, link>>

(***************************************************************************)
(* openvpn_check_connection_task(): the thread that watches the server.    *)
(***************************************************************************)
MaxLost == 3

Checker(c, from, to, lost) ==
    /\ pc # "dead"
    /\ c \in DOMAIN checkers /\ checkers[c].at = from
    /\ checkers' = [checkers EXCEPT ![c] = [at |-> to, lost |-> lost]]
    /\ UNCHANGED <<benable, tunnels, pc, recv_buf, com, client, nserial, link, history>>

CheckFlag(c) ==
    /\ c \in DOMAIN checkers
    /\ Checker(c, "test", IF benable THEN "probe" ELSE "done", checkers[c].lost)
    /\ UNCHANGED sig

\* No tun0, no route over it, or no socket to ask with.
\* Mutant: the task ends with the interface.
CannotPingEnds(c) ==
    /\ c \in DOMAIN checkers /\ link = "no_tun"
    /\ Checker(c, "probe", "done", checkers[c].lost)
    /\ UNCHANGED sig
CannotPing(c) ==
    /\ c \in DOMAIN checkers /\ link = "no_tun"
    /\ Checker(c, "probe", "sleep", checkers[c].lost)
    /\ UNCHANGED sig

PingAnswered(c) == link = "alive" /\ Checker(c, "probe", "sleep", 0) /\ UNCHANGED sig

\* A ping may be lost on its way to a server that is alive.
PingLost(c) ==
    /\ link # "no_tun"
    /\ c \in DOMAIN checkers
    /\ LET lost == checkers[c].lost + 1
       IN  Checker(c, "probe", IF lost >= MaxLost THEN "restart" ELSE "sleep", lost)
    /\ UNCHANGED sig

\* Mutant: the count is not reset.
RestartTunnelAgain(c) ==
    /\ c \in DOMAIN checkers
    /\ Checker(c, "restart", "sleep", checkers[c].lost)
    /\ RaiseHangup
\* Mutant: the restart is forgotten.
ResetCountOnly(c) == Checker(c, "restart", "sleep", 0) /\ UNCHANGED sig
RestartTunnel(c) ==
    /\ Checker(c, "restart", "sleep", 0)
    /\ RaiseHangup

\* The restart of a checker ends the process as that of a command does.
ExitInChecker(c) == pc # "dead" /\ checkers[c].at = "restart" /\ CannotOpenHome

Wake(c) ==
    /\ c \in DOMAIN checkers
    /\ Checker(c, "sleep", "test", checkers[c].lost)
    /\ UNCHANGED sig

(***************************************************************************)
(* The CGI processes, sendcmdtoopenvpn(): connect, write one byte, close.  *)
(***************************************************************************)
Connect ==
    /\ pc \notin {"ended", "dead"} /\ nconn < MaxCommands /\ Len(backlog) <= Backlog
    /\ backlog' = Append(backlog, "pending")
    /\ nconn' = nconn + 1
    /\ UNCHANGED <<benable, sig, tunnels, checkers, pc, recv_buf, com, nserial, link, history>>

\* One of the pending connections gets something to read.
Deliver(conn) ==
    /\ pc # "dead"
    /\ \/ com = "pending" /\ com' = conn /\ UNCHANGED backlog
       \/ \E i \in DOMAIN backlog :
             /\ backlog[i] = "pending"
             /\ backlog' = [backlog EXCEPT ![i] = conn]
             /\ UNCHANGED com
    /\ UNCHANGED <<benable, sig, tunnels, checkers, pc, recv_buf, nconn, nserial, link, history>>

Write(cmd) == Deliver(cmd)

\* The process ends before the write.
Vanish == Deliver("eof")

LinkChanges ==
    /\ pc # "dead"
    /\ link' \in Links \ {link}
    /\ UNCHANGED <<benable, sig, tunnels, checkers, pc, recv_buf, com, client, nserial, history>>

(***************************************************************************)
(* The specification.                                                      *)
(***************************************************************************)
Init ==
    /\ benable = FALSE /\ sig = "NULL"
    /\ tunnels = <<>> /\ checkers = <<>>
    /\ pc = "accept" /\ recv_buf = "0" /\ com = "none"
    /\ backlog = <<>> /\ nconn = 0 /\ nserial = 0
    /\ link = "no_tun" /\ failed = FALSE /\ overlooked = {}

Daemon == \/ Accept \/ Read \/ UnknownCommand \/ CheckStatus
          \/ StartRefused \/ Start \/ CreateTunnel \/ CreateChecker
          \/ StopRefused \/ Stop \/ StopSignal \/ Restart \/ Close

Failure == \/ AcceptFails \/ CreateFails \/ CheckStatusSigPipe \/ ExitInRestart
           \/ \E c \in DOMAIN checkers : ExitInChecker(c)

TunnelStep(t)  == Enter(t) \/ Hangup(t) \/ Finish(t)
CheckerStep(c) == \/ CheckFlag(c) \/ CannotPing(c) \/ PingAnswered(c) \/ PingLost(c)
                  \/ RestartTunnel(c) \/ Wake(c)
ClientStep     == Vanish \/ \E cmd \in Commands : Write(cmd)

Next == \/ Daemon \/ Failure \/ StartBySerial
        \/ \E t \in DOMAIN tunnels : TunnelStep(t) \/ GiveUp(t)
        \/ \E c \in DOMAIN checkers : CheckerStep(c)
        \/ Connect \/ ClientStep \/ LinkChanges

Spec == Init /\ [][Next]_vars

\* The threads are scheduled, and a CGI process that has connected goes on to
\* write or to close: nothing in sendcmdtoopenvpn() waits in between.
MaxThreads == MaxCommands + MaxSerial
FairSpec == /\ Spec
            /\ WF_vars(Daemon) /\ WF_vars(ClientStep)
            /\ \A t \in 1 .. MaxThreads : WF_vars(TunnelStep(t))
            /\ \A c \in 1 .. MaxCommands : WF_vars(CheckerStep(c))

(***************************************************************************)
(* Properties.                                                             *)
(***************************************************************************)
TunnelStates  == {"created", "running", "returned", "done"}
CheckerStates == [at : {"test", "probe", "sleep", "done"}, lost : 0 .. MaxLost - 1]
                   \cup [at : {"restart"}, lost : {MaxLost}]

\* Every variable has its type; a checker that has lost MaxLost pings goes on
\* to the restart, and starts counting afresh.
TypeOK ==
    /\ benable \in BOOLEAN
    /\ sig \in {"NULL", "none", "SIGHUP"}
    /\ tunnels \in Seq(TunnelStates)
    /\ checkers \in Seq(CheckerStates)
    /\ pc \in {"accept", "read", "process", "create_tunnel", "create_checker",
              "stop_signal", "close", "ended", "dead"}
    /\ recv_buf \in Commands \cup {"0"}
    /\ com \in Conns \cup {"none"} /\ (pc = "read" => com \in Conns)
    /\ backlog \in Seq(Conns)
    /\ nconn \in Nat /\ nserial \in Nat
    /\ link \in Links /\ failed \in BOOLEAN
    /\ overlooked \subseteq DOMAIN tunnels

LiveCheckers == {c \in DOMAIN checkers : checkers[c].at # "done"}

\* "openvpn is still in running!", says vpn.c:710, when benable is set: then a
\* thread of a tunnel lives, or is just being created (unless a thread could
\* not be created: line 690 leaves benable set, and every start is refused).
StillRunningIsTrue ==
    benable /\ ~failed /\ pc \notin {"create_tunnel", "dead"} => LiveTunnels # {}

\* As long as the VPN is enabled a checker watches the server, however starts,
\* stops and the end of tunnels interleave.
WatchedWhileEnabled ==
    benable /\ ~failed /\ pc \notin {"create_tunnel", "create_checker", "dead"} =>
        LiveCheckers # {}

\* openvpn_stop() and the end of openvpn_start() take the tunnel with the flag:
\* when the VPN is disabled a tunnel that runs on has a SIGHUP to see, in whatever
\* order commands, starts, ends of tunnels and watchdogs come.  There are three
\* exceptions and no other: a tunnel that was created while the VPN was disabled,
\* one that had not entered the library when it was stopped, and tunnels that
\* live at the same time.
DisabledGoesDown ==
    ~benable /\ sig # "SIGHUP" /\ pc \notin {"stop_signal", "dead"} =>
        \A t \in DOMAIN tunnels : tunnels[t] = "running" => t \in overlooked

\* A stop ends the tunnel that runs, with the same exceptions.  It takes another
\* start for the tunnel to go on, one whose thread cannot be created: otherwise
\* the two tunnels would live at the same time.
StopTakesEffect ==
    pc = "stop_signal" /\ "running" \in {tunnels[t] : t \in LiveTunnels \ overlooked} ~>
        LiveTunnels \subseteq overlooked \/ (benable /\ failed) \/ pc = "dead"

\* A client that has connected is served in its turn, whatever the others do,
\* as long as the thread is there.
Served == nconn - Len(backlog) - (IF com = "none" THEN 0 ELSE 1)
CommandServed ==
    \A n \in 1 .. MaxCommands : nconn >= n ~> (Served >= n \/ pc \in {"ended", "dead"})

\* vpn.c:625: the server of an enabled VPN that does not answer any more has the
\* tunnel restarted, again and again: SIGHUP is raised, and taken (unless the
\* checker or the tunnel could not be created).
WatchdogRestarts ==
    <>[](link = "dead" /\ benable /\ pc # "dead" /\ ~failed) =>
        []<>(sig = "SIGHUP") /\ []<>(sig # "SIGHUP")

\* What a client sees of the daemon: the connections it has not closed, and how
\* far the command of the first one is.
Waiting == IF com = "none" THEN backlog ELSE <<com>> \o backlog
Phase   == CASE pc \in {"accept", "read"} -> "idle"
             [] pc = "process" -> "received"
             [] pc \in {"create_tunnel", "create_checker", "stop_signal"} -> "executing"
             [] pc = "close" -> "executed"
             [] OTHER -> "gone"

\* The promise to those who give commands (CmdChannel): first come, first served,
\* one command to a connection, with the effects of that command and no other,
\* whatever the threads do meanwhile.
Channel == INSTANCE CmdChannel WITH
    waiting <- Waiting, command <- recv_buf, phase <- Phase,
    enabled <- benable, hangup <- sig = "SIGHUP"
ImplementsChannel == Channel!Spec

\* vpn.c:718 "openvpn is NOT in running! No need to stop": when a stop is
\* refused, no tunnel runs on.
NoNeedToStop ==
    Processing("VPN_STOP") /\ ~benable =>
        \A t \in DOMAIN tunnels : tunnels[t] = "running" => sig = "SIGHUP"
=============================================================================
