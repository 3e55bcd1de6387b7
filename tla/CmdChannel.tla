----------------------------- MODULE CmdChannel -----------------------------
(***************************************************************************)
(* What the VPN daemon promises to the processes that command it over the  *)
(* Unix socket: connections are served one at a time in the order they     *)
(* were made; on each, one command is executed, which is the byte the      *)
(* client wrote or, when it wrote none, the command before; executing it   *)
(* changes the flag and the signal at most once, and as the command says.  *)
(* Threads, and how long a command takes, do not show.  VpnControl is      *)
(* shown to implement it; DeviceGet is composed with it.                   *)
(***************************************************************************)
EXTENDS Sequences, Naturals

VARIABLES
    waiting,    \* the connections not closed by the daemon; it serves the first
    command,    \* the command received last
    phase,      \* of the first connection: how far its command is
    enabled,    \* is the VPN enabled?
    hangup      \* is there a signal for the tunnel?

vars == <<waiting, command, phase, enabled, hangup>>

Commands == {"CHECKSTATUS", "VPN_START", "VPN_STOP", "VPN_RESTART"}
Conns    == Commands \cup {"pending", "eof"}

(***************************************************************************)
(* The clients.                                                            *)
(***************************************************************************)
Connect ==
    /\ phase # "gone"
    /\ waiting' = Append(waiting, "pending")
    /\ UNCHANGED <<command, phase, enabled, hangup>>

\* A client writes its command, or closes without one.
Send(i, what) ==
    /\ waiting[i] = "pending"
    /\ waiting' = [waiting EXCEPT ![i] = what]
    /\ UNCHANGED <<command, phase, enabled, hangup>>

(***************************************************************************)
(* The daemon.                                                             *)
(***************************************************************************)
Receive ==
    /\ phase = "idle" /\ waiting # <<>> /\ Head(waiting) # "pending"
    /\ command' = IF Head(waiting) = "eof" THEN command ELSE Head(waiting)
    /\ phase' = "received"
    /\ UNCHANGED <<waiting, enabled, hangup>>

\* Nothing to do: no command yet, a query, or the VPN is as asked already.
Refuse ==
    /\ phase = "received"
    /\ \/ command \in {"0", "CHECKSTATUS"}
       \/ command = "VPN_START" /\ enabled
       \/ command = "VPN_STOP" /\ ~enabled
    /\ phase' = "executed"
    /\ UNCHANGED <<waiting, command, enabled, hangup>>

Switch ==
    /\ phase = "received"
    /\ \/ command = "VPN_START" /\ ~enabled
       \/ command = "VPN_STOP" /\ enabled
    /\ enabled' = ~enabled
    /\ phase' = "executing"
    /\ UNCHANGED <<waiting, command, hangup>>

\* A stop and a restart signal the tunnel, if there is one to take the signal.
Signal ==
    /\ \/ command = "VPN_STOP" /\ phase = "executing"
       \/ command = "VPN_RESTART" /\ phase = "received"
    /\ hangup' \in {hangup, TRUE}
    /\ phase' = "executed"
    /\ UNCHANGED <<waiting, command, enabled>>

\* The threads of a start have been created, or could not be.
Started ==
    /\ command = "VPN_START" /\ phase = "executing"
    /\ phase' = "executed"
    /\ UNCHANGED <<waiting, command, enabled, hangup>>

\* Mutant: the connection is not closed.
FinishOpen ==
    /\ phase = "executed"
    /\ phase' = "idle"
    /\ UNCHANGED <<waiting, command, enabled, hangup>>
Finish ==
    /\ phase = "executed"
    /\ waiting' = Tail(waiting)
    /\ phase' = "idle"
    /\ UNCHANGED <<command, enabled, hangup>>

Serve == Receive \/ Refuse \/ Switch \/ Signal \/ Started \/ Finish

\* The command thread may end between two commands (vpn.c:788); a query whose client
\* has gone (679), a restart and, at any moment, the watchdog (61) may end the whole
\* daemon.  Clients must expect it anywhere, in the middle of their own command too.
Die ==
    /\ phase' = "gone"
    /\ UNCHANGED <<waiting, command, enabled, hangup>>

(***************************************************************************)
(* The VPN itself: a tunnel ends, or takes its signal; the watchdog signals *)
(* a tunnel whose server is silent.                                        *)
(***************************************************************************)
TunnelEnds == enabled' = FALSE /\ UNCHANGED <<waiting, command, phase, hangup>>
HangupSeen == hangup' = FALSE /\ UNCHANGED <<waiting, command, phase, enabled>>
Watchdog   == hangup' = TRUE /\ UNCHANGED <<waiting, command, phase, enabled>>

Init ==
    /\ waiting = <<>> /\ command = "0" /\ phase = "idle"
    /\ enabled = FALSE /\ hangup = FALSE

Next == \/ Serve \/ Die
        \/ Connect
        \/ \E i \in DOMAIN waiting, what \in Commands \cup {"eof"} : Send(i, what)
        \/ TunnelEnds \/ HangupSeen \/ Watchdog

Spec == Init /\ [][Next]_vars

\* Every variable has its type, and a command is executed for a connection.
TypeOK ==
    /\ waiting \in Seq(Conns)
    /\ command \in Commands \cup {"0"}
    /\ phase \in {"idle", "received", "executing", "executed", "gone"}
    /\ phase \in {"received", "executing", "executed"} => waiting # <<>>
    /\ enabled \in BOOLEAN /\ hangup \in BOOLEAN
=============================================================================
