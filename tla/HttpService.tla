---------------------------- MODULE HttpService ----------------------------
(***************************************************************************)
(* What a connection to the HTTP server promises its client: messages are  *)
(* answered one by one in their order, each as it calls for, and not       *)
(* before as much of it has arrived as the response is about; the          *)
(* connection ends with a response that ends it and with no other; and     *)
(* what dies without an answer is the service of a client that has gone,   *)
(* or has sent a message that kills.  Where the child stands in the        *)
(* stream, and what it keeps of the headers, do not show.  HttpSession is  *)
(* shown to implement it.                                                  *)
(***************************************************************************)
EXTENDS Sequences, Naturals

CONSTANTS Messages, MaxMessages,   \* as in HttpSession
          NumLines(_),     \* the lines of a message
          Expected(_),     \* the responses a message may get
          Needs(_, _),     \* the lines of a message that a response is about
          Closes(_, _),    \* whether a response to a message is the last one
          Kills(_)         \* whether a message may end the service unanswered

VARIABLES sent, lastLines, closed,   \* the client, as in HttpSession
          answers,                   \* the statuses sent, in order
          state                      \* "open", "ended" or "dead"

vars == <<sent, lastLines, closed, answers, state>>

(***************************************************************************)
(* The client.                                                             *)
(***************************************************************************)
Send(m, lines) ==
    /\ ~closed /\ Len(sent) < MaxMessages
    /\ sent' = Append(sent, m)
    /\ lastLines' = lines
    /\ closed' = (lines < NumLines(m))
    /\ UNCHANGED <<answers, state>>

Disconnect ==
    /\ ~closed
    /\ closed' = TRUE
    /\ UNCHANGED <<sent, lastLines, answers, state>>

(***************************************************************************)
(* The service.                                                            *)
(***************************************************************************)
Turn         == Len(answers) + 1     \* the message to be answered next
LinesHere(i) == IF i < Len(sent) THEN NumLines(sent[i]) ELSE lastLines

Answer(status) ==
    /\ state = "open" /\ Turn <= Len(sent)
    /\ status \in Expected(sent[Turn])
    /\ LinesHere(Turn) >= Needs(sent[Turn], status)
    /\ answers' = Append(answers, status)
    /\ state' = IF Closes(sent[Turn], status) THEN "ended" ELSE "open"
    /\ UNCHANGED <<sent, lastLines, closed>>

Die ==
    /\ state = "open"
    /\ closed \/ (Turn <= Len(sent) /\ Kills(sent[Turn]))
    /\ state' = "dead"
    /\ UNCHANGED <<sent, lastLines, closed, answers>>

Init ==
    /\ sent = <<>> /\ lastLines = 0 /\ closed = FALSE
    /\ answers = <<>> /\ state = "open"

Next ==
    \/ \E m \in Messages : \E lines \in 1 .. NumLines(m) : Send(m, lines)
    \/ Disconnect
    \/ \E m \in Messages : \E status \in Expected(m) : Answer(status)
    \/ Die

Spec == Init /\ [][Next]_vars
=============================================================================
