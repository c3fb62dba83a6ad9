----------------------------- MODULE SerialLink -----------------------------
(***************************************************************************)
(* What the daemon promises of its one link to the heater, without locks,  *)
(* connection set-up or failures: tasks that have something to send stand  *)
(* in one line, the first of them is served, and a client's request is     *)
(* answered once.  HeaterDaemonLink shows that HeaterDaemon keeps it.      *)
(***************************************************************************)
EXTENDS Sequences, Naturals

CONSTANTS Clients,  \* those who ask
          Poller    \* who sends on the daemon's own account

Tasks == Clients \cup {Poller}

VARIABLES
    line,    \* who wants to send, in the order they asked
    active,  \* the first in line is being served
    answer,  \* what each client was told of its latest request
    sent     \* how often that request was sent to the heater

vars == <<line, active, answer, sent>>

Answers == {"none", "OK", "ERROR", "data"}

(* With what a request leaves the line: sent and acknowledged, failed      *)
(* before or behind the heater's back, a poll that failed, a poll that     *)
(* was sent and whose frame the client still waits for.                    *)
Outcomes == {<<"OK", 1>>, <<"ERROR", 0>>, <<"ERROR", 1>>, <<"data", 0>>, <<"none", 0>>}

InLine(t) == \E i \in DOMAIN line : line[i] = t

Init ==
    /\ line   = << >>
    /\ active = FALSE
    /\ answer = [c \in Clients |-> "none"]
    /\ sent   = [c \in Clients |-> 0]

(* A client begins a new request. *)
Connect(c) ==
    /\ ~InLine(c)
    /\ answer' = [answer EXCEPT ![c] = "none"]
    /\ sent'   = [sent EXCEPT ![c] = 0]
    /\ UNCHANGED <<line, active>>

(* A request is answered out of line: refused, or told what is known. *)
Tell(c) ==
    /\ ~InLine(c)
    /\ answer[c] = "none" /\ sent[c] = 0
    /\ \E a \in {"ERROR", "data"} : answer' = [answer EXCEPT ![c] = a]
    /\ UNCHANGED <<line, active, sent>>

(* t asks for the link, and has it at once when nobody else wants it. *)
Join(t) ==
    /\ ~InLine(t)
    /\ t \in Clients => answer[t] = "none" /\ sent[t] = 0
    /\ line'   = Append(line, t)
    /\ active' = (active \/ line = << >>)
    /\ UNCHANGED <<answer, sent>>

Serve ==
    /\ ~active
    /\ line # << >>
    /\ active' = TRUE
    /\ UNCHANGED <<line, answer, sent>>

(* The first in line has been served. *)
Leave ==
    /\ active
    /\ line # << >>
    /\ line'   = Tail(line)
    /\ active' = FALSE
    /\ \/ /\ Head(line) = Poller
          /\ UNCHANGED <<answer, sent>>
       \/ /\ Head(line) \in Clients
          /\ \E o \in Outcomes :
                /\ answer' = [answer EXCEPT ![Head(line)] = o[1]]
                /\ sent'   = [sent EXCEPT ![Head(line)] = o[2]]

(* A shutdown drops what the daemon sends for itself, no client's request. *)
Stop ==
    /\ \A c \in Clients : ~InLine(c)
    /\ line'   = << >>
    /\ active' = FALSE
    /\ UNCHANGED <<answer, sent>>

Next ==
    \/ \E c \in Clients : Connect(c) \/ Tell(c)
    \/ \E t \in Tasks : Join(t)
    \/ Serve
    \/ Leave
    \/ Stop

Spec == Init /\ [][Next]_vars
=============================================================================
