---------------------------- MODULE DaemonHealth ----------------------------
(***************************************************************************)
(* What the daemon promises those who ask for its health and its cached    *)
(* frame, without tasks, locks and a connection: only a valid frame ends a *)
(* failure, and "ok" is said only of a valid frame that is young enough.   *)
(* HeaterDaemonHealth shows that HeaterDaemon keeps it; the daemon of      *)
(* DaemonClient is this one.                                               *)
(***************************************************************************)
EXTENDS Integers

CONSTANTS MaxAge,  \* the daemon's --max-age
          AgeCap   \* bound: ages are not told apart from here on

VARIABLES
    up,       \* it serves its socket
    linked,   \* connected and not connecting
    failing,  \* consecutive_failures > 0
    frame     \* its cached frame

daemonVars == <<up, linked, failing, frame>>

NothingCached == [kind |-> "none", age |-> 0]
Frames  == [kind : {"none", "valid", "invalid"}, age : 0 .. AgeCap]

DaemonInit ==
    /\ up = TRUE /\ linked = FALSE /\ failing = FALSE /\ frame = NothingCached

(* data_status is "ok" *)
DataOk == linked /\ ~failing /\ frame.kind = "valid" /\ frame.age <= MaxAge

Caches(kind) == frame' = [kind |-> kind, age |-> 0]

ValidAnswer ==
    /\ up
    /\ Caches("valid")
    /\ linked'  = TRUE
    /\ failing' = FALSE
    /\ UNCHANGED up

(* The link may turn out to be up or down, in these two. *)
InvalidAnswer ==
    /\ up
    /\ Caches("invalid")
    /\ linked' \in BOOLEAN
    /\ failing' = TRUE
    /\ UNCHANGED up

NoAnswer ==
    /\ up
    /\ linked' \in BOOLEAN
    /\ failing' = TRUE
    /\ UNCHANGED <<up, frame>>

(* The link is lost, or set up for a command or a poll. *)
LinkFlips ==
    /\ up
    /\ linked' = ~linked
    /\ UNCHANGED <<up, failing, frame>>

Ends ==
    /\ up
    /\ up'      = FALSE
    /\ linked'  = FALSE
    /\ failing' = FALSE
    /\ frame'   = NothingCached

Begins ==
    /\ ~up
    /\ up' = TRUE
    /\ UNCHANGED <<linked, failing, frame>>

Grown(age) == IF age = AgeCap THEN age ELSE age + 1
Older(f)   == IF f.kind = "none" THEN f ELSE [f EXCEPT !.age = Grown(@)]

FrameAges ==
    /\ frame' = Older(frame)
    /\ UNCHANGED <<up, linked, failing>>

DaemonNext ==
    \/ ValidAnswer \/ InvalidAnswer \/ NoAnswer \/ LinkFlips
    \/ Ends \/ Begins
    \/ FrameAges

DaemonSpec == DaemonInit /\ [][DaemonNext]_daemonVars
=============================================================================
