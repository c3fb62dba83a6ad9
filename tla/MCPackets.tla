----------------------------- MODULE MCPackets -----------------------------
(***************************************************************************)
(* Packets on small instances: every state byte in a complete frame, and   *)
(* every length around the places the parser reads.                        *)
(***************************************************************************)
EXTENDS Packets, TLC

Frame == [length |-> 38, state |-> 133, mode |-> 2, setting |-> 3, auto |-> 1,
          voltage |-> 121, body |-> 2565, ambient |-> 600, highland |-> 1,
          unit |-> 0]

WholeFrames == {[Frame EXCEPT !.state = s] : s \in Byte}
Lengths     == {0, 20, 21, 22, 23, 25, 26, 28, 29, 31, 32, 37, 38}
PartFrames  == {[Frame EXCEPT !.length = n, !.state = s, !.mode = m, !.unit = u] :
                    n \in Lengths, s \in {0, 26, 67, 133, 240},
                    m \in {2, 5}, u \in 0 .. 2}

MCResponses    == WholeFrames \cup PartFrames
MCRawIds       == {-1, 0, 242, 243, 255, 256}
MCLevels       == {0, 1, 10, 11}
MCTemperatures == {-1, 0, 31, 32, 40, 41, 104, 105}
=============================================================================
