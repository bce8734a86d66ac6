------------------------------ MODULE MCSession ------------------------------
(* Instances of Session for TLC.  With a first line of 2 bytes and blocks of *)
(* 2 bytes, requests end within a block (3 bytes), fill the last one (4), or *)
(* are too large (5).  One client behaves, as far as its request goes; the   *)
(* other sends anything.                                                     *)
EXTENDS Session

CONSTANTS c1, c2

Two == [c \in {c1, c2} |-> IF c = c1 THEN {<<"judge", 1>>}
                           ELSE ({"judge"} \X BodySizes) \cup {<<"setfeed", 2>>, <<"malformed", 1>>}]
One == [c \in {c1} |-> {"judge"} \X BodySizes]
=============================================================================
