--------------------------- MODULE MCSessionSwitch ---------------------------
EXTENDS SessionSwitch, TLC
CONSTANTS red, green
MCSlots == {red, green}

\* Connecting always works, or may also meet a refused allocation or a worker
\* that does not start.
Lucky == {[memory |-> TRUE, starts |-> TRUE]}
Forgetful == Lucky \cup {[memory |-> FALSE, starts |-> TRUE]}
Unlucky == Lucky \cup {[memory |-> FALSE, starts |-> TRUE], [memory |-> TRUE, starts |-> FALSE]}

\* red answers a refresh, green never does.
Plain(troubles, bound) ==
    [bitmap |-> {}, obliging |-> {red}, fates |-> Lucky, lucks |-> {"ok"},
     mishaps |-> troubles, presses |-> bound]

Reloads == Plain({"reload"}, None)
Bitmaps == [Plain({"late"}, 3) EXCEPT !.bitmap = {green}, !.lucks = {"ok", "resized"}]
Failures == [Plain({"end", "profile", "protocol"}, 3)
                EXCEPT !.fates = Unlucky, !.lucks = {"ok", "big", "error"}]
Reconnects == [Plain({"retry", "mode"}, 2)
                EXCEPT !.fates = Forgetful, !.lucks = {"ok", "notready"}]
Late == Plain({"late"}, 3)
Ends == [Plain({"end", "late"}, 3) EXCEPT !.fates = Unlucky]
Deaf == [Plain({"end"}, 3) EXCEPT !.obliging = {}]

MCScreen == {Reloads, Bitmaps, Failures, Reconnects}
MCSettling == {Late, Ends}
MCDeaf == {Deaf}
=============================================================================
