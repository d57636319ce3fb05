---------------------------- MODULE MCAudioRing ----------------------------
(* Instances of AudioRing for TLC.                                         *)
EXTENDS AudioRing

Packets == {1, 2}

Bounds(formats, gaps, rates, most) ==
    [formats |-> formats, gaps |-> gaps, rates |-> rates, most |-> most]

\* Two changes of format, or one and a long gap, under a target that moves; two
\* changes among two rates.
RingLimits == {Bounds(2, 0, {1}, 2), Bounds(1, 1, {1}, 2), Bounds(2, 0, {1, 2}, 1)}

=============================================================================
