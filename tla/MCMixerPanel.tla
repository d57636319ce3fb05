----------------------------- MODULE MCMixerPanel -----------------------------
EXTENDS MixerPanel, TLC

MCPlaces == <<"app", "temp">>

Hands(faders, mishaps, edits, happen) ==
    [faders |-> faders, mishaps |-> mishaps, edits |-> edits, happen |-> happen]

Master == Hands({"master"}, {}, 2, 0)
Others == Hands({"master"}, {"remote", "deaf", "leave"}, 1, 1)
Screen == Hands({"master"}, {"remote", "leave"}, 0, 3)
Channels == Hands({"channel"}, {"die", "power", "disk"}, 3, 4)
MCHands == {Master, Others, Screen, Channels}
=============================================================================
