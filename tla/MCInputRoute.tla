----------------------------- MODULE MCInputRoute -----------------------------
EXTENDS InputRoute, TLC
CONSTANTS red, green
MCSlots == {red, green}

Hands(controls, usb, mishaps, edges) ==
    [controls |-> controls, plugged |-> usb, mishaps |-> mishaps, edges |-> edges]

\* Two devices read in any order, more events than the queue holds.
Ordering == Hands({<<"mouse", "left">>, <<"keyboard", "key">>}, Usb, {}, 4)
\* The panel, over a held button and a batch that was already taken.
Panel == Hands({<<"mouse", "left">>, <<"mouse", "extra">>}, {"mouse"}, {"volume"}, 4)
Hub == Hands({<<"mouse", "left">>, <<"mouse", "side">>}, {"mouse"}, {}, 4)
\* A colour key under a held key: a switch, or the panel of the slot on screen.
Colours == Hands({<<"keyboard", "key">>, <<"keyboard", red>>, <<"keyboard", green>>},
                 {"keyboard"}, {}, 3)
\* The compositor's pointer and the focus.
Pointer == Hands({<<"pointer", "left">>, <<"pointer", "extra">>}, {}, {"blur", "away"}, 5)
Focus == Hands({<<"mouse", "left">>, <<"mouse", "extra">>}, {"mouse"}, {"blur"}, 4)
\* Devices that go, one that comes back, and a reader that dies.
Unplugged == Hands({<<"mouse", "left">>, <<"keyboard", "key">>}, Usb, {"unplug"}, 3)
Replugged == Hands({<<"keyboard", "key">>}, {"keyboard"}, {"unplug", "plug"}, 4)
Dead == Hands({<<"mouse", "left">>, <<"keyboard", "key">>}, Usb, {"dead"}, 4)
\* Sessions that reconnect or end under a held key.
Lost == Hands({<<"keyboard", "key">>, <<"keyboard", green>>}, {"keyboard"}, {"reconnect", "end"}, 3)

MCHands == {Ordering, Panel, Hub, Colours, Pointer, Focus, Unplugged, Replugged,
             Dead, Lost}

\* A panel up while the session on screen ends.
MCEnding == {Hands({<<"keyboard", red>>, <<"keyboard", green>>}, {"keyboard"}, {"end"}, 3)}
=============================================================================
