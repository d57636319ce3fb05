--------------------------- MODULE CapturePrivacy ---------------------------
(***************************************************************************)
(* What the capture gate of a session promises to the C side, without its  *)
(* threads, queues and locks.  The gate opens for a period at a time; a    *)
(* payload belongs to the period it was captured in and is written to the  *)
(* wire in that period or never.  Closing has a beginning and an end: at   *)
(* its end no payload is on the wire, and none starts until the gate opens *)
(* again, for a later period.                                              *)
(***************************************************************************)
EXTENDS Naturals

VARIABLES
    gate,       \* "open", "closing" or "closed"
    period,     \* counts the changes of the gate
    sending     \* the period of the payload on the wire, or NotSending

NotSending == 0

privacyVars == <<gate, period, sending>>

PrivacyInit == gate = "closed" /\ period = 0 /\ sending = NotSending

Open == /\ gate = "closed"
        /\ gate' = "open"
        /\ period' = period + 1
        /\ UNCHANGED sending

\* Closing an open gate ends its period; closing a closed one only waits again.
BeginClose == /\ gate' = "closing"
              /\ \/ gate = "open" /\ period' = period + 1
                 \/ gate = "closed" /\ period' = period
              /\ UNCHANGED sending

EndClose == /\ gate = "closing"
            /\ sending = NotSending
            /\ gate' = "closed"
            /\ UNCHANGED <<period, sending>>

StartSend == /\ gate = "open"
             /\ sending = NotSending
             /\ sending' = period
             /\ UNCHANGED <<gate, period>>

EndSend == /\ sending # NotSending
           /\ sending' = NotSending
           /\ UNCHANGED <<gate, period>>

PrivacyNext == Open \/ BeginClose \/ EndClose \/ StartSend \/ EndSend

PrivacySpec == PrivacyInit /\ [][PrivacyNext]_privacyVars
=============================================================================
