--------------------------- MODULE MCNeckReframeFlips ---------------------------
(* NeckReframe with the side of the last reframe on record, for TLC. *)
EXTENDS NeckReframe

VARIABLE last_reframe   \* history: the side of the last reframe that was made

RememberReframe ==
    last_reframe' = IF Settled' /\ reframe'.phase = "observe"
                    THEN reframe'.last_direction ELSE last_reframe

FlipSpec ==
    /\ Init /\ last_reframe = 0
    /\ [][Next /\ RememberReframe]_<<vars, last_reframe>>

\* A reframe to the other side than the last one waits until
\* anti_oscillation_cooldown_s after the last command.
NoQuickFlip ==
    [][reframe.phase # "observe" /\ reframe'.phase = "observe"
         /\ last_reframe = -(reframe'.last_direction)
       => reframe.command_age >= AntiOscillation]_<<vars, last_reframe>>
=============================================================================
