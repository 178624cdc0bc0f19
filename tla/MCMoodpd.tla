------------------------------ MODULE MCMoodpd ------------------------------
(* Small frames, so that a port of two bytes refuses and splits them, or one  *)
(* of a single byte, and OSC packets with two frames around a message the     *)
(* daemon does not know.                                                      *)
EXTENDS Moodpd

MCFrameLen == [kind \in FrameKinds |->
                  CASE kind \in {"init", "raw"} -> 1
                    [] kind = "rgb"             -> 3
                    [] OTHER                    -> 2]

MCShortFrames == [kind \in FrameKinds |-> IF kind = "rgb" THEN 2 ELSE 1]

MCOscContents == {<<"rgb", "other", "ori">>}
=============================================================================
