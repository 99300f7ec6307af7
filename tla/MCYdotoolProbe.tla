--------------------------- MODULE MCYdotoolProbe ---------------------------
(* The constants of the TLC runs of YdotoolProbe.                          *)
EXTENDS YdotoolProbe, TLC

(* Two features stand for the five that are probed.                        *)
TwoFeatures == <<"wheel", "stdin">>

(* A ydotool that has both, one that answers to --help only and lacks the  *)
(* last one, and a legacy one.                                             *)
ThreeBuilds == {[help |-> 1, raw |-> TRUE,  does |-> {"wheel", "stdin"}],
                [help |-> 2, raw |-> TRUE,  does |-> {"wheel"}],
                [help |-> 1, raw |-> FALSE, does |-> {}]}
=============================================================================
