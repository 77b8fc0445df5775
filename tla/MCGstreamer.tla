------------------------------ MODULE MCGstreamer ------------------------------
(* Two encoders: avenc makes only one of the two codecs, x264enc the other *)
(* as well.                                                                *)
EXTENDS GstreamerCapture

CONSTANTS h264, vp8, x264enc, avenc

MCMakes == [e \in {x264enc, avenc} |-> IF e = avenc THEN {vp8} ELSE {h264, vp8}]
===============================================================================
