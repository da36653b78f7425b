---------------------------- MODULE MCCaptureRun ------------------------------
(* Values for CaptureRun's constants: a trade and a depth message of two      *)
(* updates, for a venue that needs a snapshot and for one that does not.      *)
EXTENDS CaptureRun

MCStream == << {}, 2 .. 3 >>
MCSettings == {<< TRUE, 3 >>, << FALSE, None >>, << FALSE, 2 >>}
===============================================================================
