------------------------------- MODULE MCWebUi -------------------------------
(* WebUi with the model values and bounds of WebUi.cfg.                    *)
EXTENDS WebUi

=============================================================================
