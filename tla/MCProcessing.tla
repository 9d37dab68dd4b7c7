----------------------------- MODULE MCProcessing -----------------------------
(* Small instances of Processing for TLC.                                    *)
EXTENDS Processing

=============================================================================
