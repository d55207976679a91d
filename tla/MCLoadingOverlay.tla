-------------------------- MODULE MCLoadingOverlay --------------------------
(* A small instance of LoadingOverlay for TLC.                              *)
EXTENDS LoadingOverlay

CONSTANTS k1, k2, auth, upload, comment, chat

MCTwoCalls == {k1, k2}
MCNotifiers == {auth, upload, comment, chat}
MCKeyboard == {auth, comment, chat}
MCEarly == {upload, chat}
MCLeaky == {auth, upload}
=============================================================================
