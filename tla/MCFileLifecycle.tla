--------------------------- MODULE MCFileLifecycle ---------------------------
(* Small instances of FileLifecycle for TLC: a file, and requests on it. *)
EXTENDS FileLifecycle
=============================================================================
