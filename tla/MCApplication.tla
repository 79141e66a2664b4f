----------------------------- MODULE MCApplication -----------------------------
(***************************************************************************)
(* One application with two children that may be connected, started and    *)
(* closed at any time, and a close() that may be retried.                  *)
(***************************************************************************)
EXTENDS Application

=============================================================================
