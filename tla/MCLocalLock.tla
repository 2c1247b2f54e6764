---------------------------- MODULE MCLocalLock ----------------------------
(* LocalLock, with the line of requests that its abstraction needs, on     *)
(* small instances; see the README for the bounds.                         *)
EXTENDS LocalLockFifo
=============================================================================
