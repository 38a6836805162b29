---------------------------- MODULE MCCallControl ----------------------------
(* Constants of the TLC runs over CallControl.                             *)
EXTENDS CallControl

\* Some of what the applications of the repository publish.  A noop completes by
\* itself or at once; a play also sets variables, raises, or both; a store
\* completes under a name that ends nothing, returns, or raises, and may run after
\* the hangup; a call_pickup completes under a name that ends nothing, or raises,
\* and may do so before it completes.
AppsNoop       == {"noop"}
AppsNoopStore  == {"noop", "store"}
AppsNoopPickup == {"noop", "call_pickup"}
AppsPlayNoop   == {"play", "noop"}
AppsFetch      == {"fetch"}
=============================================================================
