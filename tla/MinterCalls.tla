---------------------------- MODULE MinterCalls ----------------------------
(***************************************************************************)
(* The handlers of the minter that run at once, and what may go wrong in   *)
(* the requests they make of Pinata (CIDCache) and of Sui (SuiClient).     *)
(***************************************************************************)
EXTENDS FiniteSets

CONSTANTS
  Calls,                \* handlers in progress
  Faults,               \* which of PinFaults and RPCFaults occur
  None                  \* no call, ride or date

\* pin:      Pinata refuses, the request fails or its answer is lost
PinFaults == {"pin"}

\* throttle: an RPC is turned away with "429", "Too Many" or "rate limit"
\* echo:     the transaction is executed, the error holds one of these by chance
\* fail:     an RPC fails otherwise, nothing is executed
\* lost:     the transaction is executed, the client reports another error
\* abort:    the effects are those of a failure; only the digest is looked at
\* gone:     the context of the handler is cancelled
RPCFaults == {"throttle", "echo", "fail", "lost", "abort", "gone"}

ASSUME FaultsAssumption == Faults \subseteq PinFaults \cup RPCFaults
ASSUME CallsAssumption == IsFiniteSet(Calls) /\ None \notin Calls
=============================================================================
