-------------------------- MODULE AsyncRefinement --------------------------
(* The refinement mapping from AsyncHandler to AsyncLog.                   *)
EXTENDS AsyncHandler

StatusOf(r) ==
    CASE fate[r] = "handled" -> "handled"
      [] fate[r] # "none" /\ fate[r] # "handled" -> "dropped"
      [] fate[r] = "none" /\ call[r] = "idle" -> "new"
      [] OTHER -> "accepted"

Phase ==
    CASE finalizeOnce # "new" -> "closed"
      [] finalizeOnce = "new" /\ closed -> "closing"
      [] OTHER -> "open"

Log == INSTANCE AsyncLog WITH
          status <- [r \in Records |-> StatusOf(r)],
          phase <- Phase

(* Handle, the workers, Close, Shutdown and AbortContext together keep the *)
(* wrapper's promise: every record taken in is delivered or dropped        *)
(* exactly once, none after the gate has closed, and the inner handler is  *)
(* closed only when none is pending.                                       *)
LogSafety == Log!Spec
=============================================================================
