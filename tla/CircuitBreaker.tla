--------------------------- MODULE CircuitBreaker ---------------------------
(***************************************************************************)
(* What a circuit breaker in front of one host promises, whatever the      *)
(* bookkeeping behind it: calls are admitted unless the breaker is open,   *)
(* an answer of the host closes it, a failure can only leave it closed or  *)
(* open it, and a failure of a probe (a call in flight while the breaker   *)
(* is half-open) always opens it again for a whole cooldown.               *)
(*                                                                         *)
(* Breaker implements this specification (Breaker!Abs).                    *)
(***************************************************************************)
CONSTANT Callers

VARIABLES
  mode,     \* "closed", "open" (cooling down) or "half" (cooldown elapsed)
  trying,   \* the admitted calls that wait for the host
  resting   \* the admitted calls that wait before they try again

vars == <<mode, trying, resting>>

TypeOK ==
  /\ mode \in {"closed", "open", "half"}
  /\ trying \subseteq Callers
  /\ resting \subseteq Callers \ trying

Init ==
  /\ mode = "closed"
  /\ trying = {}
  /\ resting = {}

\* A call is let through: never while the breaker is open.
Admit(c) ==
  /\ c \notin trying \cup resting
  /\ mode # "open"
  /\ trying' = trying \cup {c}
  /\ UNCHANGED <<mode, resting>>

\* The host answered, with a result or with an error of its own.
Answered(c) ==
  /\ c \in trying
  /\ mode' = "closed"
  /\ trying' = trying \ {c}
  /\ UNCHANGED resting

\* One attempt failed in transport; the call goes on (a retry) or gives up.
Failed(c) ==
  /\ c \in trying
  /\ mode' \in (IF mode = "closed" THEN {"closed", "open"} ELSE {"open"})
  /\ trying' = trying \ {c}
  /\ resting' \in {resting, resting \cup {c}}

Retry(c) ==
  /\ c \in resting
  /\ trying' = trying \cup {c}
  /\ resting' = resting \ {c}
  /\ UNCHANGED mode

\* The call was cancelled by its caller: the host's health is not touched.
Dropped(c) ==
  /\ c \in trying \cup resting
  /\ trying' = trying \ {c}
  /\ resting' = resting \ {c}
  /\ UNCHANGED mode

CooledDown ==
  /\ mode = "open"
  /\ mode' = "half"
  /\ UNCHANGED <<trying, resting>>

Next ==
  \/ \E c \in Callers : Admit(c) \/ Answered(c) \/ Failed(c) \/ Retry(c) \/ Dropped(c)
  \/ CooledDown

Spec == Init /\ [][Next]_vars
=============================================================================
