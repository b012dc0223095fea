------------------------------ MODULE Webhooks ------------------------------
(***************************************************************************)
(* Webhook deliveries (src/jim/monitors/notify.py): the engine signs each  *)
(* delivery over its timestamp, its nonce and its body; the network loses, *)
(* delays, repeats and reorders copies and may alter a header; the         *)
(* subscriber checks a copy with verify_delivery and its set of nonces.    *)
(*                                                                         *)
(* A delivery is named by its nonce (uuid4), which stands for the body too. *)
(* A signature is what it signs, so a copy whose headers differ from the   *)
(* signed ones does not verify.  The two machines' clocks differ by a      *)
(* constant skew.  The subscriber's program is external: it is taken to    *)
(* keep a nonce for as long as a copy of it could pass the window.         *)
(***************************************************************************)
EXTENDS Integers

CONSTANTS
  Nonces,      \* deliveries
  Tolerance,   \* tolerance_seconds
  Skews,       \* the subscriber's clock minus the engine's
  MaxTime      \* bound of the engine's clock

ASSUME ToleranceAssumption == Tolerance \in Nat
ASSUME SkewsAssumption     == Skews \subseteq Int
ASSUME MaxTimeAssumption   == MaxTime \in Nat

VARIABLES
  time,      \* the engine's time.time(), in ticks
  skew,
  signed,    \* per delivery: the timestamp it was signed with, or -1
  outcome,   \* per delivery: what WebhookChannel.deliver returned
  seen,      \* the subscriber's seen_nonces
  accepted   \* history: how often the subscriber took each delivery

hookVars == <<time, skew, signed, outcome, seen, accepted>>

HookTypeOK ==
  /\ time \in 0..MaxTime
  /\ skew \in Skews
  /\ signed \in [Nonces -> -1..MaxTime]
  /\ outcome \in [Nonces -> {"none", "awaited", "delivered", "failed"}]
  /\ seen \in SUBSET Nonces
  /\ accepted \in [Nonces -> Nat]

HookInit ==
  /\ time = 0
  /\ skew \in Skews
  /\ signed = [n \in Nonces |-> -1]
  /\ outcome = [n \in Nonces |-> "none"]
  /\ seen = {}
  /\ accepted = [n \in Nonces |-> 0]

\* The subscriber's time.time().
Here == time + skew

Sent(n) == signed[n] # -1

\* WebhookChannel.deliver up to the post: timestamp, nonce, signature.
PostHook(n) ==
  /\ ~Sent(n)
  /\ signed' = [signed EXCEPT ![n] = time]
  /\ outcome' = [outcome EXCEPT ![n] = "awaited"]
  /\ UNCHANGED <<time, skew, seen, accepted>>

\* Mutant of Genuine: the body alone is signed (sign_payload), not the timestamp.
GenuineBody(n, stamp) == Sent(n)

\* verify_delivery: the signature, then the window on both sides, then the nonce.
Genuine(n, stamp)  == signed[n] = stamp
InWindow(stamp)    == Here - stamp <= Tolerance /\ stamp - Here <= Tolerance
Verifies(n, stamp) == Genuine(n, stamp) /\ InWindow(stamp) /\ n \notin seen

\* A copy of a delivery reaches the subscriber, its timestamp perhaps altered.
ReceiveHook(n, stamp) ==
  /\ Sent(n)
  /\ Verifies(n, stamp)
  /\ seen' = seen \cup {n}
  /\ accepted' = [accepted EXCEPT ![n] = @ + 1]
  /\ UNCHANGED <<time, skew, signed, outcome>>

\* Any answer below 400, whatever the subscriber (or a proxy before it) did with
\* the copy: the engine reads the status alone.
HookAnswered(n) ==
  /\ outcome[n] = "awaited"
  /\ outcome' = [outcome EXCEPT ![n] = "delivered"]
  /\ UNCHANGED <<time, skew, signed, seen, accepted>>

\* An answer of 400 or more, or httpx.HTTPError: lost, late or refused, perhaps
\* after the subscriber accepted it.
HookFailed(n) ==
  /\ outcome[n] = "awaited"
  /\ outcome' = [outcome EXCEPT ![n] = "failed"]
  /\ UNCHANGED <<time, skew, signed, seen, accepted>>

\* The subscriber (external) drops a nonce whose timestamp has left the window.
ForgetNonce(n) ==
  /\ n \in seen
  /\ Here > signed[n] + Tolerance
  /\ seen' = seen \ {n}
  /\ UNCHANGED <<time, skew, signed, outcome, accepted>>

HookTick ==
  /\ time < MaxTime
  /\ time' = time + 1
  /\ UNCHANGED <<skew, signed, outcome, seen, accepted>>

HookNext ==
  \/ \E n \in Nonces : PostHook(n)
  \/ \E n \in Nonces, stamp \in 0..MaxTime : ReceiveHook(n, stamp)
  \/ \E n \in Nonces : HookAnswered(n)
  \/ \E n \in Nonces : HookFailed(n)
  \/ \E n \in Nonces : ForgetNonce(n)
  \/ HookTick

HookSpec == HookInit /\ [][HookNext]_hookVars

\* A subscriber that checks with verify_delivery acts on a delivery at most once,
\* however its copies are delayed, repeated and altered.  (That deliver() reports
\* a delivery says nothing of this: it is any status below 400.)
AcceptedOnce == \A n \in Nonces : accepted[n] <= 1
=============================================================================
