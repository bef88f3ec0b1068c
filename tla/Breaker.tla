------------------------------ MODULE Breaker ------------------------------
(***************************************************************************)
(* What a circuit breaker promises whoever reads its row: a hold is never  *)
(* prolonged while it runs, a source is held anew only from closed, for    *)
(* the base cooldown, and a hold that ran out either ends or is renewed    *)
(* for twice the time, up to a cap.  Who probes, records or closes, and in *)
(* which order, is left to SourceBreaker, which implements this module.    *)
(***************************************************************************)
EXTENDS Naturals

CONSTANTS Base, Cap  \* the cooldown of a first hold, and of the longest

VARIABLES phase,     \* closed, open, or half-open once the hold has run out
          hold       \* the cooldown of the hold

held == <<phase, hold>>

Init == phase = "closed" /\ hold = 0

HoldAfresh == phase' = "open" /\ hold' = Base

Longer(cooldown) == IF 2 * cooldown > Cap THEN Cap ELSE 2 * cooldown

Open == phase = "closed" /\ HoldAfresh

RunOut == phase = "open" /\ phase' = "half-open" /\ UNCHANGED hold

Renew == phase = "half-open" /\ phase' = "open" /\ hold' = Longer(hold)

\* One write may record the clean trial and the failures that followed it.
CleanAndOpenAgain == phase = "half-open" /\ HoldAfresh

\* By a clean trial, by an operator, or with the source.
Close == phase # "closed" /\ phase' = "closed" /\ hold' = 0

Next == Open \/ RunOut \/ Renew \/ CleanAndOpenAgain \/ Close

Spec == Init /\ [][Next]_held
============================================================================
