----------------------------- MODULE RetryLoop -----------------------------
(***************************************************************************)
(* The retry loops of internal/cockroach: pingWithRetry (client.go) and     *)
(* applyWithRetry (zone_configs.go).  Both test a deadline, try, sleep for  *)
(* the backoff and double it while it is below eight seconds.  Time is      *)
(* counted in seconds from the start of the loop.                           *)
(***************************************************************************)
EXTENDS Integers

BackoffCap == 8

(* elapsed: now.  tried: when the last attempt began. *)
NewLoop == [elapsed |-> 0, tried |-> 0, backoff |-> 1]

(* time.Now().Before(deadline) *)
CanTry(l, timeout) == l.elapsed < timeout

(* Mutant: the backoff goes on doubling. *)
LongerUncapped(b) == 2 * b

Longer(b) == IF b < BackoffCap THEN 2 * b ELSE b

(* An attempt that took cost seconds and failed, and the sleep after it. *)
AfterFailure(l, cost) ==
  [elapsed |-> l.elapsed + cost + l.backoff, tried |-> l.elapsed, backoff |-> Longer(l.backoff)]

-----------------------------------------------------------------------------

LoopType(l) == l \in [elapsed : Nat, tried : Nat, backoff : {1, 2, 4, 8}]

(* The deadline is tested before an attempt only, so that the loop runs past it,
   but by no more than one attempt and one sleep; and it does not give up early:
   the last attempt begins no earlier than that before the deadline. *)
InWindow(l, timeout, cost) ==
  /\ l.elapsed < timeout + cost + BackoffCap
  /\ ~CanTry(l, timeout) => l.tried >= timeout - cost - BackoffCap

=============================================================================
