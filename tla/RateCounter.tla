----------------------------- MODULE RateCounter -----------------------------
(***************************************************************************)
(* What the rate limiter promises: requests are counted one at a time in   *)
(* the bucket of their client and minute, and a request passes if and only *)
(* if its own number does not exceed the limit of its plan.  Counters are  *)
(* kept in memory, a restart of the process forgets them.                  *)
(***************************************************************************)
EXTENDS Naturals

CONSTANTS
  Requests,   \* requests that reach the limiter
  Buckets     \* pairs of a client and a minute

VARIABLES
  used,       \* requests counted in each bucket since the process started
  passed      \* "none" while undecided, then "next" or "refused"

Init ==
  /\ used = [b \in Buckets |-> 0]
  /\ passed = [r \in Requests |-> "none"]

Count(r, b, limit) ==
  /\ passed[r] = "none"
  /\ used' = [used EXCEPT ![b] = @ + 1]
  /\ passed' = [passed EXCEPT ![r] = IF used[b] < limit THEN "next" ELSE "refused"]

Restart ==
  /\ used' = [b \in Buckets |-> 0]
  /\ UNCHANGED passed
=============================================================================
