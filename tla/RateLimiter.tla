----------------------------- MODULE RateLimiter -----------------------------
(***************************************************************************)
(* The rate-limit middleware: a fixed window of one minute per client,     *)
(* counted in a Go map that a mutex protects.  Requests run in goroutines  *)
(* of their own; the minute may change while a request is between reading  *)
(* the clock and taking the mutex; the process may die, and the new one    *)
(* starts with an empty map.                                               *)
(*                                                                         *)
(* The plan of a request comes from the profile read when its key was      *)
(* authenticated, so two requests of one client in one minute may have     *)
(* different limits.                                                       *)
(***************************************************************************)
EXTENDS Naturals, FiniteSets

CONSTANTS
  Requests,     \* requests that carry a valid API key
  Clients,      \* profile.ClientID: one per user
  Plans,        \* plan codes a profile may hold
  PolicyOf,     \* plans loaded at start-up -> RequestsPerMinute
  LastMinute,   \* bound: the clock stops here
  LastBoot,     \* bound: the process restarts at most this often
  NoRequest     \* the mutex is free

ASSUME PolicyAssumption ==
  /\ DOMAIN PolicyOf \subseteq Plans
  /\ \A p \in DOMAIN PolicyOf : PolicyOf[p] \in Nat

ASSUME BoundAssumption == LastMinute \in Nat /\ LastBoot \in Nat

ASSUME NoRequestAssumption == NoRequest \notin Requests

Minutes == 0 .. LastMinute
Buckets == Clients \X Minutes

VARIABLES
  now,       \* the current minute
  boot,      \* how often the process has been restarted
  mu,        \* the request that holds the mutex
  windows,   \* m.windows[...].Count, 0 for a key that is not in the map
  pc,        \* where each request is
  profile,   \* its client and plan
  stamp,     \* currentWindow, and the process it was read in
  window,    \* window.Count, the copy of the goroutine
  count      \* count, 0 before it is taken

clock == <<now, boot>>
request == <<profile, stamp, window, count>>
vars == <<now, boot, mu, windows, pc, profile, stamp, window, count>>

Critical == {"read", "write", "unlock"}
Waiting == {"clock", "lock", "decide"} \union Critical
Verdicts == {"next", "429", "403", "500"}
PCs == Waiting \union Verdicts \union {"idle", "lost"}

Profile == [client : Clients, plan : Plans]

\* The bucket in which r is counted, and the limit that applies to it.
Bucket(r) == <<profile[r].client, stamp[r].minute>>
Limit(r) == PolicyOf[profile[r].plan]

Init ==
  /\ now = 0
  /\ boot = 0
  /\ mu = NoRequest
  /\ windows = [b \in Buckets |-> 0]
  /\ pc = [r \in Requests |-> "idle"]
  /\ profile \in [Requests -> Profile]
  /\ stamp = [r \in Requests |-> [minute |-> 0, boot |-> 0]]
  /\ window = [r \in Requests |-> 0]
  /\ count = [r \in Requests |-> 0]

Goto(r, step) == pc' = [pc EXCEPT ![r] = step]

\* The policy of the plan is looked up; a missing or a zero one ends the request.
Arrive(r) ==
  /\ pc[r] = "idle"
  /\ Goto(r, IF profile[r].plan \notin DOMAIN PolicyOf THEN "403"
             ELSE IF Limit(r) = 0 THEN "500"
             ELSE "clock")
  /\ UNCHANGED <<clock, mu, windows, request>>

\* time.Now().UTC().Truncate(time.Minute), before the mutex is taken.
ReadClock(r) ==
  /\ pc[r] = "clock"
  /\ stamp' = [stamp EXCEPT ![r] = [minute |-> now, boot |-> boot]]
  /\ Goto(r, "lock")
  /\ UNCHANGED <<clock, mu, windows, profile, window, count>>

\* Mutant: no mutex around the read and the write of the map.
LockNothing(r) ==
  /\ pc[r] = "lock"
  /\ Goto(r, "read")
  /\ UNCHANGED <<clock, mu, windows, request>>

Lock(r) ==
  /\ pc[r] = "lock"
  /\ mu = NoRequest
  /\ mu' = r
  /\ Goto(r, "read")
  /\ UNCHANGED <<clock, windows, request>>

ReadWindow(r) ==
  /\ pc[r] = "read"
  /\ window' = [window EXCEPT ![r] = windows[Bucket(r)]]
  /\ Goto(r, "write")
  /\ UNCHANGED <<clock, mu, windows, profile, stamp, count>>

\* Count++, stored back into the map, and copied for the decision.
WriteWindow(r) ==
  /\ pc[r] = "write"
  /\ windows' = [windows EXCEPT ![Bucket(r)] = window[r] + 1]
  /\ count' = [count EXCEPT ![r] = window[r] + 1]
  /\ Goto(r, "unlock")
  /\ UNCHANGED <<clock, mu, profile, stamp, window>>

\* Mutant: an early return that skips the Unlock.
UnlockForgotten(r) ==
  /\ pc[r] = "unlock"
  /\ Goto(r, "decide")
  /\ UNCHANGED <<clock, mu, windows, request>>

Unlock(r) ==
  /\ pc[r] = "unlock"
  /\ mu' = NoRequest
  /\ Goto(r, "decide")
  /\ UNCHANGED <<clock, windows, request>>

\* Mutant: >= instead of >, the last request of the allowance is refused.
DecideEarly(r) ==
  /\ pc[r] = "decide"
  /\ Goto(r, IF count[r] >= Limit(r) THEN "429" ELSE "next")
  /\ UNCHANGED <<clock, mu, windows, request>>

\* Mutant: the count as it was before this request is compared.
DecideLate(r) ==
  /\ pc[r] = "decide"
  /\ Goto(r, IF window[r] > Limit(r) THEN "429" ELSE "next")
  /\ UNCHANGED <<clock, mu, windows, request>>

\* After the mutex is released: its own count, not the map, decides.
Decide(r) ==
  /\ pc[r] = "decide"
  /\ Goto(r, IF count[r] > Limit(r) THEN "429" ELSE "next")
  /\ UNCHANGED <<clock, mu, windows, request>>

\* A minute passes.
Tick ==
  /\ now < LastMinute
  /\ now' = now + 1
  /\ UNCHANGED <<boot, mu, windows, pc, request>>

\* The process dies and is started again: no request survives, nor the map.
Restart ==
  /\ boot < LastBoot
  /\ boot' = boot + 1
  /\ mu' = NoRequest
  /\ windows' = [b \in Buckets |-> 0]
  /\ pc' = [r \in Requests |-> IF pc[r] \in Waiting THEN "lost" ELSE pc[r]]
  /\ UNCHANGED <<now, request>>

Progress(r) ==
  ReadClock(r) \/ Lock(r) \/ ReadWindow(r) \/ WriteWindow(r) \/ Unlock(r) \/ Decide(r)

Next ==
  \/ \E r \in Requests : Arrive(r) \/ Progress(r)
  \/ Tick
  \/ Restart

Spec == Init /\ [][Next]_vars

(***************************************************************************)
(* Goroutines are scheduled, and sync.Mutex hands a free mutex to a waiter *)
(* before long.  Each request locks it once, so weak fairness is enough.   *)
(***************************************************************************)
FairSpec == Spec /\ \A r \in Requests : WF_vars(Progress(r))

-----------------------------------------------------------------------------
(* Properties                                                              *)

(***************************************************************************)
(* Types, and the mutex: exactly the request that holds it is between Lock *)
(* and Unlock.                                                             *)
(***************************************************************************)
TypeOK ==
  /\ now \in Minutes
  /\ boot \in 0 .. LastBoot
  /\ mu \in Requests \union {NoRequest}
  /\ windows \in [Buckets -> Nat]
  /\ pc \in [Requests -> PCs]
  /\ profile \in [Requests -> Profile]
  /\ stamp \in [Requests -> [minute : Minutes, boot : 0 .. LastBoot]]
  /\ window \in [Requests -> Nat]
  /\ count \in [Requests -> Nat]
  /\ \A r \in Requests : pc[r] \in Critical <=> mu = r

\* Requests counted in bucket b by process k, and those of them let through.
CountedIn(b, k) == {r \in Requests : count[r] > 0 /\ Bucket(r) = b /\ stamp[r].boot = k}
PassedIn(b, k) == {r \in CountedIn(b, k) : pc[r] = "next"}

(***************************************************************************)
(* In one minute one process lets through at most L requests of a client   *)
(* whose plan allows at most L, even when the plan changes within the      *)
(* minute and other requests of the client have another limit.             *)
(***************************************************************************)
PassedWithinLimit ==
  \A b \in Buckets, k \in 0 .. LastBoot, p \in DOMAIN PolicyOf :
    Cardinality({r \in PassedIn(b, k) : Limit(r) <= PolicyOf[p]}) <= PolicyOf[p]

(***************************************************************************)
(* A request is refused with 429 only if the allowance of its plan had     *)
(* been used up by other requests of the client in the minute it was       *)
(* stamped with: no request is counted twice or in the wrong minute.       *)
(***************************************************************************)
RefusalJustified ==
  \A r \in Requests : pc[r] = "429" =>
    Cardinality(CountedIn(Bucket(r), stamp[r].boot) \ {r}) >= Limit(r)

\* The verdict a request is bound to get, from the moment it is counted.
Passed ==
  [r \in Requests |-> IF count[r] = 0 THEN "none"
                      ELSE IF count[r] > Limit(r) THEN "refused" ELSE "next"]

Rate == INSTANCE RateCounter WITH used <- windows, passed <- Passed

(***************************************************************************)
(* Reading, incrementing and writing the counter is one atomic step for    *)
(* everybody else: no increment is lost, and the verdict is the one that   *)
(* the position of the request in its bucket asks for.                     *)
(***************************************************************************)
CountsAtomically ==
  Rate!Init /\
  [][\/ \E r \in Requests : /\ profile[r].plan \in DOMAIN PolicyOf
                            /\ Rate!Count(r, Bucket(r), Limit(r))
     \/ Rate!Restart]_<<windows, Passed>>

(***************************************************************************)
(* Every request gets a verdict, or its process dies.                      *)
(***************************************************************************)
EveryRequestDecided ==
  \A r \in Requests : (pc[r] \in Waiting) ~> (pc[r] \in Verdicts \union {"lost"})
=============================================================================
