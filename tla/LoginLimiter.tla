---------------------------- MODULE LoginLimiter ----------------------------
(***************************************************************************)
(* The sign-in rate limiter of internal/auth/ratelimit.go, driven by the   *)
(* PostLogin handlers that share it.  One entry per client address counts  *)
(* recorded failures and the attempts admitted by TryBegin that have not   *)
(* yet called End; maxFailures failures lock the address out.              *)
(*                                                                         *)
(* A missing map entry and a zero loginEntry behave alike in every method, *)
(* so entries is total and ZeroEntry stands for both.  Time is a clock     *)
(* that may stand still between calls; lockedUntil = 0 is Go's zero time.  *)
(***************************************************************************)
EXTENDS Integers, FiniteSets

CONSTANTS
  Attempts,    \* sign-in requests being handled
  IPs,         \* client addresses
  IpOf,        \* the address each request comes from
  Limits,      \* the settings an admin may choose: [max, lockout]
  MaxClock     \* bound on the clock

ASSUME LimiterAssumption ==
  /\ IsFiniteSet(Attempts)
  /\ IpOf \in [Attempts -> IPs]
  /\ Limits \subseteq [max : Nat \ {0}, lockout : Nat \ {0}]
  /\ Limits # {}
  /\ MaxClock \in Nat \ {0}

VARIABLES
  clock,     \* from 1: later than the zero time
  limits,    \* maxFailures and lockoutDuration
  entries,   \* entries[ip]: the loginEntry of an address
  attempt,   \* attempt[a]: how far the handler of request a has come
  steady,    \* history: the threshold has never been changed
  since      \* since[ip], history: the threshold its last lockout began under

history == <<steady, since>>
lvars == <<clock, limits, entries, attempt, history>>

Phases == {"idle", "checking", "decided"}

ZeroEntry == [failures |-> 0, inFlight |-> 0, lockedUntil |-> 0, lastFailure |-> 0]

Entry == [failures : Nat, inFlight : Nat, lockedUntil : Nat, lastFailure : Nat]

LockedOut(ip) == clock < entries[ip].lockedUntil

\* Attempts whose password check has been admitted and not yet decided.
Pending(ip) == {a \in Attempts : IpOf[a] = ip /\ attempt[a] = "checking"}

\* Attempts that hold a reservation: TryBegin returned true, End is deferred.
Reserved(ip) == {a \in Attempts : IpOf[a] = ip /\ attempt[a] # "idle"}

LInit ==
  /\ clock = 1
  /\ limits \in Limits
  /\ entries = [ip \in IPs |-> ZeroEntry]
  /\ attempt = [a \in Attempts |-> "idle"]
  /\ steady = TRUE
  /\ since = [ip \in IPs |-> 0]

-----------------------------------------------------------------------------
(* The methods, as operators on an entry.                                  *)

\* RecordFailure: reconfirm a lockout, start over after an expired one,
\* count, and lock at the threshold.
Failed(e) ==
  LET expired  == e.failures >= limits.max /\ clock > e.lockedUntil
      failures == (IF expired THEN 0 ELSE e.failures) + 1
  IN IF clock < e.lockedUntil THEN e
     ELSE [e EXCEPT !.failures = failures,
                    !.lastFailure = clock,
                    !.lockedUntil = IF failures >= limits.max
                                      THEN clock + limits.lockout ELSE @]

\* A failure that locks the address out, or does so again.
Locks(e) == ~(clock < e.lockedUntil) /\ Failed(e).failures >= limits.max

\* Reset and Clear: forget the failures, keep the reservations.
Cleared(e) == [ZeroEntry EXCEPT !.inFlight = e.inFlight]

\* The failures TryBegin counts: an entry at the threshold that is not
\* locked is taken for one whose lockout has expired.
Counted(e) == IF e.failures >= limits.max THEN 0 ELSE e.failures

\* (Mutant: the ticker takes every entry at the threshold for an expired one.)
StaleAtThreshold(e) ==
  /\ e.inFlight = 0
  /\ e.failures >= limits.max \/ clock - e.lastFailure > limits.lockout

\* cleanup: what its ticker removes.
Stale(e) ==
  /\ e.inFlight = 0
  /\ IF e.failures >= limits.max THEN clock > e.lockedUntil
                                 ELSE clock - e.lastFailure > limits.lockout

-----------------------------------------------------------------------------
(* The handlers.                                                           *)

\* (Mutant: the reservations are not counted.)
TryBeginUncounted(a) ==
  LET ip == IpOf[a] IN
  /\ attempt[a] = "idle"
  /\ ~LockedOut(ip)
  /\ Counted(entries[ip]) < limits.max
  /\ entries' = [entries EXCEPT ![ip].inFlight = @ + 1]
  /\ attempt' = [attempt EXCEPT ![a] = "checking"]
  /\ UNCHANGED <<clock, limits, history>>

\* PostLogin reserves the attempt; a refused request answers 429 and leaves
\* no trace.
TryBegin(a) ==
  LET ip == IpOf[a] IN
  /\ attempt[a] = "idle"
  /\ ~LockedOut(ip)
  /\ Counted(entries[ip]) + entries[ip].inFlight < limits.max
  /\ entries' = [entries EXCEPT ![ip].inFlight = @ + 1]
  /\ attempt' = [attempt EXCEPT ![a] = "checking"]
  /\ UNCHANGED <<clock, limits, history>>

\* Unknown name, disabled or expired account, wrong password.
RecordFailure(a) ==
  /\ attempt[a] = "checking"
  /\ entries' = [entries EXCEPT ![IpOf[a]] = Failed(@)]
  /\ attempt' = [attempt EXCEPT ![a] = "decided"]
  /\ since' = [since EXCEPT ![IpOf[a]] =
                 IF Locks(entries[IpOf[a]]) THEN limits.max ELSE @]
  /\ UNCHANGED <<clock, limits, steady>>

\* The right password.
Reset(a) ==
  /\ attempt[a] = "checking"
  /\ entries' = [entries EXCEPT ![IpOf[a]] = Cleared(@)]
  /\ attempt' = [attempt EXCEPT ![a] = "decided"]
  /\ UNCHANGED <<clock, limits, history>>

\* The deferred End, once the response is written.
End(a) ==
  /\ attempt[a] = "decided"
  /\ entries' = [entries EXCEPT ![IpOf[a]].inFlight = IF @ > 0 THEN @ - 1 ELSE @]
  /\ attempt' = [attempt EXCEPT ![a] = "idle"]
  /\ UNCHANGED <<clock, limits, history>>

\* An admin ends a lockout.
Clear(ip) ==
  /\ entries[ip].failures > 0
  /\ entries' = [entries EXCEPT ![ip] = Cleared(@)]
  /\ UNCHANGED <<clock, limits, attempt, history>>

\* An admin saves new lockout settings.
SetLimits(l) ==
  /\ limits' = l
  /\ steady' = (steady /\ l.max = limits.max)
  /\ UNCHANGED <<clock, entries, attempt, since>>

Cleanup ==
  /\ entries' = [ip \in IPs |-> IF Stale(entries[ip]) THEN ZeroEntry ELSE entries[ip]]
  /\ UNCHANGED <<clock, limits, attempt, history>>

LTick ==
  /\ clock < MaxClock
  /\ clock' = clock + 1
  /\ UNCHANGED <<limits, entries, attempt, history>>

LNext ==
  \/ \E a \in Attempts : TryBegin(a) \/ RecordFailure(a) \/ Reset(a) \/ End(a)
  \/ \E ip \in IPs : Clear(ip)
  \/ \E l \in Limits : SetLimits(l)
  \/ Cleanup
  \/ LTick

LSpec == LInit /\ [][LNext]_lvars

-----------------------------------------------------------------------------
LTypeOK ==
  /\ clock \in 1..MaxClock
  /\ limits \in Limits
  /\ entries \in [IPs -> Entry]
  /\ attempt \in [Attempts -> Phases]
  /\ steady \in BOOLEAN
  /\ since \in [IPs -> Nat]

\* Every reservation is released exactly once, through whatever Reset, Clear
\* and the cleanup ticker do to the entry in between: the counter is the
\* number of handlers between TryBegin and End.
ReservationsBalance ==
  \A ip \in IPs : entries[ip].inFlight = Cardinality(Reserved(ip))

\* TryBegin's promise that concurrent requests cannot all run the password
\* check before the first failures are recorded: while an address is below
\* the threshold, its recorded failures and its undecided checks together
\* never exceed it.
FailureBudget ==
  \A ip \in IPs :
    entries[ip].failures < limits.max =>
      entries[ip].failures + Cardinality(Pending(ip)) <= limits.max

\* A lockout leaves nobody guessing: once the threshold is reached, no
\* admitted attempt of that address is still undecided.  (A failure recorded
\* at the very instant a lockout ends counts past the threshold, and is
\* left out.)
LockoutIsFinal ==
  \A ip \in IPs :
    LockedOut(ip) /\ entries[ip].failures <= limits.max => Pending(ip) = {}

\* What makes the three above inductive: an address never holds more
\* reservations than failures it is allowed.
ReservationsBounded == \A ip \in IPs : entries[ip].inFlight <= limits.max

\* However many sign-ins run at once, and whatever clears, clean-ups and the
\* clock do in between, each reservation is released once; and as long as the
\* threshold has not been changed, an address gets no more guesses than that:
\* failures and undecided checks together stay within the budget, and a
\* lockout leaves nobody guessing (TryBegin).  Nothing is said of the budget
\* once an admin has saved another threshold: with two failures, an expired
\* lockout and two checks begun, a threshold that goes from 2 to 3 is passed.
LimiterInv ==
  /\ LTypeOK
  /\ ReservationsBalance
  /\ steady => ReservationsBounded /\ FailureBudget /\ LockoutIsFinal

\* An address that was locked out under a lower threshold than the present.
Outgrown(ip) == since[ip] < limits.max

\* A lockout ends by running out, by an admin's Clear, or by a success that
\* was admitted before it.  Settings saved meanwhile and the ends of other
\* attempts leave it standing, and so does the cleanup ticker, but for this: once
\* the threshold has been raised above the one the lockout began under, the
\* ticker may take its entry for one on its way there, and drop it as soon as
\* the saved lockout time is over (ratelimit.go:248-251).  SetLimits says that it
\* changes the limits "for failures from now on" (ratelimit.go:50-51), so that
\* lockout ends early against the comment; of it nothing is claimed.
LockoutStands ==
  [][\A ip \in IPs :
       LockedOut(ip) /\ ~LockedOut(ip)' =>
         \/ clock' # clock
         \/ Clear(ip)
         \/ \E a \in Attempts : IpOf[a] = ip /\ Reset(a)
         \/ Cleanup /\ Outgrown(ip)]_lvars
=============================================================================
