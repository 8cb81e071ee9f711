-------------------------- MODULE AuthThrottleProofs --------------------------
(***************************************************************************)
(* Proofs about AuthThrottle, for any keys, any finite set of attempts, any *)
(* limit and lockout, and without a horizon: its invariants, and what a    *)
(* step may never do to a lock or leave in the table.                      *)
(***************************************************************************)
EXTENDS AuthThrottle, FiniteSetTheorems, TLAPS

USE LimitsPositive

-----------------------------------------------------------------------------
(* The inductive invariant adds to the three of the runs how old an entry    *)
(* can be at the last cleanup; there is none before the first cleanup, which *)
(* the first failure does.                                                   *)

FreshAtSweep ==
  \A k \in Key : Known(k) => swept # 0 /\ swept - auth[k].updatedAt < 2 * Lockout

IInv == ThrottleTypeOK /\ LocksMatchFailures /\ OvershootBounded /\ FreshAtSweep

-----------------------------------------------------------------------------
(* The operators on one key's state.                                         *)

LEMMA EntryType ==
  ASSUME ThrottleTypeOK, NEW k \in Key
  PROVE  /\ auth[k] \in AuthState
         /\ auth[k].failures \in Nat /\ auth[k].lockedUntil \in Nat
         /\ auth[k].updatedAt \in 0..now /\ now \in Nat
<1>1. auth[k] \in AuthState /\ auth[k].updatedAt \in 0..now /\ now \in Nat
  BY DEF ThrottleTypeOK
<1> QED BY <1>1 DEF AuthState

LEMMA NoStateType == /\ NoState \in AuthState
                     /\ NoState.failures = 0 /\ NoState.lockedUntil = 0
                     /\ NoState.updatedAt = 0
BY DEF NoState, AuthState

\* A key's state after the cleanup is what it was, or, if nobody failed for it
\* in two lockouts, nothing; a lock is not that old.
LEMMA SweptEntry ==
  ASSUME IInv, NEW k \in Key
  PROVE  /\ Swept[k] = auth[k] \/ Swept[k] = NoState
         /\ Locked(k) => Swept[k] = auth[k]
         /\ SweepDue => Swept[k].failures = 0 \/ now - Swept[k].updatedAt < 2 * Lockout
<1>1. /\ auth[k].lockedUntil \in Nat /\ auth[k].updatedAt \in Nat /\ now \in Nat
      /\ auth[k].failures \in Nat
  BY EntryType DEF IInv
<1>2. Locked(k) => ~Expired(auth[k])
  BY <1>1 DEF IInv, LocksMatchFailures, Locked, Expired
<1>3. Swept[k] = IF SweepDue /\ Expired(auth[k]) THEN NoState ELSE auth[k]
  BY DEF Swept, IInv, ThrottleTypeOK
<1>4. ~Expired(auth[k]) => now - auth[k].updatedAt < 2 * Lockout
  BY <1>1 DEF Expired
<1> QED BY <1>2, <1>3, <1>4, NoStateType

LEMMA SweptType ==
  ASSUME IInv
  PROVE  Swept \in [Key -> AuthState]
BY NoStateType DEF IInv, ThrottleTypeOK, Swept

\* The rule on locks holds of it, and its time stamp is not ahead of the clock.
LEMMA SweptRule ==
  ASSUME IInv, NEW k \in Key
  PROVE  /\ Swept[k] \in AuthState /\ Swept[k].updatedAt \in 0..now
         /\ Swept[k].failures >= MaxFailedAuth
              => Swept[k].lockedUntil = Swept[k].updatedAt + Lockout
         /\ Swept[k].failures < MaxFailedAuth => Swept[k].lockedUntil = 0
<1>1. CASE Swept[k] = auth[k]
  BY <1>1, EntryType DEF IInv, LocksMatchFailures
<1>2. CASE Swept[k] = NoState
  BY <1>2, EntryType, NoStateType DEF IInv
<1> QED BY <1>1, <1>2, SweptEntry

\* One more failure, for a state that the rule on locks holds of: the rule holds
\* of the result, which has one failure more, or the first.
LEMMA ChargedEntry ==
  ASSUME now \in Nat, NEW s \in AuthState,
         s.failures >= MaxFailedAuth => s.lockedUntil = s.updatedAt + Lockout,
         s.failures < MaxFailedAuth => s.lockedUntil = 0
  PROVE  /\ Charged(s) \in AuthState
         /\ Charged(s).updatedAt = now
         /\ Charged(s).failures >= 1
         /\ Charged(s).failures >= MaxFailedAuth => Charged(s).lockedUntil = now + Lockout
         /\ Charged(s).failures < MaxFailedAuth => Charged(s).lockedUntil = 0
         /\ now < s.lockedUntil => Charged(s).failures = s.failures + 1
         /\ ~(now < s.lockedUntil) => Charged(s).failures <= MaxFailedAuth
<1> DEFINE f == Forgiven(s)
<1>1. /\ s.failures \in Nat /\ s.lockedUntil \in Nat /\ s.updatedAt \in Nat
  BY DEF AuthState
<1>2. /\ f.failures \in Nat /\ f.lockedUntil \in Nat
      /\ f.failures < MaxFailedAuth => f.lockedUntil = 0
      /\ now < s.lockedUntil => f = s
      /\ ~(now < s.lockedUntil) => f.failures < MaxFailedAuth
  BY <1>1, NoStateType DEF Forgiven
<1> HIDE DEF f
<1> DEFINE n == f.failures + 1
           u == IF n >= MaxFailedAuth THEN now + Lockout ELSE f.lockedUntil
<1>3. Charged(s) = [failures |-> n, updatedAt |-> now, lockedUntil |-> u]
  BY DEF Charged, Locks, f
<1>4. n \in Nat /\ u \in Nat
  BY <1>2
<1>5. /\ Charged(s).failures = n /\ Charged(s).updatedAt = now
      /\ Charged(s).lockedUntil = u
  BY <1>3
<1>6. Charged(s) \in AuthState
  BY <1>3, <1>4 DEF AuthState
<1> QED BY <1>1, <1>2, <1>5, <1>6

-----------------------------------------------------------------------------
(* The attempts in flight.                                                   *)

LEMMA InFlightSize ==
  ASSUME NEW k \in Key
  PROVE  /\ IsFiniteSet(InFlight(k)) /\ Cardinality(InFlight(k)) \in Nat
         /\ Cardinality(Attempt) \in Nat
         /\ Cardinality(InFlight(k)) <= Cardinality(Attempt)
<1>1. InFlight(k) \in SUBSET Attempt
  BY DEF InFlight
<1> QED BY <1>1, AttemptsFinite, FS_Subset, FS_CardinalityType

\* A verdict takes one attempt of its key, and no other, out of flight.
LEMMA VerdictLands ==
  ASSUME ThrottleTypeOK, NEW a \in Attempt, judging[a] # None, Judged(a)
  PROVE  /\ judging[a] \in Key
         /\ \A k \in Key : InFlight(k)' = InFlight(k) \ {a}
         /\ \A k \in Key :
              /\ Cardinality(InFlight(k)') <= Cardinality(InFlight(k))
              /\ k = judging[a] => Cardinality(InFlight(k)') = Cardinality(InFlight(k)) - 1
<1>1. judging[a] \in Key
  BY DEF ThrottleTypeOK
<1>2. \A k \in Key : InFlight(k)' = InFlight(k) \ {a}
  BY NoneIsNoKey DEF ThrottleTypeOK, Judged, InFlight
<1>3. a \in InFlight(judging[a])
  BY DEF InFlight
<1>4. ASSUME NEW k \in Key
      PROVE  /\ Cardinality(InFlight(k)') <= Cardinality(InFlight(k))
             /\ a \in InFlight(k)
                  => Cardinality(InFlight(k)') = Cardinality(InFlight(k)) - 1
  <2>1. IsFiniteSet(InFlight(k)) /\ Cardinality(InFlight(k)) \in Nat
    BY InFlightSize
  <2>2. Cardinality(InFlight(k) \ {a}) =
          IF a \in InFlight(k) THEN Cardinality(InFlight(k)) - 1
          ELSE Cardinality(InFlight(k))
    BY <2>1, FS_RemoveElement
  <2>3. InFlight(k)' = InFlight(k) \ {a}
    BY <1>2
  <2> QED BY <2>1, <2>2, <2>3
<1> QED BY <1>1, <1>2, <1>3, <1>4

-----------------------------------------------------------------------------
(* A failure.                                                                *)

\* What authFailed makes of the table.
LEMMA FailureTable ==
  ASSUME IInv, NEW a \in Attempt, AuthFailed(a)
  PROVE  /\ judging[a] \in Key
         /\ auth' \in [Key -> AuthState]
         /\ auth'[judging[a]] = Charged(Swept[judging[a]])
         /\ \A k \in Key : k # judging[a] => auth'[k] = Swept[k]
<1>1. judging[a] \in Key
  BY DEF AuthFailed, IInv, ThrottleTypeOK
<1>2. Swept \in [Key -> AuthState]
  BY SweptType
<1>3. auth' = [Swept EXCEPT ![judging[a]] = Charged(Swept[judging[a]])]
  BY DEF AuthFailed
<1>4. Charged(Swept[judging[a]]) \in AuthState
  BY <1>1, SweptRule, ChargedEntry DEF IInv, ThrottleTypeOK
<1> QED BY <1>1, <1>2, <1>3, <1>4

LEMMA FailureIInv ==
  ASSUME IInv, NEW a \in Attempt, AuthFailed(a)
  PROVE  IInv'
<1> DEFINE j == judging[a]
<1>1. /\ j \in Key /\ auth' \in [Key -> AuthState]
      /\ auth'[j] = Charged(Swept[j])
      /\ \A k \in Key : k # j => auth'[k] = Swept[k]
  BY FailureTable
<1>2. /\ now \in Nat \ {0} /\ swept \in 0..now /\ now' = now
      /\ swept' = IF SweepDue THEN now ELSE swept
      /\ judging[a] # None /\ Judged(a)
  BY DEF IInv, ThrottleTypeOK, AuthFailed
<1>3. /\ auth'[j].updatedAt = now
      /\ auth'[j].failures >= 1
      /\ auth'[j].failures >= MaxFailedAuth => auth'[j].lockedUntil = now + Lockout
      /\ auth'[j].failures < MaxFailedAuth => auth'[j].lockedUntil = 0
      /\ now < Swept[j].lockedUntil => auth'[j].failures = Swept[j].failures + 1
      /\ ~(now < Swept[j].lockedUntil) => auth'[j].failures <= MaxFailedAuth
  BY <1>1, <1>2, SweptRule, ChargedEntry
<1>4. ThrottleTypeOK'
  <2>1. judging' \in [Attempt -> Key \cup {None}]
    BY DEF IInv, ThrottleTypeOK, AuthFailed, Judged
  <2>2. \A k \in Key : auth'[k].updatedAt \in 0..now
    BY <1>1, <1>2, <1>3, SweptRule
  <2> QED BY <1>1, <1>2, <2>1, <2>2 DEF ThrottleTypeOK
<1>5. LocksMatchFailures'
  BY <1>1, <1>2, <1>3, SweptRule DEF LocksMatchFailures
<1>6. OvershootBounded'
  <2> SUFFICES ASSUME NEW k \in Key, Locked(k)'
               PROVE  auth'[k].failures + Cardinality(InFlight(k)')
                        < MaxFailedAuth + Cardinality(Attempt)
    BY DEF OvershootBounded
  <2>1. /\ Cardinality(InFlight(k)') <= Cardinality(InFlight(k))
        /\ k = j => Cardinality(InFlight(k)') = Cardinality(InFlight(k)) - 1
    BY <1>2, VerdictLands DEF IInv
  <2>2. /\ Cardinality(InFlight(k)) \in Nat /\ Cardinality(Attempt) \in Nat
        /\ Cardinality(InFlight(k)) <= Cardinality(Attempt)
    BY InFlightSize
  <2>3. Cardinality(InFlight(k)') \in Int
    <3>1. IsFiniteSet(InFlight(k) \ {a})
      BY InFlightSize, FS_RemoveElement
    <3>2. InFlight(k)' = InFlight(k) \ {a}
      BY <1>2, VerdictLands DEF IInv
    <3> QED BY <3>1, <3>2, FS_CardinalityType
  <2>4. Locked(k) => auth[k].failures + Cardinality(InFlight(k))
                       < MaxFailedAuth + Cardinality(Attempt)
    BY DEF IInv, OvershootBounded
  <2>5. /\ auth[k].failures \in Nat /\ auth'[k].failures \in Nat
        /\ Swept[k].lockedUntil \in Nat /\ auth[k].lockedUntil \in Nat
    BY <1>1, SweptRule, EntryType DEF IInv, AuthState
  <2>6. CASE k # j
    <3>1. Swept[k] = auth[k] /\ Locked(k)
      BY <1>1, <1>2, <2>6, SweptEntry, NoStateType DEF Locked
    <3> QED BY <1>1, <2>1, <2>2, <2>3, <2>4, <2>5, <2>6, <3>1
  <2>7. CASE k = j /\ Locked(k)
    <3>1. Swept[k] = auth[k]
      BY <2>7, SweptEntry
    <3>2. auth'[k].failures = auth[k].failures + 1
      BY <1>3, <2>7, <3>1 DEF Locked
    <3> QED BY <2>1, <2>2, <2>3, <2>4, <2>5, <2>7, <3>2
  <2>8. CASE k = j /\ ~Locked(k)
    <3>1. ~(now < Swept[k].lockedUntil)
      BY <1>2, <2>8, SweptEntry, NoStateType DEF Locked
    <3>2. auth'[k].failures <= MaxFailedAuth
      BY <1>3, <2>8, <3>1
    <3> QED BY <2>1, <2>2, <2>3, <2>5, <2>8, <3>2
  <2> QED BY <2>6, <2>7, <2>8
<1>7. FreshAtSweep'
  <2> SUFFICES ASSUME NEW k \in Key, auth'[k].failures > 0
               PROVE  swept' # 0 /\ swept' - auth'[k].updatedAt < 2 * Lockout
    BY DEF FreshAtSweep, Known
  <2>1. swept' # 0 /\ swept' \in 0..now
    BY <1>2 DEF SweepDue, IInv, ThrottleTypeOK
  <2>2. CASE k = j
    <3>1. auth'[k].updatedAt = now
      BY <1>3, <2>2
    <3> QED BY <1>2, <2>1, <3>1
  <2>3. CASE k # j /\ SweepDue
    BY <1>1, <1>2, <2>3, SweptEntry
  <2>4. CASE k # j /\ ~SweepDue
    BY <1>1, <1>2, <2>4 DEF Swept, IInv, FreshAtSweep, Known
  <2> QED BY <2>2, <2>3, <2>4
<1> QED BY <1>4, <1>5, <1>6, <1>7 DEF IInv

-----------------------------------------------------------------------------
(* The other steps.                                                          *)

LEMMA InitIInv == Init => IInv
<1> SUFFICES ASSUME Init PROVE IInv
  OBVIOUS
<1>1. ThrottleTypeOK
  BY NoStateType DEF Init, ThrottleTypeOK
<1>2. LocksMatchFailures /\ FreshAtSweep
  BY NoStateType DEF Init, LocksMatchFailures, FreshAtSweep, Known
<1>3. OvershootBounded
  BY NoStateType DEF Init, OvershootBounded, Locked
<1> QED BY <1>1, <1>2, <1>3 DEF IInv

LEMMA UnchangedIInv == IInv /\ UNCHANGED vars => IInv'
BY DEF IInv, ThrottleTypeOK, LocksMatchFailures, OvershootBounded, FreshAtSweep,
       Known, Locked, InFlight, vars

LEMMA TickIInv == IInv /\ Tick => IInv'
<1> SUFFICES ASSUME IInv, Tick PROVE IInv'
  OBVIOUS
<1>1. /\ now' = now + 1 /\ now \in Nat \ {0} /\ UNCHANGED <<auth, swept, judging>>
  BY DEF Tick, IInv, ThrottleTypeOK
<1>2. ThrottleTypeOK'
  BY <1>1 DEF IInv, ThrottleTypeOK
<1>3. LocksMatchFailures' /\ FreshAtSweep'
  BY <1>1 DEF IInv, LocksMatchFailures, FreshAtSweep, Known
<1>4. \A k \in Key : Locked(k)' => Locked(k)
  BY <1>1, EntryType DEF IInv, Locked
<1>5. OvershootBounded'
  BY <1>1, <1>4 DEF IInv, OvershootBounded, InFlight
<1> QED BY <1>2, <1>3, <1>5 DEF IInv

LEMMA ArriveIInv ==
  ASSUME IInv, NEW a \in Attempt, NEW k \in Key, Arrive(a, k)
  PROVE  IInv'
<1>1. /\ UNCHANGED <<now, auth, swept>> /\ ~Locked(k) /\ judging[a] = None
      /\ judging' = [judging EXCEPT ![a] = k]
  BY DEF Arrive
<1>2. ThrottleTypeOK' /\ LocksMatchFailures' /\ FreshAtSweep'
  BY <1>1 DEF IInv, ThrottleTypeOK, LocksMatchFailures, FreshAtSweep, Known
<1>3. \A q \in Key \ {k} : InFlight(q)' = InFlight(q)
  BY <1>1, NoneIsNoKey DEF IInv, ThrottleTypeOK, InFlight
<1>4. \A q \in Key : Locked(q)' <=> Locked(q)
  BY <1>1 DEF Locked
<1>5. OvershootBounded'
  BY <1>1, <1>3, <1>4 DEF IInv, OvershootBounded
<1> QED BY <1>2, <1>5 DEF IInv

LEMMA UnchargedIInv ==
  ASSUME IInv, NEW a \in Attempt, judging[a] # None, Judged(a), UNCHANGED <<now, swept>>,
         auth' \in [Key -> AuthState],
         \A k \in Key : auth'[k] = auth[k] \/ auth'[k] = NoState
  PROVE  IInv'
<1>1. /\ judging' \in [Attempt -> Key \cup {None}] /\ now \in Nat
  BY DEF IInv, ThrottleTypeOK, Judged
<1>2. ThrottleTypeOK'
  BY <1>1, NoStateType DEF IInv, ThrottleTypeOK
<1>3. LocksMatchFailures' /\ FreshAtSweep'
  BY <1>1, NoStateType DEF IInv, LocksMatchFailures, FreshAtSweep, Known
<1>4. OvershootBounded'
  <2> SUFFICES ASSUME NEW k \in Key, Locked(k)'
               PROVE  auth'[k].failures + Cardinality(InFlight(k)')
                        < MaxFailedAuth + Cardinality(Attempt)
    BY DEF OvershootBounded
  <2>1. auth'[k] = auth[k] /\ Locked(k)
    BY <1>1, NoStateType DEF Locked
  <2>2. auth[k].failures + Cardinality(InFlight(k))
          < MaxFailedAuth + Cardinality(Attempt)
    BY <2>1 DEF IInv, OvershootBounded
  <2>3. /\ Cardinality(InFlight(k)') <= Cardinality(InFlight(k))
        /\ InFlight(k)' = InFlight(k) \ {a}
    BY VerdictLands DEF IInv
  <2>4. /\ Cardinality(InFlight(k)) \in Nat /\ Cardinality(Attempt) \in Nat
        /\ IsFiniteSet(InFlight(k))
    BY InFlightSize
  <2>5. Cardinality(InFlight(k)') \in Nat
    BY <2>3, <2>4, FS_RemoveElement, FS_CardinalityType
  <2>6. auth[k].failures \in Nat
    BY EntryType DEF IInv
  <2> QED BY <2>1, <2>2, <2>3, <2>4, <2>5, <2>6
<1> QED BY <1>2, <1>3, <1>4 DEF IInv

LEMMA NextIInv == IInv /\ [Next]_vars => IInv'
<1> SUFFICES ASSUME IInv, [Next]_vars PROVE IInv'
  OBVIOUS
<1>1. CASE Tick
  BY <1>1, TickIInv
<1>2. ASSUME NEW a \in Attempt, NEW k \in Key, Arrive(a, k) PROVE IInv'
  BY <1>2, ArriveIInv
<1>3. ASSUME NEW a \in Attempt, Uncharged(a) PROVE IInv'
  BY <1>3, UnchargedIInv DEF Uncharged, IInv, ThrottleTypeOK
<1>4. ASSUME NEW a \in Attempt, AuthFailed(a) PROVE IInv'
  BY <1>4, FailureIInv
<1>5. ASSUME NEW a \in Attempt, AuthSucceeded(a) PROVE IInv'
  <2>1. auth' \in [Key -> AuthState] /\ \A k \in Key : auth'[k] \in {auth[k], NoState}
    BY <1>5, NoStateType DEF AuthSucceeded, IInv, ThrottleTypeOK
  <2> QED BY <1>5, <2>1, UnchargedIInv DEF AuthSucceeded
<1>6. CASE UNCHANGED vars
  BY <1>6, UnchangedIInv
<1> QED BY <1>1, <1>2, <1>3, <1>4, <1>5, <1>6 DEF Next, LockedOut

-----------------------------------------------------------------------------
(* The theorems.                                                             *)

\* App.auth and the time stamps keep their types (core/signal.go).
THEOREM ThrottleTypeCorrect == Spec => []ThrottleTypeOK
BY InitIInv, NextIInv, PTL DEF Spec, IInv

\* authFailed locks a key at its MaxFailedAuth-th failure, for Lockout after its last
\* one, and counts from one again when a lock has run out or the cleanup dropped the
\* key; so whenever a key becomes locked it has exactly MaxFailedAuth failures.
THEOREM LocksFollowFailures == Spec => LockedByFailures
<1> DEFINE Fresh == \A k \in Key :
                      /\ ~Locked(k) /\ Locked(k)' => auth'[k].failures = MaxFailedAuth
                      /\ \A a \in InFlight(k) :
                           AuthFailed(a) /\ StartsAgain(k) => auth'[k].failures = 1
<1>1. ASSUME IInv, NEW a \in Attempt, AuthFailed(a), NEW k \in Key, ~Locked(k), Locked(k)'
      PROVE  auth'[k].failures = MaxFailedAuth
  <2>1. now \in Nat /\ now' = now /\ auth[k].lockedUntil \in Nat
    BY <1>1, EntryType DEF IInv, AuthFailed
  <2>2. ~(now < Swept[k].lockedUntil) /\ Swept[k] \in AuthState
    BY <1>1, <2>1, SweptEntry, SweptRule, NoStateType DEF Locked
  <2>3. k = judging[a] /\ auth'[k] = Charged(Swept[k])
    BY <1>1, <2>1, <2>2, FailureTable DEF Locked
  <2>4. /\ Charged(Swept[k]) \in AuthState
        /\ Charged(Swept[k]).failures < MaxFailedAuth => Charged(Swept[k]).lockedUntil = 0
        /\ Charged(Swept[k]).failures <= MaxFailedAuth
    BY <1>1, <2>1, <2>2, SweptRule, ChargedEntry
  <2>5. ~(Charged(Swept[k]).failures < MaxFailedAuth) /\ Charged(Swept[k]).failures \in Nat
    BY <1>1, <2>1, <2>3, <2>4 DEF Locked, AuthState
  <2> QED BY <2>3, <2>4, <2>5
<1>2. ASSUME IInv, NEW k \in Key, NEW a \in InFlight(k), AuthFailed(a), StartsAgain(k)
      PROVE  auth'[k].failures = 1
  <2>1. a \in Attempt /\ k = judging[a]
    BY DEF InFlight
  <2>2. auth'[k] = Charged(Swept[k])
    BY <1>2, <2>1, FailureTable
  <2>3. now \in Nat /\ auth[k].lockedUntil \in Nat
    BY <1>2, EntryType DEF IInv
  <2>4. Forgiven(Swept[k]) = NoState
    BY <1>2, <2>3, SweptEntry, NoStateType DEF StartsAgain, Locked, Forgiven
  <2>5. Charged(Swept[k]).failures = Forgiven(Swept[k]).failures + 1
    BY DEF Charged
  <2> QED BY <2>2, <2>4, <2>5, NoStateType
<1>3. IInv /\ [Next]_vars => [Fresh]_vars
  <2> SUFFICES ASSUME IInv, Next
               PROVE  \A k \in Key : ~Locked(k) /\ Locked(k)' => auth'[k].failures = MaxFailedAuth
    BY <1>2
  <2> SUFFICES ASSUME NEW k \in Key, ~Locked(k), Locked(k)'
               PROVE  auth'[k].failures = MaxFailedAuth
    OBVIOUS
  <2>1. /\ auth[k].lockedUntil \in Nat /\ now \in Nat
        /\ judging \in [Attempt -> Key \cup {None}] /\ auth \in [Key -> AuthState]
    BY EntryType DEF IInv, ThrottleTypeOK
  <2>2. CASE Tick
    BY <2>1, <2>2 DEF Tick, Locked
  <2>3. ASSUME NEW a \in Attempt, AuthFailed(a)
        PROVE  auth'[k].failures = MaxFailedAuth
    BY <1>1, <2>3
  <2>4. ASSUME NEW a \in Attempt, AuthSucceeded(a)
        PROVE  FALSE
    <3>1. now' = now /\ (auth'[k] = auth[k] \/ auth'[k] = NoState)
      BY <2>1, <2>4 DEF AuthSucceeded
    <3> QED BY <2>1, <3>1, NoStateType DEF Locked
  <2>5. CASE UNCHANGED <<now, auth>>
    BY <2>5 DEF Locked
  <2> QED BY <2>2, <2>3, <2>4, <2>5 DEF Next, Arrive, Uncharged, LockedOut, vars
<1>4. Spec => []IInv
  BY InitIInv, NextIInv, PTL DEF Spec
<1>5. IInv => LocksMatchFailures
  BY DEF IInv
<1> QED BY <1>3, <1>4, <1>5, PTL DEF Spec, LockedByFailures

\* However many attempts were let through before a lock, the failures counted
\* of a locked key stay below the limit plus the number of connections.
THEOREM OvershootIsBounded == Spec => []OvershootBounded
BY InitIInv, NextIInv, PTL DEF Spec, IInv

\* No step shortens a lock but a success for its key: not the cleanup in
\* authFailed, and not another failure.
THEOREM LocksAreKept == Spec => LocksStand
<1> DEFINE Stands == \A k \in Key :
                       Locked(k) => \/ auth'[k].lockedUntil >= auth[k].lockedUntil
                                    \/ \E a \in InFlight(k) : AuthSucceeded(a)
<1>1. IInv /\ [Next]_vars => [Stands]_vars
  <2> SUFFICES ASSUME IInv, Next, NEW k \in Key, Locked(k)
               PROVE  \/ auth'[k].lockedUntil >= auth[k].lockedUntil
                      \/ \E a \in InFlight(k) : AuthSucceeded(a)
    OBVIOUS
  <2>0. auth[k].lockedUntil \in Nat /\ auth[k].updatedAt \in 0..now /\ now \in Nat
    BY EntryType DEF IInv
  <2>1. CASE auth'[k] = auth[k]
    BY <2>0, <2>1
  <2>2. ASSUME NEW a \in Attempt, AuthSucceeded(a)
        PROVE  auth'[k] = auth[k] \/ a \in InFlight(k)
    BY <2>2 DEF AuthSucceeded, InFlight, IInv, ThrottleTypeOK
  <2>3. ASSUME NEW a \in Attempt, AuthFailed(a)
        PROVE  auth'[k].lockedUntil >= auth[k].lockedUntil
    <3>1. Swept[k] = auth[k]
      BY SweptEntry
    <3>2. CASE k # judging[a]
      BY <2>0, <2>3, <3>1, <3>2, FailureTable
    <3>3. CASE k = judging[a]
      <4>1. auth'[k] = Charged(auth[k])
        BY <2>3, <3>1, <3>3, FailureTable
      <4>2. auth[k].failures >= MaxFailedAuth
            /\ auth[k].lockedUntil = auth[k].updatedAt + Lockout
        BY <2>0, EntryType DEF Locked, IInv, LocksMatchFailures
      <4>3. /\ Charged(auth[k]).failures = auth[k].failures + 1
            /\ Charged(auth[k]).failures >= MaxFailedAuth
                 => Charged(auth[k]).lockedUntil = now + Lockout
        BY <2>0, <4>2, EntryType, ChargedEntry DEF IInv, LocksMatchFailures, Locked
      <4>4. auth'[k].lockedUntil = now + Lockout
        BY <4>1, <4>2, <4>3, EntryType DEF IInv
      <4> QED BY <2>0, <4>2, <4>4
    <3> QED BY <3>2, <3>3
  <2> QED BY <2>1, <2>2, <2>3 DEF Next, Tick, Arrive, Uncharged, LockedOut, vars
<1>2. Spec => []IInv
  BY InitIInv, NextIInv, PTL DEF Spec
<1> QED BY <1>1, <1>2, PTL DEF Spec, LocksStand

\* The cleanup in authFailed bounds the table by the keys that failed lately.
THEOREM TableIsBounded == Spec => TableStaysFresh
<1> DEFINE Fresh == \A a \in Attempt : AuthFailed(a) =>
                      \A k \in Key : Known(k)' => now - auth'[k].updatedAt < 3 * Lockout
<1>1. IInv /\ [Next]_vars => [Fresh]_vars
  <2> SUFFICES ASSUME IInv, NEW a \in Attempt, AuthFailed(a),
                      NEW k \in Key, auth'[k].failures > 0
               PROVE  now - auth'[k].updatedAt < 3 * Lockout
    BY DEF Known
  <2>1. FreshAtSweep' /\ ThrottleTypeOK'
    BY FailureIInv DEF IInv
  <2>2. /\ now \in Nat /\ swept \in Nat
        /\ swept' = IF SweepDue THEN now ELSE swept
    BY DEF AuthFailed, IInv, ThrottleTypeOK
  <2>3. now - swept' < Lockout
    BY <2>2 DEF SweepDue
  <2>4. swept' - auth'[k].updatedAt < 2 * Lockout
    BY <2>1 DEF FreshAtSweep, Known
  <2>5. swept' \in Nat /\ auth'[k].updatedAt \in Nat
    BY <2>1 DEF ThrottleTypeOK
  <2> QED BY <2>2, <2>3, <2>4, <2>5
<1>2. Spec => []IInv
  BY InitIInv, NextIInv, PTL DEF Spec
<1> QED BY <1>1, <1>2, PTL DEF Spec, TableStaysFresh

=============================================================================
