----------------------------- MODULE AuthThrottle ----------------------------
(***************************************************************************)
(* The limit on failed verification codes (core/signal.go: locked,         *)
(* authFailed, authSucceeded, under App.authMu) and the order in which     *)
(* handlePresenter uses it: an attempt is let through when it connects and *)
(* judged when its code has been read, and other attempts of the same key  *)
(* (room and client address) come in between.                              *)
(*                                                                         *)
(* Time is a natural number in the unit of limits.lockout_seconds; 0 is    *)
(* Go's zero Time.  A key absent from the map has the zero state, as a     *)
(* lookup in Go has it; a key in the map has at least one failure.         *)
(***************************************************************************)
EXTENDS Naturals, FiniteSets

CONSTANTS Key,            \* room|client host
          Attempt,        \* presenter connections, used again and again
          MaxFailedAuth,  \* limits.max_failed_auth
          Lockout,        \* limits.lockout_seconds
          None            \* no key

ASSUME LimitsPositive == /\ MaxFailedAuth \in Nat \ {0}
                         /\ Lockout \in Nat \ {0}
ASSUME AttemptsFinite == IsFiniteSet(Attempt)
ASSUME NoneIsNoKey == None \notin Key

VARIABLES now,       \* App.now()
          auth,      \* App.auth
          swept,     \* App.lastAuthCleanup
          judging    \* the key of an attempt between locked and its verdict

vars == <<now, auth, swept, judging>>

AuthState == [failures : Nat, lockedUntil : Nat, updatedAt : Nat]
NoState == [failures |-> 0, lockedUntil |-> 0, updatedAt |-> 0]

Known(k) == auth[k].failures > 0

-----------------------------------------------------------------------------
\* now.Before(lockedUntil)
Locked(k) == now < auth[k].lockedUntil

\* The cleanup of authFailed: the map without the keys unused for two lockouts,
\* if it has not been done for one.  (Mutated forms: done once and never
\* again; everything goes.)
SweepDue_Once == swept = 0
SweepDue == swept = 0 \/ now - swept >= Lockout

Expired_Always(s) == TRUE
Expired(s) == now - s.updatedAt >= 2 * Lockout

Swept == IF SweepDue
         THEN [k \in Key |-> IF Expired(auth[k]) THEN NoState ELSE auth[k]]
         ELSE auth

\* One more failure for state s, or the first one after a lock that has run
\* out.  (Mutated form: not yet at the instant it does.)
Forgiven_Late(s) == IF s.lockedUntil # 0 /\ now > s.lockedUntil THEN NoState ELSE s
Forgiven(s) == IF s.lockedUntil # 0 /\ now >= s.lockedUntil THEN NoState ELSE s

Locks(failures) == failures >= MaxFailedAuth

Charged(s) ==
  LET failures == Forgiven(s).failures + 1 IN
  [failures |-> failures, updatedAt |-> now,
   lockedUntil |-> IF Locks(failures) THEN now + Lockout
                   ELSE Forgiven(s).lockedUntil]

-----------------------------------------------------------------------------
Init == /\ now = 1
        /\ auth = [k \in Key |-> NoState]
        /\ swept = 0
        /\ judging = [a \in Attempt |-> None]

\* (Mutated form: the wall clock, which may be set back.)
Tick_SetBack == now' \in {now - 1, now + 1} /\ UNCHANGED <<auth, swept, judging>>
Tick == now' = now + 1 /\ UNCHANGED <<auth, swept, judging>>

\* A connection comes in: if its key is locked it is turned away, which changes
\* nothing, else its code is awaited.
LockedOut(a, k) == judging[a] = None /\ Locked(k) /\ UNCHANGED vars

Arrive(a, k) == /\ judging[a] = None
                /\ ~Locked(k)
                /\ judging' = [judging EXCEPT ![a] = k]
                /\ UNCHANGED <<now, auth, swept>>

Judged(a) == judging' = [judging EXCEPT ![a] = None]

\* No code is sent, or there is no display, or it is busy: nobody is charged.
Uncharged(a) == /\ judging[a] # None
                /\ Judged(a)
                /\ UNCHANGED <<now, auth, swept>>

\* authFailed: AuthorizePresenter refused, and not because of a presenter.
AuthFailed(a) == /\ judging[a] # None
                 /\ auth' = [Swept EXCEPT ![judging[a]] = Charged(@)]
                 /\ swept' = IF SweepDue THEN now ELSE swept
                 /\ Judged(a)
                 /\ UNCHANGED now

AuthSucceeded(a) == /\ judging[a] # None
                    /\ auth' = [auth EXCEPT ![judging[a]] = NoState]
                    /\ Judged(a)
                    /\ UNCHANGED <<now, swept>>

Next == \/ Tick
        \/ \E a \in Attempt :
             \/ \E k \in Key : Arrive(a, k) \/ LockedOut(a, k)
             \/ Uncharged(a) \/ AuthFailed(a) \/ AuthSucceeded(a)

Spec == Init /\ [][Next]_vars

-----------------------------------------------------------------------------
(* Properties                                                              *)

\* Fields keep their Go types; only a lock's end is ahead of the clock.
ThrottleTypeOK == /\ now \in Nat \ {0} /\ swept \in 0..now
                  /\ auth \in [Key -> AuthState]
                  /\ \A k \in Key : auth[k].updatedAt \in 0..now
                  /\ judging \in [Attempt -> Key \cup {None}]

\* The attempts of key k that were let through and have no verdict yet.
InFlight(k) == {a \in Attempt : judging[a] = k}

\* A key with MaxFailedAuth failures has a lock, Lockout after the last of them,
\* that may have run out; a key with fewer has none.
LocksMatchFailures ==
  \A k \in Key :
    /\ auth[k].failures >= MaxFailedAuth
         => auth[k].lockedUntil = auth[k].updatedAt + Lockout
    /\ auth[k].failures < MaxFailedAuth => auth[k].lockedUntil = 0

\* The next failure of key k is its first again: a lock has run out, or the cleanup
\* finds the key unused.
StartsAgain(k) ==
  ~Locked(k) /\ (auth[k].lockedUntil # 0 \/ Swept[k] = NoState)

\* A key is locked by its MaxFailedAuth-th failure and not before, for Lockout
\* after its last failure; and failures of a key that ran out of its lock, or
\* was swept, start from one again, so that no lock begins with failures that
\* were counted for an earlier one.
LockedByFailures ==
  /\ []LocksMatchFailures
  /\ [][\A k \in Key :
          /\ ~Locked(k) /\ Locked(k)' => auth'[k].failures = MaxFailedAuth
          /\ \A a \in InFlight(k) :
               AuthFailed(a) /\ StartsAgain(k) => auth'[k].failures = 1]_vars

\* Attempts that were let through before a key was locked are still judged, and
\* charged, while it is: the failures of a locked key, with those that may yet
\* come, exceed the limit by no more than the number of connections.
OvershootBounded ==
  \A k \in Key :
    Locked(k) => auth[k].failures + Cardinality(InFlight(k))
                   < MaxFailedAuth + Cardinality(Attempt)

\* A lock ends by time or by a presenter of that key who gives the right code:
\* neither the cleanup nor a failure of this or another key shortens it.
LocksStand ==
  [][\A k \in Key :
       Locked(k) => \/ auth'[k].lockedUntil >= auth[k].lockedUntil
                    \/ \E a \in InFlight(k) : AuthSucceeded(a)]_vars

\* App.auth does not grow for ever: after any failure it holds no key that has
\* not failed within the last three lockouts.
TableStaysFresh ==
  [][\A a \in Attempt : AuthFailed(a) =>
       \A k \in Key : Known(k)' => now - auth'[k].updatedAt < 3 * Lockout]_vars

=============================================================================
