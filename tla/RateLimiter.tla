----------------------------- MODULE RateLimiter -----------------------------
(***************************************************************************)
(* The fixed-window limiters in front of login and registration, one       *)
(* object per route and replica.  Allow and each pass of cleanup hold the  *)
(* mutex and read the clock under it, so each is one step; they interleave *)
(* in any order with the clock.                                            *)
(***************************************************************************)
EXTENDS Integers, Sequences, FiniteSets

CONSTANTS Keys,      \* a limiter object and a key of its map
          Limit,     \* key -> requests in a window
          Duration,  \* key -> length of a window
          MaxTime    \* bound on the clock

ASSUME LimitAssumption == Limit \in [Keys -> Nat \ {0}]
ASSUME DurationAssumption == Duration \in [Keys -> Nat \ {0}]

VARIABLES
  now,
  windows,  \* key -> [count, windowEnd], for the keys of the map
  allowed   \* history: key -> times of the requests let through, in order

limiter == <<windows, allowed>>

Window == [count : Nat, windowEnd : Int]

LimiterTypeOK ==
  /\ now \in Nat
  /\ DOMAIN windows \subseteq Keys
  /\ \A k \in DOMAIN windows : windows[k] \in Window
  /\ allowed \in [Keys -> Seq(Nat)]

LimiterInit ==
  /\ now = 0
  /\ windows = << >>
  /\ allowed = [k \in Keys |-> << >>]
-----------------------------------------------------------------------------
Known(k)   == k \in DOMAIN windows
Expired(k) == now > windows[k].windowEnd

SetWindow(k, w) ==
  windows' = [q \in DOMAIN windows \cup {k} |-> IF q = k THEN w ELSE windows[q]]

LetThrough(k) == allowed' = [allowed EXCEPT ![k] = Append(@, now)]

\* Allow: the first request, or the first after the window.
OpenWindow(k) ==
  /\ Known(k) => Expired(k)
  /\ SetWindow(k, [count |-> 1, windowEnd |-> now + Duration[k]])
  /\ LetThrough(k)
  /\ UNCHANGED now

\* Mutant: every request moves the end of the window.
CountSliding(k) ==
  /\ Known(k) /\ ~ Expired(k) /\ windows[k].count < Limit[k]
  /\ SetWindow(k, [count |-> windows[k].count + 1, windowEnd |-> now + Duration[k]])
  /\ LetThrough(k)
  /\ UNCHANGED now

\* Allow: a request that the open window has room for.
CountRequest(k) ==
  /\ Known(k) /\ ~ Expired(k) /\ windows[k].count < Limit[k]
  /\ SetWindow(k, [windows[k] EXCEPT !.count = @ + 1])
  /\ LetThrough(k)
  /\ UNCHANGED now

\* Allow: the window is full.
Refuse(k) ==
  /\ Known(k) /\ ~ Expired(k) /\ windows[k].count >= Limit[k]
  /\ UNCHANGED <<now, windows, allowed>>

\* Mutant: cleanup empties the map.
CleanupAll(keys) ==
  /\ windows' = [k \in DOMAIN windows \ keys |-> windows[k]]
  /\ UNCHANGED <<now, allowed>>

(* A pass of cleanup over the keys of one limiter.  It runs every five minutes,
   which is shorter or longer than a window: it may come at any time. *)
Cleanup(keys) ==
  /\ \E k \in keys \cap DOMAIN windows : Expired(k)
  /\ windows' = [k \in {q \in DOMAIN windows : q \in keys => ~ Expired(q)} |-> windows[k]]
  /\ UNCHANGED <<now, allowed>>

\* The limiters of a process that restarts begin with empty maps.
Forget(keys) ==
  /\ windows' = [k \in DOMAIN windows \ keys |-> windows[k]]
  /\ UNCHANGED <<now, allowed>>
-----------------------------------------------------------------------------
\* The requests of k let through at times from a to b.
During(k, a, b) == {i \in 1 .. Len(allowed[k]) : allowed[k][i] \in a .. b}

\* The requests let through in the last window's length fill a window.
Full(k) == Cardinality(During(k, now - Duration[k], now)) >= Limit[k]
=============================================================================
