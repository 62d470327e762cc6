----------------------------- MODULE RateLimiter -----------------------------
(***************************************************************************)
(* The sliding window of one client address (services/redis_service.py,    *)
(* is_rate_limited, called first by every tool route through               *)
(* JobController.check_rate_limit).                                        *)
(*                                                                         *)
(* A web thread reads the clock and later sends one MULTI/EXEC that prunes *)
(* the sorted set rl:<ip>, adds its own reading, counts and renews the     *)
(* expiry.  Threads of several gunicorn processes do this at once, so the  *)
(* transactions need not come in the order of the readings.                *)
(***************************************************************************)
EXTENDS Integers, FiniteSets

CONSTANTS
    Requests,     \* requests of one client
    Limit,        \* RATE_LIMIT_RPM
    Window,       \* window, in ticks
    Margin,       \* the key outlives the window by this much
    Lag,          \* bound: ticks between the reading of the clock and the transaction
    MaxTime,      \* bound: the clock stops here
    RedisFaults   \* may the transaction raise?

ASSUME LimitAssumption == Limit \in Nat \ {0} /\ RedisFaults \in BOOLEAN
ASSUME TimeAssumption  == {Lag, Margin, MaxTime} \subseteq Nat /\ Window \in Nat /\ Window > Lag

VARIABLES
    clock,    \* time.time(), in ticks
    pc,       \* where each request stands
    now,      \* its reading of the clock: the tick, and which of two moments in it
    window,   \* the members of rl:<ip>
    expiry    \* when Redis drops the key

vars == <<clock, pc, now, window, expiry>>

Moment == [tick : 0 .. MaxTime, part : {1, 2}]

Verdict == {"passed", "limited", "unchecked"}

Init ==
    /\ clock = 0
    /\ pc = [r \in Requests |-> "new"]
    /\ now = [r \in Requests |-> [tick |-> 0, part |-> 1]]
    /\ window = {} /\ expiry = 0

-----------------------------------------------------------------------------
\* zremrangebyscore(key, 0, t - window) on what is there.
Pruned(t) == {m \in window : m.tick > t - Window}

\* Fault: the set is not pruned, only the expiry of the key empties it.
AddedWithoutPruning(r) == window \cup {now[r]}

\* zremrangebyscore and zadd; a member is str(now), so equal readings are one.
Added(r) == Pruned(now[r].tick) \cup {now[r]}

\* expire(key, window + 5)
Renew == expiry' = clock + Window + Margin

\* Fault: the set is counted before the request is added to it.
CheckCountsOthers(r) ==
    /\ pc[r] = "checking"
    /\ window' = Added(r) /\ Renew
    /\ pc' = [pc EXCEPT ![r] = IF Cardinality(Pruned(now[r].tick)) > Limit
                               THEN "limited" ELSE "passed"]
    /\ UNCHANGED <<clock, now>>

-----------------------------------------------------------------------------
\* now = time.time()
ReadClock(r) ==
    /\ pc[r] = "new"
    /\ pc' = [pc EXCEPT ![r] = "checking"]
    /\ \E part \in {1, 2} : now' = [now EXCEPT ![r] = [tick |-> clock, part |-> part]]
    /\ UNCHANGED <<clock, window, expiry>>

\* The transaction.  A refused request stays in the set.
Check(r) ==
    /\ pc[r] = "checking"
    /\ window' = Added(r) /\ Renew
    /\ pc' = [pc EXCEPT ![r] = IF Cardinality(window') > Limit THEN "limited" ELSE "passed"]
    /\ UNCHANGED <<clock, now>>

\* The transaction raises, executed or not: the request is let through.
CheckFails(r) ==
    /\ RedisFaults
    /\ pc[r] = "checking"
    /\ \/ UNCHANGED <<window, expiry>>
       \/ window' = Added(r) /\ Renew
    /\ pc' = [pc EXCEPT ![r] = "unchecked"]
    /\ UNCHANGED <<clock, now>>

\* rate_limit_remaining, for the body of the 429: prunes by a later reading.
Remaining(r) ==
    /\ pc[r] = "limited"
    /\ \E t \in now[r].tick .. clock : t >= clock - Lag /\ window' = Pruned(t)
    /\ UNCHANGED <<clock, pc, now, expiry>>

\* A tick.  No request waits longer than Lag for its transaction; a key whose time
\* has come is gone.
Tick ==
    /\ clock < MaxTime
    /\ \A r \in Requests : pc[r] = "checking" => clock < now[r].tick + Lag
    /\ clock' = clock + 1
    /\ window' = IF clock' >= expiry THEN {} ELSE window
    /\ UNCHANGED <<pc, now, expiry>>

Next ==
    \/ Tick
    \/ \E r \in Requests : ReadClock(r) \/ Check(r) \/ CheckFails(r) \/ Remaining(r)

Spec == Init /\ [][Next]_vars

-----------------------------------------------------------------------------
(* Properties. *)

With(verdicts) == {r \in Requests : pc[r] \in verdicts}

\* No span of Window - Lag ticks holds more than Limit moments at which a request
\* was let through: transactions that overtake each other cost Lag ticks of the
\* window, and nothing else does (requests let through unchecked aside).
PassedBounded ==
    \A t \in 0 .. MaxTime :
        Cardinality({now[r] : r \in {q \in With({"passed"}) :
                                        now[q].tick \in t .. t + Window - Lag - 1}}) <= Limit

\* "Try again in a minute": a refusal needs Limit other moments of the same client
\* less than Window old, give or take a transaction that came late.
RefusedOnlyWhenBusy ==
    \A r \in With({"limited"}) :
        Cardinality({now[q] : q \in With(Verdict) \ {r}}
                    \cap {m \in Moment : m.tick > now[r].tick - Window
                                         /\ m.tick <= now[r].tick + Lag}) >= Limit

=============================================================================
