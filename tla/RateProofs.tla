------------------------------ MODULE RateProofs ------------------------------
(***************************************************************************)
(* Proofs of the properties of RateLimiter, for every set of requests,     *)
(* every limit and every window longer than the lag of a transaction.      *)
(***************************************************************************)
EXTENDS RateLimiter, FiniteSetTheorems, TLAPS

LEMMA Constants ==
  /\ Limit \in Nat /\ Limit > 0
  /\ Lag \in Nat /\ Margin \in Nat /\ MaxTime \in Nat
  /\ Window \in Nat /\ Window > Lag
  BY LimitAssumption, TimeAssumption

-----------------------------------------------------------------------------
(* The inductive invariant. *)

TypeInv ==
    /\ clock \in 0 .. MaxTime
    /\ pc \in [Requests -> {"new", "checking"} \cup Verdict]
    /\ now \in [Requests -> Moment]
    /\ window \subseteq Moment
    /\ expiry \in Nat

\* A transaction comes at most Lag ticks after the reading of its request.
LagInv ==
    \A r \in Requests :
        /\ now[r].tick <= clock
        /\ pc[r] = "checking" => clock <= now[r].tick + Lag

\* Members are not ahead of the clock, and the key does not expire before they are
\* older than the window.
ExpiryInv == \A m \in window : m.tick <= clock /\ m.tick + Window <= expiry

\* A member is the reading of a request that has been checked.
OriginInv == \A m \in window : \E q \in With(Verdict) : now[q] = m

\* Whatever has been counted stays in the set for a whole window of the clock, from
\* which no transaction and no reading is further away.
KeptInv ==
    \A r \in With({"passed", "limited"}) :
        now[r].tick > clock - Window => now[r] \in window

IInv ==
    /\ TypeInv /\ LagInv /\ ExpiryInv /\ OriginInv /\ KeptInv
    /\ PassedBounded /\ RefusedOnlyWhenBusy

-----------------------------------------------------------------------------
(* Finite sets of moments. *)

LEMMA MomentIsFinite == IsFiniteSet(Moment)
<1> DEFINE T == 0 .. MaxTime
           P == {1, 2}
           f == [p \in T \X P |-> [tick |-> p[1], part |-> p[2]]]
<1>1. IsFiniteSet(T) /\ IsFiniteSet(P)
  <2>1. 0 \in Int /\ 1 \in Int /\ 2 \in Int /\ MaxTime \in Int
    BY Constants
  <2>2. IsFiniteSet(0 .. MaxTime)
    BY <2>1, FS_Interval
  <2>3. IsFiniteSet(1 .. 2)
    BY <2>1, FS_Interval
  <2>4. P = 1 .. 2
    OBVIOUS
  <2> QED
    BY <2>2, <2>3, <2>4
<1>2. IsFiniteSet(T \X P)
  BY <1>1, FS_Product
<1>3. f \in Surjection(T \X P, Moment)
  <2>1. ASSUME NEW m \in Moment PROVE \E p \in T \X P : f[p] = m
    <3>1. <<m.tick, m.part>> \in T \X P /\ m = [tick |-> m.tick, part |-> m.part]
      BY DEF Moment
    <3> QED
      BY <3>1
  <2>2. f \in [T \X P -> Moment]
    BY DEF Moment
  <2> QED
    BY <2>1, <2>2 DEF Surjection
<1> HIDE DEF T, P, f
<1> QED
  BY <1>2, <1>3, FS_Surjection

\* A set of moments is finite, and larger sets count more.
LEMMA MomentsCount ==
  ASSUME NEW B \in SUBSET Moment, NEW A \in SUBSET B
  PROVE  /\ IsFiniteSet(A) /\ IsFiniteSet(B)
         /\ Cardinality(A) \in Nat /\ Cardinality(B) \in Nat
         /\ Cardinality(A) <= Cardinality(B)
<1>1. IsFiniteSet(B)
  BY MomentIsFinite, FS_Subset
<1> QED
  BY <1>1, FS_Subset, FS_CardinalityType

-----------------------------------------------------------------------------
(* Types, times and members. *)

LEMMA TypeStep == TypeInv /\ [Next]_vars => TypeInv'
<1> SUFFICES ASSUME TypeInv, [Next]_vars PROVE TypeInv'
  OBVIOUS
<1> USE Constants DEF TypeInv, Verdict
<1>1. CASE Tick
  BY <1>1 DEF Tick
<1>2. ASSUME NEW r \in Requests, ReadClock(r) PROVE TypeInv'
  BY <1>2 DEF ReadClock, Moment
<1>3. ASSUME NEW r \in Requests, Check(r) PROVE TypeInv'
  BY <1>3 DEF Check, Added, Pruned, Renew
<1>4. ASSUME NEW r \in Requests, CheckFails(r) PROVE TypeInv'
  BY <1>4 DEF CheckFails, Added, Pruned, Renew
<1>5. ASSUME NEW r \in Requests, Remaining(r) PROVE TypeInv'
  BY <1>5 DEF Remaining, Pruned
<1>6. CASE UNCHANGED vars
  BY <1>6 DEF vars
<1> QED
  BY <1>1, <1>2, <1>3, <1>4, <1>5, <1>6 DEF Next

LEMMA LagStep == TypeInv /\ LagInv /\ [Next]_vars => LagInv'
<1> SUFFICES ASSUME TypeInv, LagInv, [Next]_vars, NEW q \in Requests
             PROVE  /\ now'[q].tick <= clock'
                    /\ pc'[q] = "checking" => clock' <= now'[q].tick + Lag
  BY DEF LagInv
<1> USE Constants DEF TypeInv, LagInv, Moment
<1>1. CASE Tick
  BY <1>1 DEF Tick
<1>2. ASSUME NEW r \in Requests, ReadClock(r)
      PROVE  /\ now'[q].tick <= clock'
             /\ pc'[q] = "checking" => clock' <= now'[q].tick + Lag
  BY <1>2 DEF ReadClock
<1>3. ASSUME NEW r \in Requests, Check(r) \/ CheckFails(r) \/ Remaining(r)
      PROVE  /\ now'[q].tick <= clock'
             /\ pc'[q] = "checking" => clock' <= now'[q].tick + Lag
  BY <1>3 DEF Check, CheckFails, Remaining
<1>4. CASE UNCHANGED vars
  BY <1>4 DEF vars
<1> QED
  BY <1>1, <1>2, <1>3, <1>4 DEF Next

LEMMA ExpiryStep == TypeInv /\ LagInv /\ ExpiryInv /\ [Next]_vars => ExpiryInv'
<1> SUFFICES ASSUME TypeInv, LagInv, ExpiryInv, [Next]_vars PROVE ExpiryInv'
  OBVIOUS
<1> USE Constants DEF TypeInv, LagInv, ExpiryInv, Moment
<1>1. CASE Tick
  BY <1>1 DEF Tick
<1>2. ASSUME NEW r \in Requests, ReadClock(r) \/ Remaining(r) PROVE ExpiryInv'
  BY <1>2 DEF ReadClock, Remaining, Pruned
<1>3. ASSUME NEW r \in Requests, window' = Added(r), Renew, clock' = clock PROVE ExpiryInv'
  BY <1>3 DEF Added, Pruned, Renew
<1>4. ASSUME NEW r \in Requests, Check(r) \/ CheckFails(r) PROVE ExpiryInv'
  BY <1>3, <1>4 DEF Check, CheckFails
<1>5. CASE UNCHANGED vars
  BY <1>5 DEF vars
<1> QED
  BY <1>1, <1>2, <1>4, <1>5 DEF Next

\* A verdict is final, and so is the reading it was given for.
LEMMA VerdictsStay ==
  ASSUME TypeInv, [Next]_vars, NEW q \in With(Verdict)
  PROVE  pc'[q] = pc[q] /\ now'[q] = now[q]
<1> USE DEF TypeInv, Verdict, With
<1>1. CASE Tick \/ UNCHANGED vars
  BY <1>1 DEF Tick, vars
<1>2. ASSUME NEW r \in Requests, ReadClock(r) PROVE pc'[q] = pc[q] /\ now'[q] = now[q]
  BY <1>2 DEF ReadClock
<1>3. ASSUME NEW r \in Requests, Check(r) PROVE pc'[q] = pc[q] /\ now'[q] = now[q]
  BY <1>3 DEF Check
<1>4. ASSUME NEW r \in Requests, CheckFails(r) \/ Remaining(r)
      PROVE  pc'[q] = pc[q] /\ now'[q] = now[q]
  BY <1>4 DEF CheckFails, Remaining
<1> QED
  BY <1>1, <1>2, <1>3, <1>4 DEF Next

\* A verdict is given by the transaction of the request.
LEMMA VerdictsAreGiven ==
  ASSUME TypeInv, [Next]_vars, NEW q \in Requests,
         pc'[q] \in {"passed", "limited"}, pc'[q] # pc[q]
  PROVE  Check(q)
<1> USE DEF TypeInv, Verdict
<1>1. CASE Tick \/ UNCHANGED vars
  BY <1>1 DEF Tick, vars
<1>2. ASSUME NEW r \in Requests, ReadClock(r) \/ CheckFails(r) \/ Remaining(r) PROVE FALSE
  BY <1>2 DEF ReadClock, CheckFails, Remaining
<1>3. ASSUME NEW r \in Requests, Check(r) PROVE r = q
  BY <1>3 DEF Check
<1> QED
  BY <1>1, <1>2, <1>3 DEF Next

LEMMA OriginStep == TypeInv /\ OriginInv /\ [Next]_vars => OriginInv'
<1> SUFFICES ASSUME TypeInv, OriginInv, [Next]_vars, NEW m \in window'
             PROVE  \E q \in With(Verdict)' : now'[q] = m
  BY DEF OriginInv
<1>1. CASE m \in window
  <2>1. PICK q \in With(Verdict) : now[q] = m
    BY <1>1 DEF OriginInv
  <2>2. pc'[q] = pc[q] /\ now'[q] = now[q]
    BY VerdictsStay
  <2> QED
    BY <2>1, <2>2 DEF With
<1>2. CASE m \notin window
  <2>1. PICK r \in Requests : Check(r) \/ CheckFails(r)
    BY <1>2 DEF Next, vars, Tick, ReadClock, Remaining, Pruned
  <2>2. m = now[r] /\ now' = now /\ pc'[r] \in Verdict
    BY <1>2, <2>1 DEF Check, CheckFails, Added, Pruned, TypeInv, Verdict
  <2> QED
    BY <2>2 DEF With
<1> QED
  BY <1>1, <1>2

-----------------------------------------------------------------------------
(* What the set remembers. *)

\* Pruning by a reading that is not ahead of the clock keeps what is less than a
\* window old.
LEMMA PruningKeeps ==
  ASSUME TypeInv, NEW t \in Nat, t <= clock, NEW m \in window, m.tick > clock - Window
  PROVE  m \in Pruned(t)
  BY Constants DEF TypeInv, Moment, Pruned

LEMMA KeptStep == TypeInv /\ LagInv /\ ExpiryInv /\ KeptInv /\ [Next]_vars => KeptInv'
<1> SUFFICES ASSUME TypeInv, LagInv, ExpiryInv, KeptInv, [Next]_vars, TypeInv',
                    NEW q \in With({"passed", "limited"})', now'[q].tick > clock' - Window
             PROVE  now'[q] \in window'
  BY TypeStep DEF KeptInv
<1>1. CASE pc'[q] # pc[q]
  BY <1>1, VerdictsAreGiven DEF With, Check, Added
<1>2. CASE pc'[q] = pc[q]
  <2>1. q \in With({"passed", "limited"}) /\ q \in Requests /\ now'[q] = now[q]
    BY <1>2, VerdictsStay DEF With, Verdict
  <2>2. now[q] \in Moment /\ clock \in Nat /\ clock' \in Nat /\ clock' >= clock
    BY <2>1, Constants DEF Next, vars, Tick, ReadClock, Check, CheckFails, Remaining, TypeInv
  <2>3. now[q].tick > clock - Window /\ now[q] \in window
    BY <2>1, <2>2, Constants DEF KeptInv, Moment
  <2>4. CASE Tick
    BY <2>1, <2>2, <2>3, <2>4, Constants DEF Tick, ExpiryInv, TypeInv, Moment
  <2>5. ASSUME NEW r \in Requests, window' = Added(r) PROVE now[q] \in window'
    <3>1. now[r].tick \in Nat /\ now[r].tick <= clock
      BY DEF TypeInv, Moment, LagInv
    <3> QED
      BY <2>3, <2>5, <3>1, PruningKeeps DEF Added
  <2>6. ASSUME NEW r \in Requests, Check(r) \/ CheckFails(r) PROVE now[q] \in window'
    BY <2>3, <2>5, <2>6 DEF Check, CheckFails
  <2>7. ASSUME NEW r \in Requests, Remaining(r) PROVE now[q] \in window'
    <3>1. PICK t \in now[r].tick .. clock : window' = Pruned(t)
      BY <2>7 DEF Remaining
    <3>2. t \in Nat /\ t <= clock
      BY <3>1 DEF TypeInv, Moment
    <3> QED
      BY <2>3, <3>1, <3>2, PruningKeeps
  <2>8. CASE UNCHANGED vars
    BY <2>3, <2>8 DEF vars
  <2>9. ASSUME NEW r \in Requests, ReadClock(r) PROVE now[q] \in window'
    BY <2>3, <2>9 DEF ReadClock
  <2> QED
    BY <2>1, <2>4, <2>6, <2>7, <2>8, <2>9 DEF Next
<1> QED
  BY <1>1, <1>2

-----------------------------------------------------------------------------
(* The two counts. *)

\* The moments of a span at which a request was let through.
Passed(t) ==
    {now[r] : r \in {q \in With({"passed"}) : now[q].tick \in t .. t + Window - Lag - 1}}

\* The moments around the refusal of r at which others were checked.
Around(r) ==
    {now[q] : q \in With(Verdict) \ {r}}
    \cap {m \in Moment : m.tick > now[r].tick - Window /\ m.tick <= now[r].tick + Lag}

\* Who is let through now finds all the others of the span in the set it counts.
LEMMA PassedStep == IInv /\ [Next]_vars => PassedBounded'
<1> SUFFICES ASSUME IInv, [Next]_vars, NEW t \in 0 .. MaxTime
             PROVE  Cardinality(Passed(t)') <= Limit
  BY DEF PassedBounded, Passed
<1> USE DEF IInv
<1>1. ASSUME NEW r \in Requests, pc'[r] = "passed", pc[r] # "passed",
             now'[r].tick \in t .. t + Window - Lag - 1
      PROVE  Cardinality(Passed(t)') <= Limit
  <2>1. Check(r)
    BY <1>1, VerdictsAreGiven
  <2>2. /\ now' = now /\ clock' = clock /\ window' = Added(r)
        /\ window' \in SUBSET Moment
        /\ Cardinality(window') <= Limit
    <3>1. /\ now' = now /\ clock' = clock /\ window' = Added(r)
          /\ window' \in SUBSET Moment
      BY <2>1, TypeStep DEF Check, TypeInv
    <3>2. Cardinality(window') \in Nat
      BY <3>1, MomentsCount
    <3>3. ~(Cardinality(window') > Limit)
      BY <1>1, <2>1 DEF Check, TypeInv
    <3> QED
      BY <3>1, <3>2, <3>3, Constants
  <2>3. now[r].tick \in Nat /\ clock \in Nat /\ clock <= now[r].tick + Lag
    BY <2>1 DEF Check, LagInv, TypeInv, Moment
  <2>4. clock - Window < t
    BY <1>1, <2>2, <2>3, Constants
  <2>5. KeptInv'
    BY KeptStep
  <2>6. ASSUME NEW q \in With({"passed"})', now'[q].tick \in t .. t + Window - Lag - 1
        PROVE  now'[q] \in window'
    <3>1. now'[q].tick > clock' - Window
      BY <2>2, <2>3, <2>4, <2>6, Constants
    <3> QED
      BY <2>5, <3>1 DEF KeptInv, With
  <2>7. Passed(t)' \in SUBSET window'
    BY <2>6 DEF Passed
  <2> QED
    BY <2>2, <2>7, MomentsCount, Constants
<1>2. ASSUME \A r \in Requests :
               pc'[r] = "passed" /\ now'[r].tick \in t .. t + Window - Lag - 1
               => pc[r] = "passed"
      PROVE  Cardinality(Passed(t)') <= Limit
  <2>1. ASSUME NEW q \in With({"passed"})', now'[q].tick \in t .. t + Window - Lag - 1
        PROVE  q \in With({"passed"}) /\ now'[q] = now[q]
    <3>1. q \in With({"passed"})
      BY <1>2, <2>1 DEF With
    <3> QED
      BY <3>1, VerdictsStay DEF With, Verdict
  <2>2. Passed(t)' \in SUBSET Passed(t)
    BY <2>1 DEF Passed
  <2>3. Passed(t) \in SUBSET Moment
    BY DEF Passed, With, TypeInv
  <2>4. Cardinality(Passed(t)) <= Limit
    BY DEF PassedBounded, Passed
  <2>5. /\ Cardinality(Passed(t)') \in Nat /\ Cardinality(Passed(t)) \in Nat
        /\ Cardinality(Passed(t)') <= Cardinality(Passed(t))
    BY <2>2, <2>3, MomentsCount
  <2> QED
    BY <2>4, <2>5, Constants
<1> QED
  BY <1>1, <1>2

\* Who is refused has counted Limit others; verdicts do not go away.
LEMMA RefusedStep == IInv /\ [Next]_vars => RefusedOnlyWhenBusy'
<1> SUFFICES ASSUME IInv, [Next]_vars, NEW r \in With({"limited"})'
             PROVE  Cardinality(Around(r)') >= Limit
  BY DEF RefusedOnlyWhenBusy, Around
<1> USE DEF IInv
<1>1. r \in Requests /\ Around(r)' \in SUBSET Moment
  BY DEF With, Around
<1>2. CASE pc[r] = "limited"
  <2>1. r \in With({"limited"}) /\ now'[r] = now[r]
    BY <1>1, <1>2, VerdictsStay DEF With, Verdict
  <2>2. ASSUME NEW q \in With(Verdict) PROVE q \in With(Verdict)' /\ now'[q] = now[q]
    BY VerdictsStay DEF With
  <2>3. Around(r) \in SUBSET Around(r)'
    BY <2>1, <2>2 DEF Around
  <2>4. Cardinality(Around(r)) >= Limit
    BY <2>1 DEF RefusedOnlyWhenBusy, Around
  <2>5. /\ Cardinality(Around(r)') \in Nat /\ Cardinality(Around(r)) \in Nat
        /\ Cardinality(Around(r)) <= Cardinality(Around(r)')
    BY <1>1, <2>3, MomentsCount
  <2> QED
    BY <2>4, <2>5, Constants
<1>3. CASE pc[r] # "limited"
  <2>1. Check(r) /\ pc'[r] = "limited"
    BY <1>1, <1>3, VerdictsAreGiven DEF With
  <2>2. /\ now' = now /\ window' = Added(r) /\ window' \in SUBSET Moment
        /\ Cardinality(window') > Limit
    BY <2>1, TypeStep DEF Check, TypeInv
  <2>3. clock <= now[r].tick + Lag /\ clock \in Nat /\ now[r].tick \in Nat
    BY <2>1 DEF Check, LagInv, TypeInv, Moment
  <2>4. ASSUME NEW m \in window' \ {now[r]} PROVE m \in Around(r)'
    <3>1. m \in window /\ m.tick > now[r].tick - Window /\ m \in Moment
      BY <2>2, <2>4 DEF Added, Pruned
    <3>2. PICK q \in With(Verdict) : now[q] = m
      BY <3>1 DEF OriginInv
    <3>3. q \in Requests /\ q # r /\ q \in With(Verdict)'
      BY <3>2, <2>4, VerdictsStay DEF With
    <3>4. m.tick <= now[r].tick + Lag
      BY <2>3, <3>2, <3>3, Constants DEF LagInv, TypeInv, Moment
    <3> QED
      BY <2>2, <3>1, <3>2, <3>3, <3>4 DEF Around
  <2>5. /\ IsFiniteSet(window') /\ Cardinality(window') \in Nat
        /\ Cardinality(window' \ {now[r]}) >= Cardinality(window') - 1
        /\ Cardinality(window' \ {now[r]}) \in Nat
    <3>1. IsFiniteSet(window') /\ Cardinality(window') \in Nat
      BY <2>2, MomentsCount
    <3>2. /\ IsFiniteSet(window' \ {now[r]})
          /\ Cardinality(window' \ {now[r]}) =
                IF now[r] \in window' THEN Cardinality(window') - 1 ELSE Cardinality(window')
      BY <3>1, FS_RemoveElement
    <3>3. Cardinality(window' \ {now[r]}) \in Nat
      BY <3>2, FS_CardinalityType
    <3> QED
      BY <3>1, <3>2, <3>3
  <2>6. /\ Cardinality(window' \ {now[r]}) <= Cardinality(Around(r)')
        /\ Cardinality(Around(r)') \in Nat
    <3>1. window' \ {now[r]} \in SUBSET Around(r)'
      BY <2>4
    <3> QED
      BY <1>1, <3>1, MomentsCount
  <2> QED
    BY <2>2, <2>5, <2>6, Constants
<1> QED
  BY <1>2, <1>3

-----------------------------------------------------------------------------
LEMMA IInvInit == Init => IInv
<1> SUFFICES ASSUME Init PROVE IInv
  OBVIOUS
<1> USE Constants DEF Init
<1>1. TypeInv /\ LagInv /\ ExpiryInv /\ OriginInv
  BY DEF TypeInv, LagInv, ExpiryInv, OriginInv, Moment
<1>2. KeptInv /\ RefusedOnlyWhenBusy
  BY DEF KeptInv, RefusedOnlyWhenBusy, With
<1>3. PassedBounded
  <2>1. ASSUME NEW t \in 0 .. MaxTime PROVE Passed(t) = {}
    BY DEF Passed, With
  <2>2. \A t \in 0 .. MaxTime : Cardinality(Passed(t)) <= Limit
    BY <2>1, FS_EmptySet
  <2> QED
    BY <2>2 DEF PassedBounded, Passed
<1> QED
  BY <1>1, <1>2, <1>3 DEF IInv

\* The set and the verdicts agree in every reachable state.
THEOREM WindowInvariance == Spec => []IInv
<1>1. IInv /\ [Next]_vars => IInv'
  BY TypeStep, LagStep, ExpiryStep, OriginStep, KeptStep, PassedStep, RefusedStep DEF IInv
<1> QED
  BY <1>1, IInvInit, PTL DEF Spec

\* No span of Window - Lag ticks sees more than Limit requests let through.
THEOREM PassedIsBounded == Spec => []PassedBounded
  BY WindowInvariance, PTL DEF IInv

\* A refusal needs Limit other checked moments around it.
THEOREM RefusedIsBusy == Spec => []RefusedOnlyWhenBusy
  BY WindowInvariance, PTL DEF IInv

=============================================================================
