----------------------- MODULE ClosingClient_proofs -----------------------
(***************************************************************************)
(* Proofs, for any finite set of calls, any set of closers and any key     *)
(* width above the number of calls, of the safety properties of            *)
(* ClosingClient, and of its implementing AbstractClosing.                 *)
(***************************************************************************)
EXTENDS ClosingClient, FiniteSetTheorems, TLAPS

\* Calls that were given a key.
Keyed == {c \in Calls : pc[c] \in {"impl", "unregister", "done", "returned"}}

\* mu excludes: who is in a critical section holds it.
MutexInv ==
  /\ \A c \in Calls : pc[c] \in {"check", "added"} <=> mu = c
  /\ \A x \in Closers : cpc[x] \in {"mark", "range"} <=> mu = x

\* The flag, the map and the program counters agree.
ClosingInv ==
  /\ \A x \in Closers :
       cpc[x] \in {"range", "idleConns", "wait", "implClose", "returned"} => closing
  /\ implClosed => closing
  /\ \A c \in Calls : pc[c] = "added" => ~closing
  /\ cancelsNil <=> closing /\ ~Marking
  /\ NoNilMapWrite

\* Keys were handed out in order, each to one call.
KeysInv ==
  /\ lastCancelKey = Cardinality(Keyed)
  /\ \A c \in Keyed : key[c] < lastCancelKey
  /\ \A c, d \in Keyed : key[c] = key[d] => c = d
  /\ \A k \in Keys : k >= lastCancelKey => cancels[k] = None

\* What the range loop of Close has done and has left to do.
RangeInv ==
  /\ toCancel # {} => Marking
  /\ \A k \in toCancel : cancels[k] # None
  /\ Marking => \A k \in Keys \ toCancel : cancels[k] # None => cancels[k] \in cancelled

IInv ==
  /\ TypeOK
  /\ MutexInv
  /\ ClosingInv
  /\ KeysInv
  /\ RangeInv
  /\ wg = Cardinality(Inside)
  /\ CancelsAreLive
  /\ NoMissedCancel
  /\ ClosedMeansQuiet

----------------------------------------------------------------------------

\* The calls with a key and the calls inside are finite in number.
LEMMA CountsAreFinite ==
  /\ IsFiniteSet(Keyed) /\ Cardinality(Keyed) \in Nat
  /\ IsFiniteSet(Inside) /\ Cardinality(Inside) \in Nat
  BY CallsAssumption, FS_Subset, FS_CardinalityType DEF Keyed, Inside

\* The initial states satisfy the inductive invariant.
LEMMA InitInv == Init => IInv
<1> SUFFICES ASSUME Init PROVE IInv
  OBVIOUS
<1>1. 0 \in Keys
  BY KeyModAssumption, CallsAssumption, FS_CardinalityType DEF Keys
<1>2. TypeOK
  BY <1>1, NamesAssumption DEF Init, TypeOK, InsideStates
<1>3. Keyed = {} /\ Inside = {} /\ Registered = {} /\ ~Marking
  BY DEF Init, Keyed, Inside, InsideStates, Registered, Marking
<1>4. MutexInv
  BY NamesAssumption DEF Init, MutexInv
<1>5. ClosingInv
  BY <1>3 DEF Init, ClosingInv, NoNilMapWrite
<1>6. KeysInv
  BY <1>3, FS_EmptySet DEF Init, KeysInv
<1>7. RangeInv
  BY <1>3 DEF Init, RangeInv
<1>8. wg = Cardinality(Inside)
  BY <1>3, FS_EmptySet DEF Init
<1>9. CancelsAreLive /\ NoMissedCancel /\ ClosedMeansQuiet
  BY <1>3, NamesAssumption DEF Init, CancelsAreLive, NoMissedCancel, ClosedMeansQuiet
<1> QED
  BY <1>2, <1>4, <1>5, <1>6, <1>7, <1>8, <1>9 DEF IInv

\* Below KeyMod the next key is the successor.
LEMMA NextKeyIsNext ==
  ASSUME NEW k \in Keys, k + 1 < KeyMod
  PROVE  NextKey(k) = k + 1 /\ k + 1 \in Keys
  BY KeyModAssumption DEF NextKey, Keys

\* Steps of Do outside the registration: no key, count or cancel changes.
LEMMA DoLockInv ==
  ASSUME IInv, NEW c \in Calls, DoStart(c) \/ DoLock(c) \/ DoReject(c)
  PROVE  IInv'
<1>1. Keyed' = Keyed /\ Inside' = Inside /\ Registered' = Registered
  BY DEF IInv, TypeOK, DoStart, DoLock, DoReject, Keyed, Inside, InsideStates, Registered
<1>2. Marking' = Marking
  BY DEF DoStart, DoLock, DoReject, Marking
<1>3. TypeOK'
  BY DEF IInv, TypeOK, InsideStates, DoStart, DoLock, DoReject
<1>4. MutexInv'
  BY NamesAssumption DEF IInv, TypeOK, MutexInv, DoStart, DoLock, DoReject
<1>5. ClosingInv'
  BY <1>2 DEF IInv, TypeOK, ClosingInv, NoNilMapWrite, DoStart, DoLock, DoReject
<1>6. KeysInv'
  BY <1>1 DEF IInv, KeysInv, DoStart, DoLock, DoReject
<1>7. RangeInv'
  BY <1>2 DEF IInv, RangeInv, DoStart, DoLock, DoReject
<1>8. (wg = Cardinality(Inside))'
  BY <1>1 DEF IInv, DoStart, DoLock, DoReject
<1>9. CancelsAreLive'
  BY <1>1 DEF IInv, CancelsAreLive, DoStart, DoLock, DoReject
<1>10. NoMissedCancel'
  BY <1>1, <1>2 DEF IInv, TypeOK, NoMissedCancel, DoStart, DoLock, DoReject
<1>11. ClosedMeansQuiet'
  BY <1>1 DEF IInv, ClosedMeansQuiet, DoStart, DoLock, DoReject
<1> QED
  BY <1>3, <1>4, <1>5, <1>6, <1>7, <1>8, <1>9, <1>10, <1>11 DEF IInv

\* wg.Add(1): it happens before closing, so no Close is past its mark.
LEMMA DoAddInv ==
  ASSUME IInv, NEW c \in Calls, DoAdd(c)
  PROVE  IInv'
<1>1. Keyed' = Keyed /\ Registered' = Registered
  BY DEF IInv, TypeOK, DoAdd, Keyed, Registered
<1>2. c \notin Inside /\ Inside' = Inside \cup {c}
  BY DEF IInv, TypeOK, DoAdd, Inside, InsideStates
<1>3. Marking' = Marking
  BY DEF DoAdd, Marking
<1>4. TypeOK'
  BY DEF IInv, TypeOK, InsideStates, DoAdd
<1>5. MutexInv'
  BY DEF IInv, TypeOK, MutexInv, DoAdd
<1>6. ClosingInv'
  BY <1>3 DEF IInv, TypeOK, ClosingInv, NoNilMapWrite, DoAdd
<1>7. KeysInv' /\ RangeInv' /\ CancelsAreLive'
  BY <1>1, <1>3 DEF IInv, KeysInv, RangeInv, CancelsAreLive, DoAdd
<1>8. (wg = Cardinality(Inside))'
  BY <1>2, CountsAreFinite, FS_AddElement DEF IInv, DoAdd
<1>9. NoMissedCancel'
  BY DEF NoMissedCancel, DoAdd
<1>10. ClosedMeansQuiet'
  BY DEF IInv, ClosingInv, ClosedMeansQuiet, DoAdd
<1> QED
  BY <1>4, <1>5, <1>6, <1>7, <1>8, <1>9, <1>10 DEF IInv

\* Registration: the key is fresh, and the map is there.
LEMMA DoRegisterInv ==
  ASSUME IInv, NEW c \in Calls, DoRegister(c)
  PROVE  IInv'
<1>1. ~closing /\ ~cancelsNil /\ mu = c /\ ~Marking
  BY DEF IInv, ClosingInv, MutexInv, DoRegister, Marking
<1>2. c \notin Keyed /\ Keyed' = Keyed \cup {c}
  BY <1>1 DEF IInv, TypeOK, DoRegister, Keyed
<1>3. Inside' = Inside
  BY <1>1 DEF IInv, TypeOK, DoRegister, Inside, InsideStates
<1>4. Registered' = Registered \cup {c} /\ Registered \subseteq Keyed
  BY <1>1 DEF IInv, TypeOK, DoRegister, Registered, Keyed
<1>5. Marking' = Marking
  BY DEF DoRegister, Marking
<1>6. /\ lastCancelKey' = lastCancelKey + 1
      /\ lastCancelKey' = Cardinality(Keyed')
      /\ lastCancelKey \in Keys /\ lastCancelKey' \in Keys
  <2>1. Cardinality(Keyed') = Cardinality(Keyed) + 1
    BY <1>2, CountsAreFinite, FS_AddElement
  <2>2. Cardinality(Keyed') <= Cardinality(Calls) /\ Cardinality(Calls) \in Nat
    BY <1>2, CallsAssumption, FS_Subset, FS_CardinalityType DEF Keyed
  <2>3. lastCancelKey + 1 < KeyMod
    BY <2>1, <2>2, CountsAreFinite, KeyModAssumption DEF IInv, KeysInv
  <2> QED
    BY <2>1, <2>3, NextKeyIsNext DEF IInv, TypeOK, KeysInv, DoRegister
<1>7. TypeOK'
  BY <1>1, <1>6 DEF IInv, TypeOK, InsideStates, DoRegister
<1>8. MutexInv'
  BY <1>1, NamesAssumption DEF IInv, TypeOK, MutexInv, DoRegister
<1>9. ClosingInv'
  BY <1>1, <1>5 DEF IInv, TypeOK, ClosingInv, NoNilMapWrite, DoRegister
<1>10. cancels[lastCancelKey] = None
  BY <1>6 DEF IInv, KeysInv, Keys
<1>11. KeysInv'
  <2>1. \A d \in Keyed' : key'[d] < lastCancelKey'
    <3> SUFFICES ASSUME NEW d \in Keyed' PROVE key'[d] < lastCancelKey'
      OBVIOUS
    <3>1. d \in Calls /\ lastCancelKey \in Int /\ key \in [Calls -> Keys]
      BY <1>6, KeyModAssumption DEF Keyed, IInv, TypeOK, Keys
    <3>4. key[d] \in Int
      BY <3>1, KeyModAssumption DEF Keys
    <3>2. key' = [key EXCEPT ![c] = lastCancelKey]
      BY DEF DoRegister
    <3>3. d # c => key[d] < lastCancelKey
      BY <1>2 DEF IInv, KeysInv
    <3> QED
      BY <1>6, <3>1, <3>2, <3>3, <3>4
  <2>2. \A d, e \in Keyed' : key'[d] = key'[e] => d = e
    BY <1>2, <1>6, KeyModAssumption DEF IInv, TypeOK, KeysInv, Keyed, Keys, DoRegister
  <2>3. \A k \in Keys : k >= lastCancelKey' => cancels'[k] = None
    BY <1>1, <1>6, KeyModAssumption DEF IInv, TypeOK, KeysInv, Keys, DoRegister
  <2> QED
    BY <1>6, <2>1, <2>2, <2>3 DEF KeysInv
<1>12. RangeInv' /\ (wg = Cardinality(Inside))'
  BY <1>1, <1>3, <1>5 DEF IInv, RangeInv, DoRegister
<1>13. CancelsAreLive'
  <2> SUFFICES ASSUME NEW d \in Calls, NEW k \in Keys
               PROVE  cancels'[k] = d <=> d \in Registered' /\ key'[d] = k
    BY <1>1 DEF CancelsAreLive, DoRegister
  <2>1. cancels[k] = d <=> d \in Registered /\ key[d] = k
    BY <1>1 DEF IInv, CancelsAreLive
  <2>2. CASE d = c
    BY <2>1, <2>2, <1>1, <1>2, <1>4, <1>6 DEF IInv, TypeOK, DoRegister
  <2>3. CASE d # c
    BY <2>1, <2>3, <1>1, <1>4, <1>6, <1>10, NamesAssumption DEF IInv, TypeOK, DoRegister
  <2> QED
    BY <2>2, <2>3
<1>14. NoMissedCancel' /\ ClosedMeansQuiet'
  BY <1>1, <1>3 DEF IInv, NoMissedCancel, ClosedMeansQuiet, DoRegister
<1> QED
  BY <1>3, <1>7, <1>8, <1>9, <1>11, <1>12, <1>13, <1>14 DEF IInv
\* impl.Do returns, a parent context ends, or the caller closes a body.
LEMMA EnvironmentInv ==
  ASSUME IInv, NEW c \in Calls,
         ImplDo(c) \/ ParentCancelled(c) \/ CallerClosesBody(c)
  PROVE  IInv'
<1> USE DEF ImplDo, ImplDoResponse, ImplDoError, ParentCancelled, CallerClosesBody
<1>1. Keyed' = Keyed /\ Inside' = Inside /\ Registered' = Registered
  BY DEF IInv, TypeOK, Keyed, Inside, InsideStates, Registered
<1>2. Marking' = Marking
  BY DEF Marking
<1>3. cancelled \subseteq cancelled'
  OBVIOUS
<1>4. TypeOK'
  BY DEF IInv, TypeOK, InsideStates
<1>5. MutexInv'
  BY DEF IInv, TypeOK, MutexInv
<1>6. ClosingInv'
  BY <1>2 DEF IInv, TypeOK, ClosingInv, NoNilMapWrite
<1>7. KeysInv'
  BY <1>1 DEF IInv, KeysInv
<1>8. RangeInv'
  BY <1>2, <1>3 DEF IInv, RangeInv
<1>9. (wg = Cardinality(Inside))' /\ CancelsAreLive' /\ ClosedMeansQuiet'
  BY <1>1 DEF IInv, CancelsAreLive, ClosedMeansQuiet
<1>10. NoMissedCancel'
  BY <1>1, <1>2, <1>3 DEF IInv, TypeOK, NoMissedCancel
<1> QED
  BY <1>4, <1>5, <1>6, <1>7, <1>8, <1>9, <1>10 DEF IInv

\* The deferred delete removes the entry of this Do and of no other.
LEMMA DoUnregisterInv ==
  ASSUME IInv, NEW c \in Calls, DoUnregister(c)
  PROVE  IInv'
<1>1. mu = None /\ c \in Registered /\ c \in Keyed /\ ~Marking
  BY NamesAssumption DEF IInv, MutexInv, DoUnregister, Registered, Keyed, Marking
<1>2. Keyed' = Keyed /\ Inside' = Inside /\ Registered' = Registered \ {c}
  BY DEF IInv, TypeOK, DoUnregister, Keyed, Inside, InsideStates, Registered
<1>3. Marking' = Marking
  BY DEF DoUnregister, Marking
<1>4. TypeOK'
  BY DEF IInv, TypeOK, InsideStates, DoUnregister
<1>5. MutexInv' /\ ClosingInv'
  BY <1>3 DEF IInv, TypeOK, MutexInv, ClosingInv, NoNilMapWrite, DoUnregister
<1>6. KeysInv' /\ RangeInv'
  BY <1>1, <1>2, <1>3 DEF IInv, TypeOK, KeysInv, RangeInv, DoUnregister
<1>7. (wg = Cardinality(Inside))' /\ ClosedMeansQuiet'
  BY <1>2 DEF IInv, ClosedMeansQuiet, DoUnregister
<1>8. CancelsAreLive'
  <2>1. CASE cancelsNil
    BY <2>1 DEF IInv, TypeOK, CancelsAreLive, DoUnregister
  <2>2. CASE ~cancelsNil
    <3> SUFFICES ASSUME NEW d \in Calls, NEW k \in Keys
                 PROVE  cancels'[k] = d <=> d \in Registered' /\ key'[d] = k
      BY <2>2 DEF CancelsAreLive, DoUnregister
    <3>1. cancels[k] = d <=> d \in Registered /\ key[d] = k
      BY <2>2 DEF IInv, CancelsAreLive
    <3>2. d \in Registered /\ key[d] = key[c] => d = c
      BY <1>1 DEF IInv, KeysInv, Registered, Keyed
    <3> QED
      BY <1>1, <1>2, <3>1, <3>2, NamesAssumption DEF IInv, TypeOK, DoUnregister
  <2> QED
    BY <2>1, <2>2
<1>9. NoMissedCancel'
  BY <1>2, <1>3 DEF IInv, TypeOK, NoMissedCancel, DoUnregister
<1> QED
  BY <1>4, <1>5, <1>6, <1>7, <1>8, <1>9 DEF IInv

\* wg.Done(): the counter was not zero.
LEMMA DoDoneInv ==
  ASSUME IInv, NEW c \in Calls, DoDone(c)
  PROVE  IInv'
<1>1. Keyed' = Keyed /\ Registered' = Registered
  BY DEF IInv, TypeOK, DoDone, Keyed, Registered
<1>2. c \in Inside /\ Inside' = Inside \ {c}
  BY DEF IInv, TypeOK, DoDone, Inside, InsideStates
<1>3. Marking' = Marking
  BY DEF DoDone, Marking
<1>4. wg' = Cardinality(Inside') /\ wg' \in Nat
  <2>1. IsFiniteSet(Inside') /\ Cardinality(Inside') = Cardinality(Inside) - 1
    BY <1>2, CountsAreFinite, FS_RemoveElement
  <2>2. Cardinality(Inside') \in Nat
    BY <2>1, FS_CardinalityType
  <2> QED
    BY <2>1, <2>2 DEF IInv, DoDone
<1>5. TypeOK'
  BY <1>4 DEF IInv, TypeOK, InsideStates, DoDone
<1>6. MutexInv' /\ ClosingInv'
  BY <1>3 DEF IInv, TypeOK, MutexInv, ClosingInv, NoNilMapWrite, DoDone
<1>7. KeysInv' /\ RangeInv' /\ CancelsAreLive'
  BY <1>1, <1>3 DEF IInv, KeysInv, RangeInv, CancelsAreLive, DoDone
<1>8. NoMissedCancel'
  BY <1>1, <1>3 DEF IInv, TypeOK, NoMissedCancel, DoDone
<1>9. ClosedMeansQuiet'
  BY <1>2 DEF IInv, ClosedMeansQuiet, DoDone
<1> QED
  BY <1>4, <1>5, <1>6, <1>7, <1>8, <1>9 DEF IInv
\* Steps of Close that neither mark the client nor touch the map.
LEMMA CloseQuietInv ==
  ASSUME IInv, NEW x \in Closers,
         CloseStart(x) \/ CloseLock(x) \/ CloseAgain(x) \/ CloseIdle(x) \/ CloseImpl(x)
  PROVE  IInv'
<1> USE DEF CloseStart, CloseLock, CloseAgain, CloseIdle, CloseImpl
<1>1. Keyed' = Keyed /\ Inside' = Inside /\ Registered' = Registered
  BY DEF Keyed, Inside, InsideStates, Registered
<1>2. Marking' = Marking
  BY DEF IInv, TypeOK, Marking
<1>3. TypeOK'
  BY DEF IInv, TypeOK, InsideStates
<1>4. MutexInv'
  <2>1. CASE CloseLock(x)
    BY <2>1, NamesAssumption DEF IInv, TypeOK, MutexInv
  <2>2. CASE CloseAgain(x)
    BY <2>2, NamesAssumption DEF IInv, TypeOK, MutexInv
  <2>3. CASE CloseStart(x) \/ CloseIdle(x) \/ CloseImpl(x)
    BY <2>3 DEF IInv, TypeOK, MutexInv
  <2> QED
    BY <2>1, <2>2, <2>3
<1>5. ClosingInv'
  <2>1. closing' = closing /\ cancelsNil' = cancelsNil /\ pc' = pc
    OBVIOUS
  <2>2. cpc'[x] \in {"idleConns", "wait", "returned"} => closing
    BY DEF IInv, TypeOK, ClosingInv
  <2>3. implClosed' => closing
    BY DEF IInv, ClosingInv
  <2> QED
    BY <1>2, <2>1, <2>2, <2>3 DEF IInv, TypeOK, ClosingInv, NoNilMapWrite
<1>6. KeysInv' /\ RangeInv' /\ (wg = Cardinality(Inside))' /\ CancelsAreLive'
  <2>1. UNCHANGED <<cancels, cancelsNil, lastCancelKey, key, wg, cancelled, toCancel>>
    OBVIOUS
  <2> QED
    BY <1>1, <1>2, <2>1 DEF IInv, KeysInv, RangeInv, CancelsAreLive
<1>7. NoMissedCancel'
  BY <1>1, <1>2 DEF IInv, NoMissedCancel
<1>8. ClosedMeansQuiet'
  BY <1>1 DEF IInv, TypeOK, ClosedMeansQuiet
<1> QED
  BY <1>3, <1>4, <1>5, <1>6, <1>7, <1>8 DEF IInv

\* The first Close: no Do is between the flag's test and its registration.
LEMMA CloseMarkInv ==
  ASSUME IInv, NEW x \in Closers, CloseMark(x)
  PROVE  IInv'
<1>1. Keyed' = Keyed /\ Inside' = Inside /\ Registered' = Registered
  BY DEF CloseMark, Keyed, Inside, InsideStates, Registered
<1>2. ~Marking /\ Marking' /\ ~cancelsNil /\ mu = x
  BY DEF IInv, TypeOK, ClosingInv, MutexInv, CloseMark, Marking
<1>3. TypeOK'
  BY DEF IInv, TypeOK, InsideStates, CloseMark
<1>4. MutexInv'
  BY DEF IInv, TypeOK, MutexInv, CloseMark
<1>5. ClosingInv'
  <2>1. \A c \in Calls : pc[c] # "added"
    BY <1>2, NamesAssumption DEF IInv, MutexInv
  <2> QED
    BY <1>2, <2>1 DEF IInv, TypeOK, ClosingInv, NoNilMapWrite, CloseMark
<1>6. KeysInv' /\ (wg = Cardinality(Inside))' /\ CancelsAreLive'
  BY <1>1 DEF IInv, KeysInv, CancelsAreLive, CloseMark
<1>7. RangeInv'
  BY <1>2 DEF RangeInv, CloseMark
<1>8. NoMissedCancel'
  BY <1>2 DEF NoMissedCancel
<1>9. ClosedMeansQuiet'
  BY <1>1 DEF IInv, TypeOK, ClosedMeansQuiet, CloseMark
<1> QED
  BY <1>3, <1>4, <1>5, <1>6, <1>7, <1>8, <1>9 DEF IInv

\* One cancel().
LEMMA CloseCancelInv ==
  ASSUME IInv, NEW x \in Closers, CloseCancel(x)
  PROVE  IInv'
<1>1. Keyed' = Keyed /\ Inside' = Inside /\ Registered' = Registered
  BY DEF CloseCancel, Keyed, Inside, InsideStates, Registered
<1>2. Marking /\ Marking'
  BY DEF CloseCancel, Marking
<1>3. TypeOK'
  BY DEF IInv, TypeOK, RangeInv, InsideStates, CloseCancel
<1>4. MutexInv' /\ ClosingInv'
  BY <1>2 DEF IInv, MutexInv, ClosingInv, NoNilMapWrite, CloseCancel
<1>5. KeysInv' /\ (wg = Cardinality(Inside))' /\ CancelsAreLive' /\ ClosedMeansQuiet'
  BY <1>1 DEF IInv, KeysInv, CancelsAreLive, ClosedMeansQuiet, CloseCancel
<1>6. RangeInv'
  BY <1>2 DEF IInv, RangeInv, CloseCancel
<1>7. NoMissedCancel'
  BY <1>2 DEF NoMissedCancel
<1> QED
  BY <1>3, <1>4, <1>5, <1>6, <1>7 DEF IInv

\* The range loop is over: every Do that registered was cancelled.
LEMMA CloseUnlockInv ==
  ASSUME IInv, NEW x \in Closers, CloseUnlock(x)
  PROVE  IInv'
<1>1. Keyed' = Keyed /\ Inside' = Inside /\ Registered' = Registered
  BY DEF CloseUnlock, Keyed, Inside, InsideStates, Registered
<1>2. Marking /\ closing /\ mu = x
  BY DEF IInv, MutexInv, ClosingInv, CloseUnlock, Marking
<1>3. ~Marking'
  BY <1>2, NamesAssumption DEF IInv, TypeOK, MutexInv, CloseUnlock, Marking
<1>4. TypeOK'
  BY DEF IInv, TypeOK, InsideStates, CloseUnlock
<1>5. MutexInv'
  BY <1>2, NamesAssumption DEF IInv, TypeOK, MutexInv, CloseUnlock
<1>6. ClosingInv'
  BY <1>2, <1>3 DEF IInv, TypeOK, ClosingInv, NoNilMapWrite, CloseUnlock
<1>7. KeysInv' /\ RangeInv' /\ (wg = Cardinality(Inside))' /\ CancelsAreLive'
  BY <1>1, <1>3 DEF IInv, KeysInv, RangeInv, CancelsAreLive, CloseUnlock
<1>8. NoMissedCancel'
  <2> SUFFICES ASSUME NEW c \in Calls, pc[c] = "added" \/ c \in Registered
               PROVE  c \in cancelled
    BY <1>1 DEF NoMissedCancel, CloseUnlock
  <2>1. c \in Registered
    BY <1>2, NamesAssumption DEF IInv, MutexInv
  <2>2. key[c] \in Keys /\ cancels[key[c]] = c
    BY <1>2, <2>1 DEF IInv, TypeOK, ClosingInv, CancelsAreLive
  <2> QED
    BY <1>2, <2>2, NamesAssumption DEF IInv, RangeInv, CloseUnlock
<1>9. ClosedMeansQuiet'
  BY <1>1 DEF IInv, TypeOK, ClosedMeansQuiet, CloseUnlock
<1> QED
  BY <1>4, <1>5, <1>6, <1>7, <1>8, <1>9 DEF IInv

\* wg.Wait() returns: no Do is inside.
LEMMA CloseWaitInv ==
  ASSUME IInv, NEW x \in Closers, CloseWait(x)
  PROVE  IInv'
<1>1. Keyed' = Keyed /\ Inside' = Inside /\ Registered' = Registered
  BY DEF CloseWait, Keyed, Inside, InsideStates, Registered
<1>2. Inside = {}
  BY CountsAreFinite, FS_EmptySet DEF IInv, CloseWait
<1>3. Marking' = Marking
  BY DEF IInv, TypeOK, CloseWait, Marking
<1>4. TypeOK'
  BY DEF IInv, TypeOK, InsideStates, CloseWait
<1>5. MutexInv' /\ ClosingInv'
  BY <1>3 DEF IInv, TypeOK, MutexInv, ClosingInv, NoNilMapWrite, CloseWait
<1>6. KeysInv' /\ RangeInv' /\ (wg = Cardinality(Inside))' /\ CancelsAreLive'
  BY <1>1, <1>3 DEF IInv, KeysInv, RangeInv, CancelsAreLive, CloseWait
<1>7. NoMissedCancel' /\ ClosedMeansQuiet'
  BY <1>1, <1>2, <1>3 DEF IInv, NoMissedCancel, ClosedMeansQuiet, CloseWait
<1> QED
  BY <1>4, <1>5, <1>6, <1>7 DEF IInv
LEMMA NextInv == IInv /\ [Next]_vars => IInv'
<1> SUFFICES ASSUME IInv, [Next]_vars PROVE IInv'
  OBVIOUS
<1>1. CASE UNCHANGED vars
  <2>1. Keyed' = Keyed /\ Inside' = Inside /\ Registered' = Registered /\ Marking' = Marking
    BY <1>1 DEF vars, Keyed, Inside, Registered, Marking
  <2> QED
    BY <1>1, <2>1 DEF IInv, vars, TypeOK, MutexInv, ClosingInv, NoNilMapWrite, KeysInv,
                      RangeInv, CancelsAreLive, NoMissedCancel, ClosedMeansQuiet
<1>2. ASSUME NEW c \in Calls,
             DoStart(c) \/ DoStep(c) \/ ImplDo(c) \/ ParentCancelled(c) \/ CallerClosesBody(c)
      PROVE  IInv'
  BY <1>2, DoLockInv, DoAddInv, DoRegisterInv, DoUnregisterInv, DoDoneInv, EnvironmentInv
     DEF DoStep
<1>3. ASSUME NEW x \in Closers, CloseStart(x) \/ CloseStep(x)
      PROVE  IInv'
  BY <1>3, CloseQuietInv, CloseMarkInv, CloseCancelInv, CloseUnlockInv, CloseWaitInv
     DEF CloseStep
<1> QED
  BY <1>1, <1>2, <1>3 DEF Next

\* The conjunction that the code's invariants rest on holds throughout.
THEOREM Invariance == Safety => []IInv
  BY InitInv, NextInv, PTL DEF Safety

\* The types, for every number of calls and closers.
THEOREM TypeCorrect == Safety => []TypeOK
<1>1. IInv => TypeOK
  BY DEF IInv
<1> QED
  BY <1>1, Invariance, PTL

\* The map of cancel functions holds exactly the Dos that are inside impl.
THEOREM CancelsCorrect == Safety => []CancelsAreLive
<1>1. IInv => CancelsAreLive
  BY DEF IInv
<1> QED
  BY <1>1, Invariance, PTL

\* After the first Close's critical section no Do inside is left uncancelled.
THEOREM NoneMissed == Safety => []NoMissedCancel
<1>1. IInv => NoMissedCancel
  BY DEF IInv
<1> QED
  BY <1>1, Invariance, PTL

\* No Do panics on the nil map.
THEOREM NoPanic == Safety => []NoNilMapWrite
<1>1. IInv => NoNilMapWrite
  BY DEF IInv, ClosingInv
<1> QED
  BY <1>1, Invariance, PTL

\* A closed client has nothing inside.
THEOREM QuietWhenClosed == Safety => []ClosedMeansQuiet
<1>1. IInv => ClosedMeansQuiet
  BY DEF IInv
<1> QED
  BY <1>1, Invariance, PTL

\* wg.Add(1) and wg.Wait() are never concurrent.
THEOREM AddWaitExclusion == Safety => AddNeverRacesWait
<1> DEFINE Exclusion ==
      wg' > wg => \A x \in Closers : cpc[x] \notin {"wait", "implClose", "returned"}
<1>1. ASSUME IInv, Next PROVE Exclusion
  <2>1. wg \in Nat
    BY <1>1 DEF IInv, TypeOK
  <2>2. ASSUME NEW c \in Calls, DoAdd(c) PROVE Exclusion
    BY <1>1, <2>2 DEF IInv, ClosingInv, DoAdd
  <2>3. ASSUME NEW c \in Calls,
               \/ DoStart(c) \/ DoLock(c) \/ DoReject(c) \/ DoRegister(c)
               \/ DoUnregister(c) \/ DoDone(c)
               \/ ImplDo(c) \/ ParentCancelled(c) \/ CallerClosesBody(c)
        PROVE  wg' = wg \/ wg' = wg - 1
    BY <2>3 DEF DoStart, DoLock, DoReject, DoRegister, DoUnregister, DoDone, ImplDo,
                ImplDoResponse, ImplDoError, ParentCancelled, CallerClosesBody
  <2>4. ASSUME NEW x \in Closers, CloseStart(x) \/ CloseStep(x)
        PROVE  wg' = wg
    BY <2>4 DEF CloseStart, CloseStep, CloseLock, CloseMark, CloseAgain, CloseCancel,
                CloseUnlock, CloseIdle, CloseWait, CloseImpl
  <2>5. wg' = wg \/ wg' = wg - 1 => ~(wg' > wg)
    BY <2>1
  <2> QED
    BY <1>1, <2>2, <2>3, <2>4, <2>5 DEF Next, DoStep
<1>2. IInv /\ [Next]_vars => [Exclusion]_vars
  BY <1>1
<1> QED
  BY <1>2, Invariance, PTL DEF Safety, AddNeverRacesWait
----------------------------------------------------------------------------

\* Steps of Do and of its environment map to steps of the abstract client.
LEMMA DoStepImplements ==
  ASSUME IInv, NEW c \in Calls,
         DoStart(c) \/ DoStep(c) \/ ImplDo(c) \/ ParentCancelled(c) \/ CallerClosesBody(c)
  PROVE  [Abs!ANext]_(Abs!avars)
<1> USE DEF absStatus
<1>1. CASE \/ DoStart(c) \/ DoLock(c) \/ DoUnregister(c) \/ DoRegister(c)
           \/ ImplDo(c) \/ ParentCancelled(c) \/ CallerClosesBody(c)
  <2>1. absPhase' = absPhase
    BY <1>1 DEF absPhase, DoStart, DoLock, DoUnregister, DoRegister, ImplDo, ImplDoResponse,
                ImplDoError, ParentCancelled, CallerClosesBody
  <2>2. absStatus' = absStatus
    <3>1. ASSUME NEW d \in Calls PROVE absStatus'[d] = absStatus[d]
      BY <1>1 DEF IInv, TypeOK, InsideStates, DoStart, DoLock, DoUnregister, DoRegister,
                  ImplDo, ImplDoResponse, ImplDoError, ParentCancelled, CallerClosesBody
    <3> QED
      BY <3>1
  <2> QED
    BY <2>1, <2>2 DEF Abs!avars
<1>2. CASE DoReject(c)
  <2>1. absPhase' = absPhase /\ absPhase # "open"
    BY <1>2 DEF absPhase, DoReject
  <2>2. absStatus[c] = "idle" /\ absStatus' = [absStatus EXCEPT ![c] = "refused"]
    BY <1>2 DEF IInv, TypeOK, DoReject
  <2> QED
    BY <2>1, <2>2 DEF Abs!ANext, Abs!Refuse
<1>3. CASE DoAdd(c)
  <2>1. absPhase' = absPhase /\ absPhase = "open"
    BY <1>3 DEF IInv, ClosingInv, absPhase, DoAdd
  <2>2. absStatus[c] = "idle" /\ absStatus' = [absStatus EXCEPT ![c] = "active"]
    BY <1>3 DEF IInv, TypeOK, DoAdd
  <2> QED
    BY <2>1, <2>2 DEF Abs!ANext, Abs!Begin
<1>4. CASE DoDone(c)
  <2>1. absPhase' = absPhase
    BY <1>4 DEF absPhase, DoDone
  <2>2. absStatus[c] = "active" /\ absStatus' = [absStatus EXCEPT ![c] = "ended"]
    BY <1>4 DEF IInv, TypeOK, DoDone
  <2> QED
    BY <2>1, <2>2 DEF Abs!ANext, Abs!End
<1> QED
  BY <1>1, <1>2, <1>3, <1>4 DEF DoStep

\* Steps of Close do: the mark starts closing, the end of the first Wait ends it.
LEMMA CloseStepImplements ==
  ASSUME IInv, NEW x \in Closers, CloseStart(x) \/ CloseStep(x)
  PROVE  [Abs!ANext]_(Abs!avars)
<1> DEFINE Past == \E y \in Closers : cpc[y] \in {"implClose", "returned"}
<1>1. absStatus' = absStatus
  BY DEF absStatus, CloseStart, CloseStep, CloseLock, CloseMark, CloseAgain, CloseCancel,
         CloseUnlock, CloseIdle, CloseWait, CloseImpl
<1>2. CASE CloseMark(x)
  <2>1. ~Past /\ ~Past' /\ closing' /\ ~closing
    BY <1>2 DEF IInv, TypeOK, ClosingInv, CloseMark
  <2>2. absPhase = "open" /\ absPhase' = "closing"
    BY <2>1 DEF absPhase
  <2> QED
    BY <1>1, <2>2 DEF Abs!ANext, Abs!StartClose
<1>3. CASE CloseWait(x)
  <2>1. closing /\ Past' /\ Inside = {}
    BY <1>3, CountsAreFinite, FS_EmptySet DEF IInv, TypeOK, ClosingInv, CloseWait
  <2>2. \A c \in Calls : absStatus[c] # "active"
    BY <2>1 DEF absStatus, IInv, TypeOK, ClosingInv, NoNilMapWrite, Inside, InsideStates
  <2>3. absPhase \in {"closing", "closed"} /\ absPhase' = "closed"
    BY <2>1 DEF absPhase
  <2> QED
    BY <1>1, <2>2, <2>3 DEF Abs!ANext, Abs!FinishClose, Abs!avars
<1>4. CASE \/ CloseStart(x) \/ CloseLock(x) \/ CloseAgain(x) \/ CloseCancel(x)
           \/ CloseUnlock(x) \/ CloseIdle(x) \/ CloseImpl(x)
  <2>1. closing' = closing /\ (Past' <=> Past)
    BY <1>4 DEF IInv, TypeOK, CloseStart, CloseLock, CloseAgain, CloseCancel, CloseUnlock,
                CloseIdle, CloseImpl
  <2>2. absPhase' = absPhase
    BY <2>1 DEF absPhase
  <2> QED
    BY <1>1, <2>2 DEF Abs!avars
<1> QED
  BY <1>2, <1>3, <1>4 DEF CloseStep

\* The closing client implements the safety part of the abstract one.
THEOREM SafeRefinement == Safety => Abs!ASafety
<1>1. Init => Abs!AInit
  BY DEF Init, Abs!AInit, absStatus, absPhase
<1>2. IInv /\ [Next]_vars => [Abs!ANext]_(Abs!avars)
  <2> SUFFICES ASSUME IInv, [Next]_vars PROVE [Abs!ANext]_(Abs!avars)
    OBVIOUS
  <2>1. CASE UNCHANGED vars
    BY <2>1 DEF vars, Abs!avars, absStatus, absPhase
  <2> QED
    BY <2>1, DoStepImplements, CloseStepImplements DEF Next
<1> QED
  BY <1>1, <1>2, Invariance, PTL DEF Safety, Abs!ASafety
===========================================================================
