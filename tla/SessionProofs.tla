--------------------------- MODULE SessionProofs ---------------------------
(***************************************************************************)
(* Proofs about Session, for every set of goroutines and every number of   *)
(* refreshes.  IInv is shown to be inductive, one lemma per action and in  *)
(* it one step per conjunct; a leaf names the conjuncts of IInv it needs   *)
(* by expanding their definitions.  The safety properties, the action      *)
(* property, the refinement of Custody and the safety part of liveness     *)
(* (WaitsAreServed) follow from it.                                        *)
(***************************************************************************)
EXTENDS SessionInv, TLAPS

\* The vocabulary: type sets, result constructors, variable tuples.
USE SessionAssumption
  DEF sessionVars, flightVars, idpVars, history, Goto, NoResult, NoSnap, Ok,
      Err, Done, NoCall, Running, States, Ages, PCs, Errors, ATs, RTs, Results,
      Snapshots, Dead

-----------------------------------------------------------------------------
\* Lemmas about the operators the actions are built from.

\* The error of a state is an error.
LEMMA ErrorOfType == \A st : ErrorOf(st) \in {"reauth", "tier", "unavailable"}
  BY DEF ErrorOf

\* The constructors build results.
LEMMA ResultTypes ==
  /\ \A tok \in ATs : Ok(tok) \in Results
  /\ \A e \in Errors : Err(e) \in Results
  OBVIOUS

\* Ending a flight with a result keeps the types of what it assigns.
LEMMA FlightDoneType ==
  ASSUME TypeOK, NEW t \in Threads, NEW r \in Results, FlightDone(t, r)
  PROVE  /\ opMu' \in Threads \cup {NoThread}
         /\ call' \in [status : {"none", "running", "done"}, res : Results]
         /\ pc' \in [Threads -> PCs]
         /\ rtArg' \in [Threads -> RTs]
         /\ ret' \in [Threads -> {"none", "rotated", "kept", "reauth", "tier",
                                  "transient"}]
         /\ resp' \in [Threads -> Results]
  BY DEF TypeOK, FlightDone

\* The goroutine that ends a flight leaves opMu free and no IdP call behind.
LEMMA FlightDoneLock ==
  ASSUME TypeOK, LockInv, NEW t \in Threads, NEW r, FlightDone(t, r),
         opMu \in {t, NoThread}
  PROVE  LockInv'
<1>1. \A u \in Threads : u # t => pc[u] \notin {"call", "reply"}
    BY DEF LockInv
<1>2. \A u \in Threads : pc'[u] \notin {"call", "reply"}
    BY <1>1 DEF TypeOK, FlightDone
<1>3. \A u \in Threads : ret'[u] = "none"
    BY <1>1 DEF TypeOK, LockInv, FlightDone
<1> QED
    BY <1>2, <1>3 DEF LockInv, FlightDone

-----------------------------------------------------------------------------
\* GetAccessToken and the singleflight.

\* A call starts with no answer in hand, so only its own answer has to be new
\* enough.
LEMMA GetAccessTokenPreserves ==
  ASSUME IInv, NEW t \in Threads, GetAccessToken(t)
  PROVE  IInv'
<1>1. TypeOK'
  <2>1. since' \in [Threads -> 0 .. MaxRefresh + 2]
      BY DEF IInv, TypeOK, GetAccessToken
  <2>2. Err(ErrorOf(state)) \in Results /\ Ok(accessToken) \in Results
      BY ErrorOfType DEF IInv, TypeOK
  <2>3. \/ resp' = resp
        \/ resp' = [resp EXCEPT ![t] = Err(ErrorOf(state))]
        \/ resp' = [resp EXCEPT ![t] = Ok(accessToken)]
      BY DEF GetAccessToken
  <2>4. resp' \in [Threads -> Results]
      BY <2>2, <2>3 DEF IInv, TypeOK
  <2>5. \/ pc' = [pc EXCEPT ![t] = "do"]
        \/ pc' = [pc EXCEPT ![t] = "done"]
      BY DEF GetAccessToken
  <2>6. pc' \in [Threads -> PCs]
      BY <2>5 DEF IInv, TypeOK
  <2> QED
      BY <2>1, <2>4, <2>6 DEF IInv, TypeOK, GetAccessToken
<1>2. WipedUnlessReady'
    BY DEF IInv, WipedUnlessReady, GetAccessToken, AccessStillFresh,
       ErrorOf
<1>3. LogoutFinal'
    BY DEF IInv, LogoutFinal, GetAccessToken, AccessStillFresh, ErrorOf
<1>4. LockInv'
    BY DEF IInv, TypeOK, LockInv, GetAccessToken, AccessStillFresh,
       ErrorOf
<1>5. FlightInv'
    BY DEF IInv, TypeOK, LockInv, FlightInv, GetAccessToken, OneRefresh,
       AccessStillFresh, ErrorOf
<1>6. SnapInv'
    BY DEF IInv, TypeOK, SnapInv, GetAccessToken, AccessStillFresh,
       ErrorOf
<1>7. SpentInv'
    BY DEF IInv, TypeOK, SpentInv, GetAccessToken, AccessStillFresh,
       ErrorOf
<1>8. StaleInv'
    BY DEF IInv, TypeOK, StaleInv, GetAccessToken, AccessStillFresh,
       ErrorOf
<1>9. NoStaleToken'
    BY DEF IInv, TypeOK, WipedUnlessReady, FlightInv, StaleInv,
       NoStaleToken, GetAccessToken, OneRefresh, AccessStillFresh, ErrorOf
<1>10. ErrInv'
    BY DEF IInv, ErrInv, GetAccessToken, AccessStillFresh, ErrorOf
<1>11. PermanentErrorsAreTrue'
    BY DEF IInv, TypeOK, PermanentErrorsAreTrue, GetAccessToken,
       AccessStillFresh, ErrorOf
<1> QED
    BY <1>1, <1>2, <1>3, <1>4, <1>5, <1>6, <1>7, <1>8, <1>9, <1>10, <1>11 DEF IInv

\* The new leader is the only one, because the map was empty.
LEMMA LeadFlightPreserves ==
  ASSUME IInv, NEW t \in Threads, LeadFlight(t)
  PROVE  IInv'
<1>1. TypeOK'
    BY DEF IInv, TypeOK, LeadFlight, NoFlight
<1>2. WipedUnlessReady'
    BY DEF IInv, WipedUnlessReady, LeadFlight, NoFlight
<1>3. LogoutFinal'
    BY DEF IInv, LogoutFinal, LeadFlight, NoFlight
<1>4. LockInv'
    BY DEF IInv, LockInv, LeadFlight, NoFlight
<1>5. FlightInv'
    BY DEF IInv, FlightInv, LeadFlight, OneRefresh, NoFlight
<1>6. SnapInv'
    BY DEF IInv, SnapInv, LeadFlight, NoFlight
<1>7. SpentInv'
    BY DEF IInv, SpentInv, LeadFlight, NoFlight
<1>8. StaleInv'
    BY DEF IInv, StaleInv, LeadFlight, NoFlight
<1>9. NoStaleToken'
    BY DEF IInv, NoStaleToken, LeadFlight, NoFlight
<1>10. ErrInv'
    BY DEF IInv, ErrInv, LeadFlight, NoFlight
<1>11. PermanentErrorsAreTrue'
    BY DEF IInv, PermanentErrorsAreTrue, LeadFlight, NoFlight
<1> QED
    BY <1>1, <1>2, <1>3, <1>4, <1>5, <1>6, <1>7, <1>8, <1>9, <1>10, <1>11 DEF IInv

\* A waiter only waits while a flight is running.
LEMMA JoinFlightPreserves ==
  ASSUME IInv, NEW t \in Threads, JoinFlight(t)
  PROVE  IInv'
<1>1. TypeOK'
    BY DEF IInv, TypeOK, JoinFlight
<1>2. WipedUnlessReady'
    BY DEF IInv, WipedUnlessReady, JoinFlight
<1>3. LogoutFinal'
    BY DEF IInv, LogoutFinal, JoinFlight
<1>4. LockInv'
    BY DEF IInv, LockInv, JoinFlight
<1>5. FlightInv'
    BY DEF IInv, FlightInv, JoinFlight, OneRefresh
<1>6. SnapInv'
    BY DEF IInv, SnapInv, JoinFlight
<1>7. SpentInv'
    BY DEF IInv, SpentInv, JoinFlight
<1>8. StaleInv'
    BY DEF IInv, StaleInv, JoinFlight
<1>9. NoStaleToken'
    BY DEF IInv, NoStaleToken, JoinFlight
<1>10. ErrInv'
    BY DEF IInv, ErrInv, JoinFlight
<1>11. PermanentErrorsAreTrue'
    BY DEF IInv, PermanentErrorsAreTrue, JoinFlight
<1> QED
    BY <1>1, <1>2, <1>3, <1>4, <1>5, <1>6, <1>7, <1>8, <1>9, <1>10, <1>11 DEF IInv

\* A late joiner takes an answer that StaleInv and ErrInv vouch for.
LEMMA JoinFinishedPreserves ==
  ASSUME IInv, NEW t \in Threads, JoinFinished(t)
  PROVE  IInv'
<1>1. TypeOK'
    BY DEF IInv, TypeOK, JoinFinished
<1>2. WipedUnlessReady'
    BY DEF IInv, WipedUnlessReady, JoinFinished
<1>3. LogoutFinal'
    BY DEF IInv, LogoutFinal, JoinFinished
<1>4. LockInv'
    BY DEF IInv, LockInv, JoinFinished
<1>5. FlightInv'
    BY DEF IInv, TypeOK, FlightInv, JoinFinished, OneRefresh
<1>6. SnapInv'
    BY DEF IInv, SnapInv, JoinFinished
<1>7. SpentInv'
    BY DEF IInv, SpentInv, JoinFinished
<1>8. StaleInv'
    BY DEF IInv, StaleInv, JoinFinished
<1>9. NoStaleToken'
    BY DEF IInv, TypeOK, WipedUnlessReady, StaleInv, NoStaleToken,
       JoinFinished
<1>10. ErrInv'
    BY DEF IInv, ErrInv, JoinFinished
<1>11. PermanentErrorsAreTrue'
    BY DEF IInv, TypeOK, FlightInv, ErrInv, PermanentErrorsAreTrue,
       JoinFinished, OneRefresh
<1> QED
    BY <1>1, <1>2, <1>3, <1>4, <1>5, <1>6, <1>7, <1>8, <1>9, <1>10, <1>11 DEF IInv

\* Deleting the key leaves nobody behind who refers to it.
LEMMA FlightDeletePreserves ==
  ASSUME IInv, NEW t \in Threads, FlightDelete(t)
  PROVE  IInv'
<1>1. TypeOK'
    BY DEF IInv, TypeOK, FlightDelete
<1>2. WipedUnlessReady'
    BY DEF IInv, WipedUnlessReady, FlightDelete
<1>3. LogoutFinal'
    BY DEF IInv, LogoutFinal, FlightDelete
<1>4. LockInv'
    BY DEF IInv, LockInv, FlightDelete
<1>5. FlightInv'
    BY DEF IInv, TypeOK, FlightInv, FlightDelete, OneRefresh
<1>6. SnapInv'
    BY DEF IInv, SnapInv, FlightDelete
<1>7. SpentInv'
    BY DEF IInv, SpentInv, FlightDelete
<1>8. StaleInv'
    BY DEF IInv, StaleInv, FlightDelete
<1>9. NoStaleToken'
    BY DEF IInv, NoStaleToken, FlightDelete
<1>10. ErrInv'
    BY DEF IInv, ErrInv, FlightDelete
<1>11. PermanentErrorsAreTrue'
    BY DEF IInv, PermanentErrorsAreTrue, FlightDelete
<1> QED
    BY <1>1, <1>2, <1>3, <1>4, <1>5, <1>6, <1>7, <1>8, <1>9, <1>10, <1>11 DEF IInv

\* A goroutine that goes idle forgets its answer.
LEMMA ReturnPreserves ==
  ASSUME IInv, NEW t \in Threads, Return(t)
  PROVE  IInv'
<1>1. TypeOK'
    BY DEF IInv, TypeOK, Return
<1>2. WipedUnlessReady'
    BY DEF IInv, WipedUnlessReady, Return
<1>3. LogoutFinal'
    BY DEF IInv, LogoutFinal, Return
<1>4. LockInv'
    BY DEF IInv, LockInv, Return
<1>5. FlightInv'
    BY DEF IInv, TypeOK, FlightInv, Return, OneRefresh
<1>6. SnapInv'
    BY DEF IInv, SnapInv, Return
<1>7. SpentInv'
    BY DEF IInv, SpentInv, Return
<1>8. StaleInv'
    BY DEF IInv, TypeOK, StaleInv, Return
<1>9. NoStaleToken'
    BY DEF IInv, TypeOK, NoStaleToken, Return
<1>10. ErrInv'
    BY DEF IInv, ErrInv, Return
<1>11. PermanentErrorsAreTrue'
    BY DEF IInv, PermanentErrorsAreTrue, Return
<1> QED
    BY <1>1, <1>2, <1>3, <1>4, <1>5, <1>6, <1>7, <1>8, <1>9, <1>10, <1>11 DEF IInv

-----------------------------------------------------------------------------
\* refreshIfNeeded and the IdP.

\* The second look under opMu answers from the state it finds.
LEMMA RefreshSkippedPreserves ==
  ASSUME IInv, NEW t \in Threads, RefreshSkipped(t)
  PROVE  IInv'
<1>1. TypeOK'
  <2>1. CASE state = "ready" /\ ~AccessStillFresh
      BY <2>1, ResultTypes, FlightDoneType DEF IInv, TypeOK, RefreshSkipped
  <2>2. CASE ~(state = "ready" /\ ~AccessStillFresh)
    <3>1. accessToken \in ATs
        BY DEF IInv, TypeOK
    <3>2. (IF state = "ready" THEN Ok(accessToken) ELSE Err(ErrorOf(state))) \in Results
        BY <3>1, ResultTypes, ErrorOfType
    <3> QED
        BY <2>2, <3>2, FlightDoneType DEF IInv, TypeOK, RefreshSkipped
  <2> QED
      BY <2>1, <2>2
<1>2. WipedUnlessReady'
    BY DEF IInv, WipedUnlessReady, RefreshSkipped, AccessStillFresh,
       ErrorOf, FlightDone, OpMuFree
<1>3. LogoutFinal'
    BY DEF IInv, LogoutFinal, RefreshSkipped, AccessStillFresh, ErrorOf,
       FlightDone, OpMuFree
<1>4. LockInv'
  <2>1. opMu = NoThread
      BY DEF IInv, OpMuFree, RefreshSkipped
  <2>2. PICK r : FlightDone(t, r)
      BY DEF RefreshSkipped
  <2> QED
      BY <2>1, <2>2, FlightDoneLock DEF IInv
<1>5. FlightInv'
    BY DEF IInv, FlightInv, RefreshSkipped, OneRefresh, AccessStillFresh,
       ErrorOf, FlightDone, OpMuFree
<1>6. SnapInv'
    BY DEF IInv, SnapInv, RefreshSkipped, AccessStillFresh, ErrorOf,
       FlightDone, OpMuFree
<1>7. SpentInv'
    BY DEF IInv, LockInv, SpentInv, RefreshSkipped, AccessStillFresh,
       ErrorOf, FlightDone, OpMuFree
<1>8. StaleInv'
    BY DEF IInv, WipedUnlessReady, StaleInv, RefreshSkipped,
       AccessStillFresh, ErrorOf, FlightDone, OpMuFree
<1>9. NoStaleToken'
    BY DEF IInv, TypeOK, WipedUnlessReady, StaleInv, NoStaleToken,
       RefreshSkipped, AccessStillFresh, ErrorOf, FlightDone, OpMuFree
<1>10. ErrInv'
    BY DEF IInv, ErrInv, RefreshSkipped, AccessStillFresh, ErrorOf,
       FlightDone, OpMuFree
<1>11. PermanentErrorsAreTrue'
    BY DEF IInv, PermanentErrorsAreTrue, RefreshSkipped, AccessStillFresh,
       ErrorOf, FlightDone, OpMuFree
<1> QED
    BY <1>1, <1>2, <1>3, <1>4, <1>5, <1>6, <1>7, <1>8, <1>9, <1>10, <1>11 DEF IInv

\* The refresh token sent is the one the session holds.
LEMMA RefreshSendPreserves ==
  ASSUME IInv, NEW t \in Threads, RefreshSend(t)
  PROVE  IInv'
<1>1. TypeOK'
    BY DEF IInv, TypeOK, RefreshSend, AccessStillFresh, OpMuFree
<1>2. WipedUnlessReady'
    BY DEF IInv, WipedUnlessReady, RefreshSend, AccessStillFresh, OpMuFree
<1>3. LogoutFinal'
    BY DEF IInv, LogoutFinal, RefreshSend, AccessStillFresh, OpMuFree
<1>4. LockInv'
    BY DEF IInv, TypeOK, WipedUnlessReady, LockInv, RefreshSend,
       AccessStillFresh, OpMuFree
<1>5. FlightInv'
    BY DEF IInv, FlightInv, RefreshSend, OneRefresh, AccessStillFresh,
       OpMuFree
<1>6. SnapInv'
    BY DEF IInv, SnapInv, RefreshSend, AccessStillFresh, OpMuFree
<1>7. SpentInv'
    BY DEF IInv, SpentInv, RefreshSend, AccessStillFresh, OpMuFree
<1>8. StaleInv'
    BY DEF IInv, StaleInv, RefreshSend, AccessStillFresh, OpMuFree
<1>9. NoStaleToken'
    BY DEF IInv, NoStaleToken, RefreshSend, AccessStillFresh, OpMuFree
<1>10. ErrInv'
    BY DEF IInv, ErrInv, RefreshSend, AccessStillFresh, OpMuFree
<1>11. PermanentErrorsAreTrue'
    BY DEF IInv, PermanentErrorsAreTrue, RefreshSend, AccessStillFresh,
       OpMuFree
<1> QED
    BY <1>1, <1>2, <1>3, <1>4, <1>5, <1>6, <1>7, <1>8, <1>9, <1>10, <1>11 DEF IInv

\* An answer that spends the token is either lost or about to be installed.
LEMMA IdPAnswerPreserves ==
  ASSUME IInv, NEW t \in Threads, IdPAnswer(t)
  PROVE  IInv'
<1>1. TypeOK'
    BY DEF IInv, TypeOK, IdPAnswer, Answers, Refresh
<1>2. WipedUnlessReady'
    BY DEF IInv, WipedUnlessReady, IdPAnswer, Answers, Refresh
<1>3. LogoutFinal'
    BY DEF IInv, LogoutFinal, IdPAnswer, Answers, Refresh
<1>4. LockInv'
    BY DEF IInv, TypeOK, LockInv, IdPAnswer, Answers, Refresh
<1>5. FlightInv'
    BY DEF IInv, FlightInv, IdPAnswer, OneRefresh, Answers, Refresh
<1>6. SnapInv'
    BY DEF IInv, SnapInv, IdPAnswer, Answers, Refresh
<1>7. SpentInv'
    BY DEF IInv, TypeOK, LockInv, SpentInv, IdPAnswer, Answers, Refresh
<1>8. StaleInv'
    BY DEF IInv, StaleInv, IdPAnswer, Answers, Refresh
<1>9. NoStaleToken'
    BY DEF IInv, NoStaleToken, IdPAnswer, Answers, Refresh
<1>10. ErrInv'
    BY DEF IInv, ErrInv, IdPAnswer, Answers, Refresh
<1>11. PermanentErrorsAreTrue'
    BY DEF IInv, PermanentErrorsAreTrue, IdPAnswer, Answers, Refresh
<1> QED
    BY <1>1, <1>2, <1>3, <1>4, <1>5, <1>6, <1>7, <1>8, <1>9, <1>10, <1>11 DEF IInv

\* An abandoned request leaves the token in the session and on the wire.
LEMMA CallAbandonedPreserves ==
  ASSUME IInv, NEW t \in Threads, CallAbandoned(t)
  PROVE  IInv'
<1>1. TypeOK'
    BY DEF IInv, TypeOK, CallAbandoned
<1>2. WipedUnlessReady'
    BY DEF IInv, WipedUnlessReady, CallAbandoned
<1>3. LogoutFinal'
    BY DEF IInv, LogoutFinal, CallAbandoned
<1>4. LockInv'
    BY DEF IInv, TypeOK, LockInv, CallAbandoned
<1>5. FlightInv'
    BY DEF IInv, FlightInv, CallAbandoned, OneRefresh
<1>6. SnapInv'
    BY DEF IInv, SnapInv, CallAbandoned
<1>7. SpentInv'
    BY DEF IInv, TypeOK, LockInv, SpentInv, CallAbandoned
<1>8. StaleInv'
    BY DEF IInv, StaleInv, CallAbandoned
<1>9. NoStaleToken'
    BY DEF IInv, NoStaleToken, CallAbandoned
<1>10. ErrInv'
    BY DEF IInv, ErrInv, CallAbandoned
<1>11. PermanentErrorsAreTrue'
    BY DEF IInv, PermanentErrorsAreTrue, CallAbandoned
<1> QED
    BY <1>1, <1>2, <1>3, <1>4, <1>5, <1>6, <1>7, <1>8, <1>9, <1>10, <1>11 DEF IInv

\* A recovered panic releases opMu and the followers.
LEMMA RecoverPanicPreserves ==
  ASSUME IInv, NEW t \in Threads, RecoverPanic(t)
  PROVE  IInv'
<1>1. TypeOK'
    BY DEF IInv, TypeOK, RecoverPanic, FlightDone
<1>2. WipedUnlessReady'
    BY DEF IInv, WipedUnlessReady, RecoverPanic, FlightDone
<1>3. LogoutFinal'
    BY DEF IInv, LogoutFinal, RecoverPanic, FlightDone
<1>4. LockInv'
  <2>1. opMu = t
      BY DEF IInv, LockInv, RecoverPanic
  <2>2. PICK r : FlightDone(t, r)
      BY DEF RecoverPanic
  <2> QED
      BY <2>1, <2>2, FlightDoneLock DEF IInv
<1>5. FlightInv'
    BY DEF IInv, FlightInv, RecoverPanic, OneRefresh, FlightDone
<1>6. SnapInv'
    BY DEF IInv, SnapInv, RecoverPanic, FlightDone
<1>7. SpentInv'
    BY DEF IInv, TypeOK, LockInv, SpentInv, RecoverPanic, FlightDone
<1>8. StaleInv'
    BY DEF IInv, StaleInv, RecoverPanic, FlightDone
<1>9. NoStaleToken'
    BY DEF IInv, NoStaleToken, RecoverPanic, FlightDone
<1>10. ErrInv'
    BY DEF IInv, ErrInv, RecoverPanic, FlightDone
<1>11. PermanentErrorsAreTrue'
    BY DEF IInv, PermanentErrorsAreTrue, RecoverPanic, FlightDone
<1> QED
    BY <1>1, <1>2, <1>3, <1>4, <1>5, <1>6, <1>7, <1>8, <1>9, <1>10, <1>11 DEF IInv

\* Installing the new tokens: this is where the newest token changes.
LEMMA StoreRefreshPreserves ==
  ASSUME IInv, NEW t \in Threads, StoreRefresh(t)
  PROVE  IInv'
<1>1. TypeOK'
  <2>1. nAT <= MaxRefresh /\ nRT <= nAT /\ nAT \in Nat /\ nRT \in Nat
      BY DEF IInv, TypeOK, LockInv, StoreRefresh
  <2>2. nAT' = nAT + 1 /\ nRT' \in {nRT, nRT + 1} /\ accessToken' = nAT + 1
      BY DEF StoreRefresh
  <2>3. /\ nAT' \in ATs \ {0} /\ nRT' \in RTs \ {0} /\ nRT' <= nAT'
        /\ accessToken' \in ATs
      BY <2>1, <2>2 DEF IInv, TypeOK
  <2>4. refreshToken' \in RTs
      BY <2>3 DEF IInv, TypeOK, StoreRefresh
  <2>5. Ok(accessToken') \in Results
      BY <2>3
  <2>6. FlightDone(t, Ok(accessToken'))
      BY DEF StoreRefresh
  <2>7. /\ opMu' \in Threads \cup {NoThread}
        /\ call' \in [status : {"none", "running", "done"}, res : Results]
        /\ pc' \in [Threads -> PCs]
        /\ rtArg' \in [Threads -> RTs]
        /\ ret' \in [Threads -> {"none", "rotated", "kept", "reauth", "tier",
                                 "transient"}]
        /\ resp' \in [Threads -> Results]
      BY <2>5, <2>6, FlightDoneType DEF IInv
  <2> QED
      BY <2>3, <2>4, <2>7 DEF IInv, TypeOK, StoreRefresh
<1>2. WipedUnlessReady'
    BY DEF IInv, WipedUnlessReady, LockInv, StoreRefresh, FlightDone,
       StillReady
<1>3. LogoutFinal'
    BY DEF IInv, LogoutFinal, StoreRefresh, FlightDone, StillReady
<1>4. LockInv'
  <2>1. opMu = t
      BY DEF IInv, LockInv, StoreRefresh
  <2>2. PICK r : FlightDone(t, r)
      BY DEF StoreRefresh
  <2> QED
      BY <2>1, <2>2, FlightDoneLock DEF IInv
<1>5. FlightInv'
    BY DEF IInv, FlightInv, StoreRefresh, OneRefresh, FlightDone,
       StillReady
<1>6. SnapInv'
    BY DEF IInv, SnapInv, StoreRefresh, FlightDone, StillReady
<1>7. SpentInv'
    BY DEF IInv, TypeOK, SpentInv, StoreRefresh, FlightDone, StillReady
<1>8. StaleInv'
  <2>1. /\ nAT' = nAT + 1 /\ nAT \in Nat
        /\ since' = since /\ \A u \in Threads : since[u] \in Nat
        /\ call' = Done(Ok(nAT + 1))
      BY DEF IInv, TypeOK, StoreRefresh, FlightDone
  <2>2. \A u \in Threads : since'[u] <= nAT'
      BY <2>1 DEF IInv, StaleInv
  <2> QED
      BY <2>1, <2>2 DEF StaleInv
<1>9. NoStaleToken'
    BY DEF IInv, TypeOK, FlightInv, StaleInv, NoStaleToken, StoreRefresh,
       OneRefresh, FlightDone, StillReady
<1>10. ErrInv'
    BY DEF IInv, ErrInv, StoreRefresh, FlightDone, StillReady
<1>11. PermanentErrorsAreTrue'
    BY DEF IInv, PermanentErrorsAreTrue, StoreRefresh, FlightDone,
       StillReady
<1> QED
    BY <1>1, <1>2, <1>3, <1>4, <1>5, <1>6, <1>7, <1>8, <1>9, <1>10, <1>11 DEF IInv

\* The answer of a refresh that lost against a logout is dropped.
LEMMA DiscardRefreshPreserves ==
  ASSUME IInv, NEW t \in Threads, DiscardRefresh(t)
  PROVE  IInv'
<1>1. TypeOK'
  <2>1. CASE state = "ready"
      BY <2>1, ResultTypes, FlightDoneType DEF IInv, TypeOK, DiscardRefresh
  <2>2. CASE state # "ready"
    <3>1. Err(ErrorOf(state)) \in Results
        BY ResultTypes, ErrorOfType
    <3> QED
        BY <2>2, <3>1, FlightDoneType DEF IInv, TypeOK, DiscardRefresh
  <2> QED
      BY <2>1, <2>2
<1>2. WipedUnlessReady'
    BY DEF IInv, WipedUnlessReady, DiscardRefresh, ErrorOf, FlightDone,
       StillReady
<1>3. LogoutFinal'
    BY DEF IInv, LogoutFinal, DiscardRefresh, ErrorOf, FlightDone,
       StillReady
<1>4. LockInv'
  <2>1. opMu = t
      BY DEF IInv, LockInv, DiscardRefresh
  <2>2. PICK r : FlightDone(t, r)
      BY DEF DiscardRefresh
  <2> QED
      BY <2>1, <2>2, FlightDoneLock DEF IInv
<1>5. FlightInv'
    BY DEF IInv, FlightInv, DiscardRefresh, OneRefresh, ErrorOf,
       FlightDone, StillReady
<1>6. SnapInv'
    BY DEF IInv, SnapInv, DiscardRefresh, ErrorOf, FlightDone, StillReady
<1>7. SpentInv'
  <2>1. opMu = t /\ state \in {"ready", "reauth_required"}
      BY DEF IInv, LockInv, DiscardRefresh
  <2>2. state' \in Dead /\ opMu' = NoThread
      BY <2>1 DEF DiscardRefresh, FlightDone
  <2>3. \A u \in Threads : pc[u] # "snapshot"
      BY <2>1 DEF IInv, SnapInv
  <2>4. \A u \in Threads : pc'[u] # "snapshot"
      BY <2>3 DEF DiscardRefresh, FlightDone
  <2> QED
      BY <2>2, <2>4 DEF IInv, SpentInv, DiscardRefresh
<1>8. StaleInv'
    BY DEF IInv, StaleInv, DiscardRefresh, ErrorOf, FlightDone, StillReady
<1>9. NoStaleToken'
    BY DEF IInv, NoStaleToken, DiscardRefresh, ErrorOf, FlightDone,
       StillReady
<1>10. ErrInv'
    BY DEF IInv, ErrInv, DiscardRefresh, ErrorOf, FlightDone, StillReady
<1>11. PermanentErrorsAreTrue'
    BY DEF IInv, PermanentErrorsAreTrue, DiscardRefresh, ErrorOf,
       FlightDone, StillReady
<1> QED
    BY <1>1, <1>2, <1>3, <1>4, <1>5, <1>6, <1>7, <1>8, <1>9, <1>10, <1>11 DEF IInv

\* A terminal answer ends the session, which no snapshot can share.
LEMMA RefreshRejectedPreserves ==
  ASSUME IInv, NEW t \in Threads, RefreshRejected(t)
  PROVE  IInv'
<1>1. TypeOK'
    BY DEF IInv, TypeOK, RefreshRejected, FlightDone, WipeTokens
<1>2. WipedUnlessReady'
    BY DEF IInv, WipedUnlessReady, RefreshRejected, FlightDone, WipeTokens
<1>3. LogoutFinal'
    BY DEF IInv, LogoutFinal, RefreshRejected, FlightDone, WipeTokens
<1>4. LockInv'
  <2>1. opMu = t
      BY DEF IInv, LockInv, RefreshRejected
  <2>2. PICK r : FlightDone(t, r)
      BY DEF RefreshRejected
  <2> QED
      BY <2>1, <2>2, FlightDoneLock DEF IInv
<1>5. FlightInv'
    BY DEF IInv, FlightInv, RefreshRejected, OneRefresh, FlightDone,
       WipeTokens
<1>6. SnapInv'
    BY DEF IInv, LockInv, SnapInv, RefreshRejected, FlightDone, WipeTokens
<1>7. SpentInv'
    BY DEF IInv, SpentInv, RefreshRejected, FlightDone, WipeTokens
<1>8. StaleInv'
    BY DEF IInv, StaleInv, RefreshRejected, FlightDone, WipeTokens
<1>9. NoStaleToken'
    BY DEF IInv, NoStaleToken, RefreshRejected, FlightDone, WipeTokens
<1>10. ErrInv'
    BY DEF IInv, ErrInv, RefreshRejected, FlightDone, WipeTokens
<1>11. PermanentErrorsAreTrue'
    BY DEF IInv, PermanentErrorsAreTrue, RefreshRejected, FlightDone,
       WipeTokens
<1> QED
    BY <1>1, <1>2, <1>3, <1>4, <1>5, <1>6, <1>7, <1>8, <1>9, <1>10, <1>11 DEF IInv

\* A transient failure answers with the token only while it is valid.
LEMMA RefreshTransientPreserves ==
  ASSUME IInv, NEW t \in Threads, RefreshTransient(t)
  PROVE  IInv'
<1>1. TypeOK'
    BY DEF IInv, TypeOK, RefreshTransient, FlightDone, HardValid
<1>2. WipedUnlessReady'
    BY DEF IInv, WipedUnlessReady, RefreshTransient, FlightDone, HardValid
<1>3. LogoutFinal'
    BY DEF IInv, LogoutFinal, RefreshTransient, FlightDone, HardValid
<1>4. LockInv'
  <2>1. opMu = t
      BY DEF IInv, LockInv, RefreshTransient
  <2>2. PICK r : FlightDone(t, r)
      BY DEF RefreshTransient
  <2> QED
      BY <2>1, <2>2, FlightDoneLock DEF IInv
<1>5. FlightInv'
    BY DEF IInv, FlightInv, RefreshTransient, OneRefresh, FlightDone,
       HardValid
<1>6. SnapInv'
    BY DEF IInv, SnapInv, RefreshTransient, FlightDone, HardValid
<1>7. SpentInv'
    BY DEF IInv, SpentInv, RefreshTransient, FlightDone, HardValid
<1>8. StaleInv'
    BY DEF IInv, WipedUnlessReady, StaleInv, RefreshTransient, FlightDone,
       HardValid
<1>9. NoStaleToken'
    BY DEF IInv, TypeOK, WipedUnlessReady, StaleInv, NoStaleToken,
       RefreshTransient, FlightDone, HardValid
<1>10. ErrInv'
    BY DEF IInv, LockInv, ErrInv, RefreshTransient, FlightDone, HardValid
<1>11. PermanentErrorsAreTrue'
    BY DEF IInv, PermanentErrorsAreTrue, RefreshTransient, FlightDone,
       HardValid
<1> QED
    BY <1>1, <1>2, <1>3, <1>4, <1>5, <1>6, <1>7, <1>8, <1>9, <1>10, <1>11 DEF IInv

-----------------------------------------------------------------------------
\* Handoff, RestoreHandoff, Clear.

\* Queueing on opMu changes nothing else.
LEMMA CallHandoffPreserves ==
  ASSUME IInv, NEW t \in Threads, CallHandoff(t)
  PROVE  IInv'
<1>1. TypeOK'
    BY DEF IInv, TypeOK, CallHandoff
<1>2. WipedUnlessReady'
    BY DEF IInv, WipedUnlessReady, CallHandoff
<1>3. LogoutFinal'
    BY DEF IInv, LogoutFinal, CallHandoff
<1>4. LockInv'
    BY DEF IInv, LockInv, CallHandoff
<1>5. FlightInv'
    BY DEF IInv, FlightInv, CallHandoff, OneRefresh
<1>6. SnapInv'
    BY DEF IInv, SnapInv, CallHandoff
<1>7. SpentInv'
    BY DEF IInv, SpentInv, CallHandoff
<1>8. StaleInv'
    BY DEF IInv, StaleInv, CallHandoff
<1>9. NoStaleToken'
    BY DEF IInv, NoStaleToken, CallHandoff
<1>10. ErrInv'
    BY DEF IInv, ErrInv, CallHandoff
<1>11. PermanentErrorsAreTrue'
    BY DEF IInv, PermanentErrorsAreTrue, CallHandoff
<1> QED
    BY <1>1, <1>2, <1>3, <1>4, <1>5, <1>6, <1>7, <1>8, <1>9, <1>10, <1>11 DEF IInv

\* The drain moves the newest tokens into the one snapshot.
LEMMA HandoffPreserves ==
  ASSUME IInv, NEW t \in Threads, Handoff(t)
  PROVE  IInv'
<1>1. TypeOK'
    BY DEF IInv, TypeOK, Handoff, OpMuFree, WipeTokens
<1>2. WipedUnlessReady'
    BY DEF IInv, WipedUnlessReady, Handoff, OpMuFree, WipeTokens
<1>3. LogoutFinal'
    BY DEF IInv, LogoutFinal, Handoff, OpMuFree, WipeTokens
<1>4. LockInv'
    BY DEF IInv, LockInv, Handoff, OpMuFree, WipeTokens
<1>5. FlightInv'
    BY DEF IInv, FlightInv, Handoff, OneRefresh, OpMuFree, WipeTokens
<1>6. SnapInv'
    BY DEF IInv, TypeOK, WipedUnlessReady, SnapInv, Handoff, OpMuFree,
       WipeTokens
<1>7. SpentInv'
    BY DEF IInv, SpentInv, Handoff, OpMuFree, WipeTokens
<1>8. StaleInv'
    BY DEF IInv, StaleInv, Handoff, OpMuFree, WipeTokens
<1>9. NoStaleToken'
    BY DEF IInv, NoStaleToken, Handoff, OpMuFree, WipeTokens
<1>10. ErrInv'
    BY DEF IInv, ErrInv, Handoff, OpMuFree, WipeTokens
<1>11. PermanentErrorsAreTrue'
    BY DEF IInv, PermanentErrorsAreTrue, Handoff, OpMuFree, WipeTokens
<1> QED
    BY <1>1, <1>2, <1>3, <1>4, <1>5, <1>6, <1>7, <1>8, <1>9, <1>10, <1>11 DEF IInv

\* A refused drain changes nothing.
LEMMA HandoffRefusedPreserves ==
  ASSUME IInv, NEW t \in Threads, HandoffRefused(t)
  PROVE  IInv'
<1>1. TypeOK'
    BY DEF IInv, TypeOK, HandoffRefused, OpMuFree
<1>2. WipedUnlessReady'
    BY DEF IInv, WipedUnlessReady, HandoffRefused, OpMuFree
<1>3. LogoutFinal'
    BY DEF IInv, LogoutFinal, HandoffRefused, OpMuFree
<1>4. LockInv'
    BY DEF IInv, LockInv, HandoffRefused, OpMuFree
<1>5. FlightInv'
    BY DEF IInv, FlightInv, HandoffRefused, OneRefresh, OpMuFree
<1>6. SnapInv'
    BY DEF IInv, SnapInv, HandoffRefused, OpMuFree
<1>7. SpentInv'
    BY DEF IInv, SpentInv, HandoffRefused, OpMuFree
<1>8. StaleInv'
    BY DEF IInv, StaleInv, HandoffRefused, OpMuFree
<1>9. NoStaleToken'
    BY DEF IInv, NoStaleToken, HandoffRefused, OpMuFree
<1>10. ErrInv'
    BY DEF IInv, ErrInv, HandoffRefused, OpMuFree
<1>11. PermanentErrorsAreTrue'
    BY DEF IInv, PermanentErrorsAreTrue, HandoffRefused, OpMuFree
<1> QED
    BY <1>1, <1>2, <1>3, <1>4, <1>5, <1>6, <1>7, <1>8, <1>9, <1>10, <1>11 DEF IInv

\* The rollback puts the newest tokens back.
LEMMA RestoreHandoffPreserves ==
  ASSUME IInv, NEW t \in Threads, RestoreHandoff(t)
  PROVE  IInv'
<1>1. TypeOK'
    BY DEF IInv, TypeOK, RestoreHandoff, StillHandedOff
<1>2. WipedUnlessReady'
    BY DEF IInv, WipedUnlessReady, SnapInv, RestoreHandoff, StillHandedOff
<1>3. LogoutFinal'
    BY DEF IInv, LogoutFinal, RestoreHandoff, StillHandedOff
<1>4. LockInv'
    BY DEF IInv, LockInv, RestoreHandoff, StillHandedOff
<1>5. FlightInv'
    BY DEF IInv, FlightInv, RestoreHandoff, OneRefresh, StillHandedOff
<1>6. SnapInv'
    BY DEF IInv, TypeOK, SnapInv, RestoreHandoff, StillHandedOff
<1>7. SpentInv'
    BY DEF IInv, SpentInv, RestoreHandoff, StillHandedOff
<1>8. StaleInv'
    BY DEF IInv, StaleInv, RestoreHandoff, StillHandedOff
<1>9. NoStaleToken'
    BY DEF IInv, NoStaleToken, RestoreHandoff, StillHandedOff
<1>10. ErrInv'
    BY DEF IInv, ErrInv, RestoreHandoff, StillHandedOff
<1>11. PermanentErrorsAreTrue'
    BY DEF IInv, PermanentErrorsAreTrue, RestoreHandoff, StillHandedOff
<1> QED
    BY <1>1, <1>2, <1>3, <1>4, <1>5, <1>6, <1>7, <1>8, <1>9, <1>10, <1>11 DEF IInv

\* Once the snapshot has left, there is none in the process.
LEMMA ReleaseSnapshotPreserves ==
  ASSUME IInv, NEW t \in Threads, ReleaseSnapshot(t)
  PROVE  IInv'
<1>1. TypeOK'
    BY DEF IInv, TypeOK, ReleaseSnapshot
<1>2. WipedUnlessReady'
    BY DEF IInv, WipedUnlessReady, ReleaseSnapshot
<1>3. LogoutFinal'
    BY DEF IInv, LogoutFinal, ReleaseSnapshot
<1>4. LockInv'
    BY DEF IInv, LockInv, ReleaseSnapshot
<1>5. FlightInv'
    BY DEF IInv, FlightInv, ReleaseSnapshot, OneRefresh
<1>6. SnapInv'
    BY DEF IInv, TypeOK, SnapInv, ReleaseSnapshot
<1>7. SpentInv'
    BY DEF IInv, SpentInv, ReleaseSnapshot
<1>8. StaleInv'
    BY DEF IInv, StaleInv, ReleaseSnapshot
<1>9. NoStaleToken'
    BY DEF IInv, NoStaleToken, ReleaseSnapshot
<1>10. ErrInv'
    BY DEF IInv, ErrInv, ReleaseSnapshot
<1>11. PermanentErrorsAreTrue'
    BY DEF IInv, PermanentErrorsAreTrue, ReleaseSnapshot
<1> QED
    BY <1>1, <1>2, <1>3, <1>4, <1>5, <1>6, <1>7, <1>8, <1>9, <1>10, <1>11 DEF IInv

\* Logout wipes the session under whatever is in flight.
LEMMA ClearPreserves ==
  ASSUME IInv, NEW t \in Threads, Clear(t)
  PROVE  IInv'
<1>1. TypeOK'
    BY DEF IInv, TypeOK, Clear, WipeTokens
<1>2. WipedUnlessReady'
    BY DEF IInv, WipedUnlessReady, Clear, WipeTokens
<1>3. LogoutFinal'
    BY DEF IInv, LogoutFinal, Clear, WipeTokens
<1>4. LockInv'
    BY DEF IInv, LockInv, Clear, WipeTokens
<1>5. FlightInv'
    BY DEF IInv, FlightInv, Clear, OneRefresh, WipeTokens
<1>6. SnapInv'
    BY DEF IInv, SnapInv, Clear, WipeTokens
<1>7. SpentInv'
    BY DEF IInv, SpentInv, Clear, WipeTokens
<1>8. StaleInv'
    BY DEF IInv, StaleInv, Clear, WipeTokens
<1>9. NoStaleToken'
    BY DEF IInv, NoStaleToken, Clear, WipeTokens
<1>10. ErrInv'
    BY DEF IInv, ErrInv, Clear, WipeTokens
<1>11. PermanentErrorsAreTrue'
    BY DEF IInv, PermanentErrorsAreTrue, Clear, WipeTokens
<1> QED
    BY <1>1, <1>2, <1>3, <1>4, <1>5, <1>6, <1>7, <1>8, <1>9, <1>10, <1>11 DEF IInv

\* A late reading of an abandoned request spends a token whose answer is lost.
LEMMA IdPLatePreserves ==
  ASSUME IInv, NEW rt \in wire, IdPLate(rt)
  PROVE  IInv'
<1>1. TypeOK'
  <2>1. consumed' \subseteq RTs /\ lost' \subseteq consumed' /\ wire' \subseteq RTs
      BY DEF IInv, TypeOK, IdPLate
  <2> QED
      BY <2>1 DEF IInv, TypeOK, IdPLate
<1>2. WipedUnlessReady'
    BY DEF IInv, TypeOK, WipedUnlessReady, IdPLate
<1>3. LogoutFinal'
    BY DEF IInv, TypeOK, LogoutFinal, IdPLate
<1>4. LockInv'
    BY DEF IInv, TypeOK, LockInv, IdPLate
<1>5. FlightInv'
    BY DEF IInv, TypeOK, FlightInv, IdPLate, OneRefresh
<1>6. SnapInv'
    BY DEF IInv, TypeOK, SnapInv, IdPLate
<1>7. SpentInv'
    BY DEF IInv, TypeOK, SpentInv, IdPLate
<1>8. StaleInv'
    BY DEF IInv, TypeOK, StaleInv, IdPLate
<1>9. NoStaleToken'
    BY DEF IInv, TypeOK, NoStaleToken, IdPLate
<1>10. ErrInv'
    BY DEF IInv, TypeOK, ErrInv, IdPLate
<1>11. PermanentErrorsAreTrue'
    BY DEF IInv, TypeOK, PermanentErrorsAreTrue, IdPLate
<1> QED
    BY <1>1, <1>2, <1>3, <1>4, <1>5, <1>6, <1>7, <1>8, <1>9, <1>10, <1>11 DEF IInv

\* Aging can only make answers too old that nobody can get any more.
LEMMA TickPreserves ==
  ASSUME IInv, Tick
  PROVE  IInv'
<1>1. TypeOK'
    BY DEF IInv, TypeOK, Tick
<1>2. WipedUnlessReady'
    BY DEF IInv, TypeOK, WipedUnlessReady, Tick
<1>3. LogoutFinal'
    BY DEF IInv, TypeOK, LogoutFinal, Tick
<1>4. LockInv'
    BY DEF IInv, TypeOK, LockInv, Tick
<1>5. FlightInv'
    BY DEF IInv, TypeOK, FlightInv, Tick, OneRefresh
<1>6. SnapInv'
    BY DEF IInv, TypeOK, SnapInv, Tick
<1>7. SpentInv'
    BY DEF IInv, TypeOK, SpentInv, Tick
<1>8. StaleInv'
    BY DEF IInv, TypeOK, StaleInv, Tick
<1>9. NoStaleToken'
    BY DEF IInv, TypeOK, NoStaleToken, Tick
<1>10. ErrInv'
    BY DEF IInv, TypeOK, ErrInv, Tick
<1>11. PermanentErrorsAreTrue'
    BY DEF IInv, TypeOK, PermanentErrorsAreTrue, Tick
<1> QED
    BY <1>1, <1>2, <1>3, <1>4, <1>5, <1>6, <1>7, <1>8, <1>9, <1>10, <1>11 DEF IInv

-----------------------------------------------------------------------------
\* IInv holds when the session is built from a login.
LEMMA InitIInv == Init => IInv
<1> SUFFICES ASSUME Init PROVE IInv
    OBVIOUS
<1>1. TypeOK
  <2>1. 0 \in ATs /\ 1 \in ATs /\ 0 \in 0 .. MaxRefresh + 2
      OBVIOUS
  <2>2. /\ accessToken \in ATs /\ refreshToken \in RTs
        /\ nAT \in ATs \ {0} /\ nRT \in RTs \ {0} /\ nRT <= nAT
        /\ call \in [status : {"none", "running", "done"}, res : Results]
      BY <2>1 DEF Init
  <2>3. /\ rtArg \in [Threads -> RTs] /\ resp \in [Threads -> Results]
        /\ snap \in [Threads -> Snapshots]
        /\ since \in [Threads -> 0 .. MaxRefresh + 2]
      BY <2>1 DEF Init
  <2> QED
      BY <2>2, <2>3 DEF Init, TypeOK
<1>2. WipedUnlessReady /\ LogoutFinal /\ ErrInv /\ PermanentErrorsAreTrue
    BY DEF Init, WipedUnlessReady, LogoutFinal, ErrInv, PermanentErrorsAreTrue
<1>3. LockInv /\ FlightInv /\ SnapInv
    BY DEF Init, LockInv, FlightInv, OneRefresh, SnapInv
<1>4. SpentInv /\ StaleInv /\ NoStaleToken
    BY DEF Init, SpentInv, StaleInv, NoStaleToken
<1> QED
    BY <1>1, <1>2, <1>3, <1>4 DEF IInv

\* A step that leaves every variable alone keeps IInv.
LEMMA StutterIInv == ASSUME IInv, UNCHANGED vars PROVE IInv'
  BY DEF IInv, TypeOK, WipedUnlessReady, LogoutFinal, LockInv, FlightInv,
         OneRefresh, SnapInv, SpentInv, StaleInv, NoStaleToken, ErrInv,
         PermanentErrorsAreTrue, vars

\* IInv is inductive.
LEMMA NextIInv == IInv /\ [Next]_vars => IInv'
<1> SUFFICES ASSUME IInv, [Next]_vars PROVE IInv'
    OBVIOUS
<1>1. CASE UNCHANGED vars
    BY <1>1, StutterIInv
<1>2. CASE \E rt \in wire : IdPLate(rt)
    BY <1>2, IdPLatePreserves
<1>3. CASE Tick
    BY <1>3, TickPreserves
<1>4. ASSUME NEW t \in Threads,
             Begin(t) \/ Proceed(t) \/ Acquire(t) \/ CallEnds(t) \/ EndHandoff(t)
      PROVE  IInv'
  <2>1. CASE Begin(t)
      BY <2>1, GetAccessTokenPreserves, CallHandoffPreserves, ClearPreserves DEF Begin
  <2>2. CASE Proceed(t)
      BY <2>2, LeadFlightPreserves, JoinFlightPreserves, JoinFinishedPreserves,
         FlightDeletePreserves, ReturnPreserves, StoreRefreshPreserves,
         DiscardRefreshPreserves, RefreshRejectedPreserves,
         RefreshTransientPreserves DEF Proceed
  <2>3. CASE Acquire(t)
      BY <2>3, RefreshSkippedPreserves, RefreshSendPreserves, HandoffPreserves,
         HandoffRefusedPreserves DEF Acquire
  <2>4. CASE CallEnds(t)
      BY <2>4, IdPAnswerPreserves, CallAbandonedPreserves, RecoverPanicPreserves
         DEF CallEnds
  <2>5. CASE EndHandoff(t)
      BY <2>5, RestoreHandoffPreserves, ReleaseSnapshotPreserves DEF EndHandoff
  <2> QED
      BY <1>4, <2>1, <2>2, <2>3, <2>4, <2>5
<1> QED
    BY <1>1, <1>2, <1>3, <1>4 DEF Next

\* The inductive invariant holds throughout.
THEOREM Inductive == Spec => []IInv
<1> QED
    BY InitIInv, NextIInv, PTL DEF Spec

-----------------------------------------------------------------------------
\* What IInv implies.

\* Every variable keeps its type (the state of session.go's Session, of the
\* singleflight and of the goroutines).
THEOREM TypeCorrect == Spec => []TypeOK
<1>1. IInv => TypeOK
    BY DEF IInv
<1> QED
    BY <1>1, Inductive, PTL

\* No path out of ready leaves a token in the session, and a ready session has
\* the newest tokens.
THEOREM Wiped == Spec => []WipedUnlessReady
<1>1. IInv => WipedUnlessReady
    BY DEF IInv
<1> QED
    BY <1>1, Inductive, PTL

\* A logout is final, whatever refresh or handoff it overtakes.
THEOREM Logout == Spec => []LogoutFinal
<1>1. IInv => LogoutFinal
    BY DEF IInv
<1> QED
    BY <1>1, Inductive, PTL

\* A held, sent or snapshotted refresh token was not rotated away, unless the
\* answer was lost: what opMu is for.
THEOREM Unspent == Spec => []HeldTokenUnspent
<1>1. ASSUME IInv PROVE HeldTokenUnspent
  <2> SUFFICES ASSUME NEW rt \in consumed \ lost
               PROVE  /\ state = "ready" /\ opMu = NoThread => refreshToken # rt
                      /\ \A t \in Threads : pc[t] = "call" => rtArg[t] # rt
                      /\ \A t \in Threads : pc[t] = "snapshot" => snap[t].rt # rt
      BY DEF HeldTokenUnspent
  <2>1. \A t \in Threads : ret[t] = "rotated" => opMu = t /\ pc[t] = "reply"
      BY <1>1 DEF IInv, TypeOK, LockInv
  <2>2. state = "ready" /\ opMu = NoThread => refreshToken # rt
      BY <1>1, <2>1 DEF IInv, WipedUnlessReady, SpentInv
  <2>3. ASSUME NEW t \in Threads, pc[t] = "call" PROVE rtArg[t] # rt
      BY <1>1, <2>1, <2>3 DEF IInv, LockInv, SpentInv
  <2>4. ASSUME NEW t \in Threads, pc[t] = "snapshot" PROVE snap[t].rt # rt
      BY <1>1, <2>1, <2>4 DEF IInv, SnapInv, SpentInv
  <2> QED
      BY <2>2, <2>3, <2>4
<1> QED
    BY <1>1, Inductive, PTL

\* Permanent errors are only reported of a session that is over.
THEOREM ErrorsTrue == Spec => []PermanentErrorsAreTrue
<1>1. IInv => PermanentErrorsAreTrue
    BY DEF IInv
<1> QED
    BY <1>1, Inductive, PTL

\* The last error explains a degraded or a drained session.
THEOREM Explained == Spec => []LastErrorExplains
<1>1. IInv => LastErrorExplains
    BY DEF IInv, ErrInv, LastErrorExplains, Ready
<1> QED
    BY <1>1, Inductive, PTL

\* No call is answered with a token too old for it.
THEOREM Fresh == Spec => []NoStaleToken
<1>1. IInv => NoStaleToken
    BY DEF IInv
<1> QED
    BY <1>1, Inductive, PTL

\* The singleflight runs one refresh at a time.
THEOREM SingleFlight == Spec => []OneRefresh
<1>1. IInv => OneRefresh
    BY DEF IInv, FlightInv
<1> QED
    BY <1>1, Inductive, PTL

\* A step that ends the flight leaves its result with a leader who deletes it,
\* and nobody waiting.
LEMMA EndedFlightServed ==
  ASSUME IInv, IInv', NEW t \in Threads, NEW r, FlightDone(t, r)
  PROVE  WaitsAreServed'
<1>1. call'.status = "done" /\ opMu' = NoThread /\ pc'[t] = "delete"
    BY DEF FlightDone
<1>2. \A u \in Threads : pc'[u] = "wait" => call'.status = "running"
    BY DEF IInv, FlightInv
<1> QED
    BY <1>1, <1>2 DEF WaitsAreServed

\* Whoever leads the flight keeps leading it while a step of t leaves the call
\* in the map alone and t, if it was the leader, stays in the refresh.
LEMMA LeaderStays ==
  ASSUME IInv, IInv', WaitsAreServed, NEW t \in Threads, call' = call,
         NEW at \in PCs, Goto(t, at), pc[t] # "delete",
         pc[t] \in {"refresh", "call", "reply"} => at \in {"refresh", "call", "reply"}
  PROVE  WaitsAreServed'
<1>1. \A u \in Threads : pc'[u] = IF u = t THEN at ELSE pc[u]
    BY DEF IInv, TypeOK
<1>2. call'.status = "running" =>
        \E u \in Threads : pc'[u] \in {"refresh", "call", "reply"}
    BY <1>1 DEF WaitsAreServed
<1>3. call'.status = "done" => \E u \in Threads : pc'[u] = "delete"
    BY <1>1 DEF WaitsAreServed
<1>4. /\ \A u \in Threads : pc'[u] = "wait" => call'.status = "running"
      /\ opMu' # NoThread => pc'[opMu'] \in {"call", "reply"}
    BY DEF IInv, TypeOK, FlightInv, LockInv
<1> QED
    BY <1>2, <1>3, <1>4 DEF WaitsAreServed

\* A wait is only ever replaced by another wait that somebody serves.
LEMMA NextServed ==
  ASSUME IInv, IInv', WaitsAreServed, [Next]_vars
  PROVE  WaitsAreServed'
<1>1. CASE UNCHANGED <<call, pc, opMu>>
    BY <1>1 DEF WaitsAreServed
<1>2. CASE Tick \/ UNCHANGED vars \/ \E rt \in wire : IdPLate(rt)
    BY <1>1, <1>2 DEF Tick, IdPLate, vars
<1>3. ASSUME NEW t \in Threads,
             Begin(t) \/ Proceed(t) \/ Acquire(t) \/ CallEnds(t) \/ EndHandoff(t)
      PROVE  WaitsAreServed'
  <2>1. CASE Clear(t)
      BY <1>1, <2>1 DEF Clear
  <2>2. CASE \E r : FlightDone(t, r)
      BY <2>2, EndedFlightServed
  <2>3. CASE RefreshSkipped(t) \/ StoreRefresh(t) \/ DiscardRefresh(t)
             \/ RefreshRejected(t) \/ RefreshTransient(t) \/ RecoverPanic(t)
      BY <2>2, <2>3 DEF RefreshSkipped, StoreRefresh, DiscardRefresh, RefreshRejected,
         RefreshTransient, RecoverPanic
  <2>4. CASE LeadFlight(t)
    <3>1. call'.status = "running" /\ pc'[t] = "refresh"
        BY <2>4 DEF LeadFlight, IInv, TypeOK
    <3> QED
        BY <3>1 DEF WaitsAreServed, IInv, TypeOK, FlightInv, LockInv
  <2>5. CASE FlightDelete(t)
    <3>1. call'.status = "none"
        BY <2>5 DEF FlightDelete
    <3> QED
        BY <3>1 DEF WaitsAreServed, IInv, TypeOK, FlightInv, LockInv
  <2>6. CASE GetAccessToken(t) \/ CallHandoff(t)
    <3>1. /\ call' = call /\ pc[t] = "idle"
          /\ Goto(t, "done") \/ Goto(t, "do") \/ Goto(t, "hwait")
        BY <2>6 DEF GetAccessToken, CallHandoff
    <3> QED
        BY <3>1, LeaderStays
  <2>7. CASE JoinFlight(t) \/ JoinFinished(t) \/ Return(t)
    <3>1. /\ call' = call /\ pc[t] \in {"do", "done"}
          /\ Goto(t, "wait") \/ Goto(t, "done") \/ Goto(t, "idle")
        BY <2>7 DEF JoinFlight, JoinFinished, Return
    <3> QED
        BY <3>1, LeaderStays
  <2>8. CASE RefreshSend(t) \/ IdPAnswer(t) \/ CallAbandoned(t)
    <3>1. /\ call' = call /\ pc[t] \in {"refresh", "call"}
          /\ Goto(t, "call") \/ Goto(t, "reply")
        BY <2>8 DEF RefreshSend, IdPAnswer, CallAbandoned
    <3> QED
        BY <3>1, LeaderStays
  <2>9. CASE Handoff(t) \/ HandoffRefused(t) \/ EndHandoff(t)
    <3>1. /\ call' = call /\ pc[t] \in {"hwait", "snapshot"}
          /\ Goto(t, "snapshot") \/ Goto(t, "idle")
        BY <2>9 DEF Handoff, HandoffRefused, EndHandoff, RestoreHandoff, ReleaseSnapshot
    <3> QED
        BY <3>1, LeaderStays
  <2> QED
      BY <1>3, <2>1, <2>3, <2>4, <2>5, <2>6, <2>7, <2>8, <2>9
         DEF Begin, Proceed, Acquire, CallEnds
<1> QED
    BY <1>2, <1>3 DEF Next

\* Every waiter of the session, on the flight or on opMu, waits for a goroutine
\* that can go on by itself: the part of CallsReturn that needs no fairness.
THEOREM Served == Spec => []WaitsAreServed
<1>1. Init => WaitsAreServed
    BY DEF Init, WaitsAreServed
<1> QED
    BY <1>1, NextServed, Inductive, PTL DEF Spec

\* The snapshots in transit are those of the handlers at "snapshot".
LEMMA Transit ==
  ASSUME IInv
  PROVE  /\ \A t \in Threads : snap[t] # NoSnap <=> pc[t] = "snapshot"
         /\ \A t \in Threads : pc[t] = "snapshot" =>
              {u \in Threads : snap[u] # NoSnap} = {t}
         /\ refreshToken # 0 <=> state = "ready"
         /\ state = "ready" =>
              ~exported /\ {u \in Threads : snap[u] # NoSnap} = {}
<1>1. \A t \in Threads : snap[t] # NoSnap <=> pc[t] = "snapshot"
  <2>1. nRT # 0 /\ NoSnap.rt = 0
      BY DEF IInv, TypeOK
  <2>2. \A t \in Threads : pc[t] = "snapshot" => snap[t].rt = nRT
      BY DEF IInv, SnapInv
  <2> QED
      BY <2>1, <2>2 DEF IInv, SnapInv
<1>2. \A t \in Threads : pc[t] = "snapshot" =>
        {u \in Threads : snap[u] # NoSnap} = {t}
    BY <1>1 DEF IInv, SnapInv
<1>3. refreshToken # 0 <=> state = "ready"
    BY DEF IInv, TypeOK, WipedUnlessReady
<1>4. state = "ready" => ~exported /\ {u \in Threads : snap[u] # NoSnap} = {}
    BY <1>1 DEF IInv, SnapInv
<1> QED
    BY <1>1, <1>2, <1>3, <1>4

\* The state only leaves a dead state for a dead state, and a drained session
\* revives only by the rollback of the drain.
THEOREM Sticky == Spec => StickyStates
<1> DEFINE P == /\ state \in Dead => state' \in Dead
                /\ state = "handed_off" /\ state' = "ready"
                     => \E t \in Threads : snap[t] # NoSnap
<1>1. ASSUME IInv, [Next]_vars PROVE [P]_vars
  <2>1. CASE UNCHANGED vars
      BY <2>1
  <2>2. CASE Tick \/ \E rt \in wire : IdPLate(rt)
      BY <2>2 DEF Tick, IdPLate
  <2>3. ASSUME NEW t \in Threads,
               Begin(t) \/ Proceed(t) \/ Acquire(t) \/ CallEnds(t) \/ EndHandoff(t)
        PROVE  P
    <3>1. CASE Begin(t)
        BY <3>1 DEF Begin, GetAccessToken, CallHandoff, Clear
    <3>2. CASE Proceed(t)
        BY <3>2 DEF Proceed, LeadFlight, JoinFlight, JoinFinished, FlightDelete,
           Return, StoreRefresh, StillReady, DiscardRefresh, RefreshRejected,
           RefreshTransient
    <3>3. CASE Acquire(t)
        BY <3>3 DEF Acquire, RefreshSkipped, RefreshSend, Handoff, HandoffRefused
    <3>4. CASE CallEnds(t)
        BY <3>4 DEF CallEnds, IdPAnswer, CallAbandoned, RecoverPanic
    <3>5. CASE EndHandoff(t)
      <4>1. pc[t] = "snapshot" => snap[t] # NoSnap
          BY <1>1, Transit
      <4> QED
          BY <3>5, <4>1 DEF EndHandoff, RestoreHandoff, StillHandedOff, ReleaseSnapshot
    <3> QED
        BY <2>3, <3>1, <3>2, <3>3, <3>4, <3>5
  <2> QED
      BY <1>1, <2>1, <2>2, <2>3 DEF Next
<1> QED
    BY <1>1, Inductive, PTL DEF Spec, StickyStates

-----------------------------------------------------------------------------
\* The session implements Custody.

\* Steps that move no credentials stutter in Custody.
LEMMA NoMove ==
  ASSUME UNCHANGED <<refreshToken, snap, exported, nRT>>
  PROVE  UNCHANGED C!custodyVars
  BY DEF C!custodyVars

\* A step of Session is a step of Custody, or moves no credentials.
LEMMA CustodyStep ==
  ASSUME IInv, IInv', [Next]_vars
  PROVE  [C!Next]_(C!custodyVars)
<1> USE Transit
<1>a. refreshToken' # 0 <=> state' = "ready"
    BY DEF IInv, TypeOK, WipedUnlessReady
<1>1. CASE UNCHANGED vars
    BY <1>1, NoMove DEF vars
<1>2. CASE Tick \/ \E rt \in wire : IdPLate(rt)
    BY <1>2, NoMove DEF Tick, IdPLate
<1>3. ASSUME NEW t \in Threads,
             Begin(t) \/ Proceed(t) \/ Acquire(t) \/ CallEnds(t) \/ EndHandoff(t)
      PROVE  [C!Next]_(C!custodyVars)
  <2>1. CASE GetAccessToken(t) \/ CallHandoff(t)
      BY <2>1, NoMove DEF GetAccessToken, CallHandoff
  <2>2. CASE Clear(t)
    <3>1. CASE state = "ready"
        BY <2>2, <3>1 DEF Clear, WipeTokens, C!Next, C!Wipe, C!OnlySession
    <3>2. CASE state # "ready"
        BY <2>2, <3>2, NoMove DEF Clear, WipeTokens
    <3> QED
        BY <3>1, <3>2
  <2>3. CASE LeadFlight(t) \/ JoinFlight(t) \/ JoinFinished(t) \/ FlightDelete(t)
             \/ Return(t) \/ RefreshTransient(t) \/ DiscardRefresh(t)
      BY <2>3, NoMove DEF LeadFlight, JoinFlight, JoinFinished, FlightDelete, Return,
         RefreshTransient, DiscardRefresh
  <2>4. CASE StoreRefresh(t)
    <3>1. state = "ready" /\ state' = "ready" /\ UNCHANGED <<snap, exported>>
        BY <2>4 DEF StoreRefresh, StillReady
    <3>2. CASE ret[t] = "rotated"
        BY <1>a, <2>4, <3>1, <3>2 DEF StoreRefresh, C!Next, C!Rotate, C!OnlySession
    <3>3. CASE ret[t] = "kept"
        BY <1>a, <2>4, <3>1, <3>3 DEF StoreRefresh, C!custodyVars
    <3> QED
        BY <2>4, <3>2, <3>3 DEF StoreRefresh
  <2>5. CASE RefreshRejected(t)
    <3>1. CASE state = "ready"
        BY <2>5, <3>1 DEF RefreshRejected, WipeTokens, C!Next, C!Wipe, C!OnlySession
    <3>2. CASE state # "ready"
        BY <2>5, <3>2, NoMove DEF RefreshRejected, WipeTokens
    <3> QED
        BY <3>1, <3>2
  <2>6. CASE RefreshSkipped(t) \/ RefreshSend(t) \/ HandoffRefused(t)
      BY <2>6, NoMove DEF RefreshSkipped, RefreshSend, HandoffRefused
  <2>7. CASE Handoff(t)
    <3>1. state = "ready" /\ state' # "ready" /\ pc'[t] = "snapshot"
        BY <2>7 DEF Handoff, IInv, TypeOK
    <3>2. snap'[t].rt # 0 /\ \A u \in Threads : u # t => snap'[u] = NoSnap
        BY <2>7, <3>1 DEF Handoff, IInv, TypeOK
    <3>3. {u \in Threads : snap'[u] # NoSnap} = {t}
      <4>1. NoSnap.rt = 0
          OBVIOUS
      <4> QED
          BY <3>2, <4>1
    <3>4. C!Drain(t)
        BY <1>a, <2>7, <3>1, <3>3 DEF Handoff, C!Drain, C!OnlySession
    <3> QED
        BY <3>4 DEF C!Next
  <2>8. CASE CallEnds(t)
      BY <2>8, NoMove DEF CallEnds, IdPAnswer, CallAbandoned, RecoverPanic
  <2>9. CASE RestoreHandoff(t)
    <3>1. /\ pc[t] = "snapshot" /\ ~exported /\ state # "ready"
          /\ UNCHANGED <<exported, nRT>>
        BY <2>9 DEF RestoreHandoff, IInv, SnapInv
    <3>2. \A u \in Threads : snap'[u] = NoSnap
        BY <2>9, <3>1 DEF RestoreHandoff, IInv, TypeOK, SnapInv
    <3>3. CASE state' = "ready"
        BY <1>a, <3>1, <3>2, <3>3 DEF C!Next, C!Restore, C!OnlyTransit
    <3>4. CASE state' # "ready"
        BY <1>a, <3>1, <3>2, <3>4 DEF C!Next, C!Wipe, C!OnlyTransit
    <3> QED
        BY <3>3, <3>4
  <2>10. CASE ReleaseSnapshot(t)
    <3>1. /\ pc[t] = "snapshot" /\ ~exported /\ state # "ready"
          /\ UNCHANGED <<refreshToken, nRT>> /\ exported' = TRUE
        BY <2>10 DEF ReleaseSnapshot, IInv, SnapInv
    <3>2. \A u \in Threads : snap'[u] = NoSnap
        BY <2>10, <3>1 DEF ReleaseSnapshot, IInv, TypeOK, SnapInv
    <3> QED
        BY <3>1, <3>2 DEF C!Next, C!Export, C!OnlyTransit
  <2> QED
      BY <1>3, <2>1, <2>2, <2>3, <2>4, <2>5, <2>6, <2>7, <2>8, <2>9, <2>10
         DEF Begin, Proceed, Acquire, CallEnds, EndHandoff
<1> QED
    BY <1>1, <1>2, <1>3 DEF Next

\* A new session holds its credentials, and nobody else does.
LEMMA CustodyInit == Init => C!Init
<1> SUFFICES ASSUME Init PROVE C!Init
    OBVIOUS
<1>1. {t \in Threads : snap[t] # NoSnap} = {}
    BY DEF Init
<1> QED
    BY <1>1 DEF Init, C!Init, C!OnlySession

\* At most one party holds the credentials, only the session rotates them, and
\* what was exported or wiped never comes back.
THEOREM Implements == Spec => CustodyKept
<1> QED
    BY CustodyInit, CustodyStep, Inductive, PTL DEF Spec, CustodyKept, C!Spec

=============================================================================
