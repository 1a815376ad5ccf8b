---------------------- MODULE ConnectionLifecycleProofs ----------------------
(* Type correctness and NoGap of ConnectionLifecycle, for any number of  *)
(* overlapping passes, any clock, and any rewind that covers the longest *)
(* pass plus the longest backdating (RewindAssumption).                  *)
EXTENDS ConnectionLifecycle, TLAPS

(*****************************************************************************)
(* NoGap alone is not inductive: the commit of a pass moves last_sync_at     *)
(* to the present on the strength of an answer read days before.  What a     *)
(* pass in flight knows of the missing operations has to be carried along.   *)
(*****************************************************************************)

(* No request outlives Flight, and the cursor is never ahead of the clock. *)
Clocked ==
    /\ lastSync <= now
    /\ \A p \in Passes : pass[p].pc # "idle" =>
          pass[p].from <= now /\ now - pass[p].from <= Flight
    /\ callback.pc # "idle" =>
          callback.from <= now /\ now - callback.from <= Flight

(* Before the first link's commit there is no row and nothing runs on it.  *)
LinkFirst ==
    /\ status = "none" => \A p \in Passes : pass[p].pc = "idle"
    /\ callback.pc \in {"linking", "linked"} => status = "none"

(* What a pass has not read yet it will ask for, or it is recent.          *)
WillAsk ==
    \A p \in Passes : pass[p].pc = "reading" =>
        \A d \in Missing : d >= pass[p].since \/ d >= pass[p].from - Lag

(* What a pass did not read is recent.                                     *)
HasRead ==
    /\ \A p \in Passes : pass[p].pc = "read" =>
          \A d \in Missing :
              d \in pass[p].got \cup pass[p].missed \/ d >= pass[p].from - Lag
    /\ callback.pc = "linked" =>
          \A d \in posted \ callback.got : d >= callback.from - Lag

IInv == TypeOK /\ Clocked /\ LinkFirst /\ WillAsk /\ HasRead /\ NoGap

-----------------------------------------------------------------------------
LEMMA InitIInv == Init => IInv
<1> SUFFICES ASSUME Init PROVE IInv
  OBVIOUS
<1> USE DEF Init
<1>1. TypeOK
  <2>1. PassIdle \in PassState
    BY ConstantsAssumption
    DEF PassIdle, PassState, Days, Consents, Statuses, Live
  <2>2. CallbackIdle \in CallbackState
    BY ConstantsAssumption
    DEF CallbackIdle, CallbackState, Days, Consents, Statuses, Live, Never
  <2>3. 0 \in Days /\ 0 \in Consents /\ 0 \in 0..MaxFaults
    BY ConstantsAssumption DEF Days, Consents
  <2>4. status \in Statuses
    BY DEF Statuses
  <2> QED
    BY <2>1, <2>2, <2>3, <2>4 DEF TypeOK
<1>2. \A p \in Passes : pass[p].pc = "idle"
  BY DEF PassIdle
<1>3. callback.pc = "idle"
  BY DEF CallbackIdle
<1>4. Clocked /\ LinkFirst
  BY <1>2, <1>3 DEF Clocked, LinkFirst, Never
<1>5. WillAsk /\ HasRead
  BY <1>2, <1>3 DEF WillAsk, HasRead
<1>6. NoGap
  BY DEF NoGap, Live
<1> QED
  BY <1>1, <1>4, <1>5, <1>6 DEF IInv

(* A pass that begins has loaded a well-formed copy of the row.            *)
LEMMA LoadTyped ==
    ASSUME TypeOK, NEW p \in Passes, Load(p)
    PROVE  pass' \in [Passes -> PassState]
<1>1. Since(lastSync) \in Int
  BY ConstantsAssumption DEF TypeOK, Since, Days, Never
<1>2. [PassIdle EXCEPT !.pc = "reading", !.creds = creds, !.status = status,
                       !.since = Since(lastSync), !.from = now] \in PassState
  BY <1>1 DEF TypeOK, PassIdle, PassState, Days, Consents
<1> QED
  BY <1>2 DEF Load, TypeOK

LEMMA FinishTyped ==
    ASSUME TypeOK, NEW p \in Passes, Finish(p)
    PROVE  pass' \in [Passes -> PassState]
<1>1. PassIdle \in PassState
  BY ConstantsAssumption DEF PassIdle, PassState, Days, Consents, Statuses, Live
<1> QED
  BY <1>1 DEF Finish, TypeOK

LEMMA CallbackIdleTyped == CallbackIdle \in CallbackState
  BY ConstantsAssumption
  DEF CallbackIdle, CallbackState, Days, Consents, Statuses, Live, Never

LEMMA TypeStep == TypeOK /\ [Next]_vars => TypeOK'
<1> SUFFICES ASSUME TypeOK, [Next]_vars PROVE TypeOK'
  OBVIOUS
<1> USE ConstantsAssumption DEF row, bank, books
<1>1. CASE Day
  BY <1>1 DEF Day, TypeOK, Days
<1>2. CASE Post
  BY <1>2 DEF Post, TypeOK
<1>3. CASE Lapse
  BY <1>3 DEF Lapse, TypeOK
<1>4. CASE Beat
  BY <1>4 DEF Beat, TypeOK
<1>5. ASSUME NEW p \in Passes, ManualSync(p) PROVE TypeOK'
  <2>1. pass' \in [Passes -> PassState]
    BY <1>5, LoadTyped DEF ManualSync
  <2> QED
    BY <1>5, <2>1 DEF ManualSync, TypeOK
<1>6. ASSUME NEW p \in Passes, ScheduledSync(p) PROVE TypeOK'
  <2>1. pass' \in [Passes -> PassState]
    BY <1>6, LoadTyped DEF ScheduledSync, TypeOK
  <2> QED
    BY <1>6, <2>1 DEF ScheduledSync, TypeOK
<1>7. ASSUME NEW p \in Passes, Read(p) PROVE TypeOK'
  <2>1. pass' \in [Passes -> PassState]
    <3> DEFINE served == {d \in posted : d >= pass[p].since}
               got == IF closed THEN {} ELSE served
               missed == IF closed THEN served ELSE {}
    <3>1. got \subseteq Days /\ missed \subseteq Days
      BY DEF TypeOK
    <3>2. pass' = [pass EXCEPT ![p] = [pass[p] EXCEPT !.pc = "read", !.got = got,
                                                      !.missed = missed]]
      BY <1>7 DEF Read, TypeOK
    <3>3. [pass[p] EXCEPT !.pc = "read", !.got = got, !.missed = missed] \in PassState
      BY <3>1 DEF TypeOK, PassState
    <3> QED
      BY <3>2, <3>3 DEF TypeOK
  <2> QED
    BY <1>7, <2>1 DEF Read, TypeOK
<1>8. ASSUME NEW p \in Passes, Commit(p) PROVE TypeOK'
  <2>1. pass' \in [Passes -> PassState]
    BY <1>8, FinishTyped DEF Commit
  <2>2. pass[p].got \subseteq Days /\ pass[p].missed \subseteq Days
    BY DEF TypeOK, PassState
  <2> QED
    BY <1>8, <2>1, <2>2 DEF Commit, TypeOK, Statuses, Live
<1>9. ASSUME NEW p \in Passes, CommitGone(p) PROVE TypeOK'
  BY <1>9, FinishTyped DEF CommitGone, TypeOK
<1>10. ASSUME NEW p \in Passes, NEW k \in Kinds, Fail(p, k) PROVE TypeOK'
  <2>1. pass' \in [Passes -> PassState]
    BY <1>10, FinishTyped DEF Fail
  <2>2. status' \in Statuses
    <3>1. Outcome(k, status) \in Statuses
      BY DEF Outcome, Kinds, TypeOK, Statuses, Live
    <3> QED
      BY <1>10, <3>1 DEF Fail, TypeOK
  <2>3. faults' \in 0..MaxFaults
    BY <1>10 DEF Fail, TypeOK
  <2> QED
    BY <1>10, <2>1, <2>2, <2>3 DEF Fail, TypeOK
<1>11. CASE LinkBegin
  <2>1. granted' \in Consents
    BY <1>11 DEF LinkBegin, TypeOK, Consents
  <2>2. callback' \in CallbackState
    BY <1>11, <2>1, CallbackIdleTyped DEF LinkBegin, TypeOK, CallbackState
  <2> QED
    BY <1>11, <2>1, <2>2 DEF LinkBegin, TypeOK
<1>12. CASE LinkRead
  BY <1>12 DEF LinkRead, TypeOK, CallbackState
<1>13. CASE LinkCommit
  <2>1. callback.creds \in Consents /\ callback.got \subseteq Days
    BY DEF TypeOK, CallbackState
  <2> QED
    BY <1>13, <2>1, CallbackIdleTyped DEF LinkCommit, TypeOK, Statuses, Live
<1>14. CASE ReconnectBegin
  <2>1. granted' \in Consents
    BY <1>14 DEF ReconnectBegin, TypeOK, Consents
  <2>2. callback' \in CallbackState
    BY <1>14, <2>1, CallbackIdleTyped DEF ReconnectBegin, TypeOK, CallbackState
  <2> QED
    BY <1>14, <2>1, <2>2 DEF ReconnectBegin, TypeOK
<1>15. CASE ReconnectCommit
  <2>1. callback.creds \in Consents
    BY DEF TypeOK, CallbackState
  <2> QED
    BY <1>15, <2>1, CallbackIdleTyped
    DEF ReconnectCommit, TypeOK, Statuses, Live
<1>16. CASE CallbackFail
  BY <1>16, CallbackIdleTyped DEF CallbackFail, TypeOK
<1>17. CASE Delete
  BY <1>17 DEF Delete, TypeOK, Statuses
<1>18. CASE CloseAccount
  BY <1>18 DEF CloseAccount, TypeOK
<1>19. CASE ReopenAccount
  BY <1>19 DEF ReopenAccount, TypeOK
<1>20. CASE UNCHANGED vars
  BY <1>20 DEF vars, TypeOK
<1> QED
  BY <1>1, <1>2, <1>3, <1>4, <1>5, <1>6, <1>7, <1>8, <1>9, <1>10, <1>11,
     <1>12, <1>13, <1>14, <1>15, <1>16, <1>17, <1>18, <1>19, <1>20
  DEF Next, Running, Callback

(* TypeOK holds in every reachable state.                                  *)
THEOREM TypeCorrect == Spec => []TypeOK
<1>1. Init => TypeOK
  BY InitIInv DEF IInv
<1> QED
  BY <1>1, TypeStep, PTL DEF Spec

-----------------------------------------------------------------------------
(* Beginning a pass keeps the invariant: the cursor it loads bounds what *)
(* is missing now.                                                       *)
LEMMA LoadKeeps ==
    ASSUME IInv, NEW p \in Passes, status \in Live, Load(p),
           UNCHANGED <<now, row, callback, posted, books>>
    PROVE  Clocked' /\ LinkFirst' /\ WillAsk' /\ HasRead' /\ NoGap'
<1> USE ConstantsAssumption DEF IInv, row, books
<1>1. /\ pass'[p].pc = "reading"
      /\ pass'[p].since = Since(lastSync)
      /\ pass'[p].from = now
      /\ \A q \in Passes \ {p} : pass'[q] = pass[q]
  BY DEF Load, TypeOK, PassIdle
<1>2. now \in Int /\ lastSync \in Int /\ posted \subseteq Int
  BY DEF TypeOK, Days, Never
<1>3. Missing' = Missing
  BY DEF Missing
<1>4. \A d \in Missing : d >= Since(lastSync)
  BY DEF NoGap, Since, Missing, TypeOK, Days
<1>5. Clocked'
  BY <1>1, <1>2 DEF Clocked
<1>6. LinkFirst'
  BY <1>1 DEF LinkFirst, Live
<1>7. WillAsk'
  BY <1>1, <1>3, <1>4 DEF WillAsk
<1>8. HasRead'
  BY <1>1, <1>3 DEF HasRead
<1>9. NoGap'
  BY <1>3 DEF NoGap
<1> QED
  BY <1>5, <1>6, <1>7, <1>8, <1>9

(* So does ending one without a commit.                                    *)
LEMMA FinishKeeps ==
    ASSUME IInv, NEW p \in Passes, Finish(p), status \in Live \cup {"gone"},
           status' \in Live <=> status \in Live, status' # "none",
           UNCHANGED <<now, lastSync, callback, posted, books>>
    PROVE  Clocked' /\ LinkFirst' /\ WillAsk' /\ HasRead' /\ NoGap'
<1> USE DEF IInv, books
<1>1. pass'[p].pc = "idle" /\ \A q \in Passes \ {p} : pass'[q] = pass[q]
  BY DEF Finish, TypeOK, PassIdle
<1>2. Missing' = Missing
  BY DEF Missing
<1>3. Clocked'
  BY <1>1 DEF Clocked
<1>4. LinkFirst'
  BY <1>1 DEF LinkFirst, Live
<1>5. WillAsk' /\ HasRead'
  BY <1>1, <1>2 DEF WillAsk, HasRead
<1>6. NoGap'
  BY <1>2 DEF NoGap
<1> QED
  BY <1>3, <1>4, <1>5, <1>6

(* The heart of the argument: what the pass did not read is no older than *)
(* its beginning less the backdating, hence than the new cursor less the  *)
(* rewind.                                                                *)
LEMMA CommitKeeps ==
    ASSUME IInv, NEW p \in Passes, Commit(p)
    PROVE  Clocked' /\ LinkFirst' /\ WillAsk' /\ HasRead' /\ NoGap'
<1> USE ConstantsAssumption DEF IInv
<1>1. pass'[p].pc = "idle" /\ \A q \in Passes \ {p} : pass'[q] = pass[q]
  BY DEF Commit, Finish, TypeOK, PassIdle
<1>2. now \in Int /\ pass[p].from \in Int /\ posted \subseteq Int
  BY DEF TypeOK, PassState, Days
<1>3. Missing' = Missing \ (pass[p].got \cup pass[p].missed)
  BY DEF Commit, Missing, bank
<1>4. status \in Live /\ status' \in Live
  BY DEF Commit, Live
<1>5. Clocked'
  BY <1>1, <1>2 DEF Commit, Clocked
<1>6. LinkFirst'
  BY <1>1, <1>4 DEF Commit, LinkFirst, Live
<1>7. WillAsk'
  BY <1>1, <1>3 DEF WillAsk
<1>8. HasRead'
  BY <1>1, <1>3 DEF Commit, HasRead, bank
<1>9. NoGap'
  <2>1. now - pass[p].from <= Flight
    BY DEF Commit, Clocked
  <2>2. \A d \in Missing' : d >= pass[p].from - Lag
    BY <1>3 DEF Commit, HasRead
  <2>3. \A d \in Missing' : d \in Int
    BY <1>2, <1>3 DEF Missing
  <2>4. \A d \in Missing' : d >= now - Rewind
    BY <1>2, <2>1, <2>2, <2>3, RewindAssumption
  <2> QED
    BY <2>4 DEF Commit, NoGap
<1> QED
  BY <1>5, <1>6, <1>7, <1>8, <1>9

(* An operation that appears now is recent for everybody.                  *)
LEMMA PostKeeps ==
    ASSUME IInv, Post
    PROVE  Clocked' /\ LinkFirst' /\ WillAsk' /\ HasRead' /\ NoGap'
<1> USE ConstantsAssumption DEF IInv, Post, row, books
<1>1. PICK d \in Days : d >= now - Lag /\ posted' = posted \cup {d}
  OBVIOUS
<1>2. Missing' \subseteq Missing \cup {d}
  BY <1>1 DEF Missing
<1>3. /\ now \in Int /\ lastSync \in Int /\ d \in Int
      /\ \A p \in Passes : pass[p].from \in Int /\ pass[p].since \in Int
      /\ callback.from \in Int
  BY DEF TypeOK, PassState, CallbackState, Days, Never
<1>4. Clocked' /\ LinkFirst'
  BY DEF Clocked, LinkFirst
<1>5. \A p \in Passes : pass[p].pc # "idle" => d >= pass[p].from - Lag
  BY <1>1, <1>3 DEF Clocked
<1>6. WillAsk'
  BY <1>2, <1>5 DEF WillAsk
<1>7. HasRead'
  <2>1. callback.pc = "linked" => d >= callback.from - Lag
    BY <1>1, <1>3 DEF Clocked
  <2> QED
    BY <1>1, <1>2, <1>5, <2>1 DEF HasRead
<1>8. NoGap'
  <2>1. d >= lastSync - Rewind
    BY <1>1, <1>3, RewindAssumption DEF Clocked
  <2> QED
    BY <1>2, <2>1 DEF NoGap
<1> QED
  BY <1>4, <1>6, <1>7, <1>8

-----------------------------------------------------------------------------
LEMMA IInvStep == IInv /\ [Next]_vars => IInv'
<1> SUFFICES ASSUME IInv, [Next]_vars PROVE IInv'
  OBVIOUS
<1> DEFINE Rest == Clocked /\ LinkFirst /\ WillAsk /\ HasRead /\ NoGap
<1> USE ConstantsAssumption DEF IInv, row, bank, books
<1>0. TypeOK'
  BY TypeStep
<1> SUFFICES Rest'
  BY <1>0
<1>1. CASE Day
  <2>1. now \in Int /\ now' \in Int /\ lastSync \in Int /\ callback.from \in Int
        /\ \A p \in Passes : pass[p].from \in Int
    BY <1>1 DEF Day, TypeOK, PassState, CallbackState, Days, Never
  <2>2. Clocked'
    BY <1>1, <2>1 DEF Day, Clocked
  <2> QED
    BY <1>1, <2>2 DEF Day, LinkFirst, WillAsk, HasRead, NoGap, Missing
<1>2. CASE Post
  BY <1>2, PostKeeps
<1>3. CASE Lapse
  BY <1>3 DEF Lapse, Clocked, LinkFirst, WillAsk, HasRead, NoGap, Missing
<1>4. CASE Beat
  BY <1>4 DEF Beat, Clocked, LinkFirst, WillAsk, HasRead, NoGap, Missing
<1>5. ASSUME NEW p \in Passes, ManualSync(p) PROVE Rest'
  BY <1>5, LoadKeeps DEF ManualSync
<1>6. ASSUME NEW p \in Passes, ScheduledSync(p) PROVE Rest'
  <2>1. CASE status \in Live
    BY <1>6, <2>1, LoadKeeps DEF ScheduledSync
  <2>2. CASE status \notin Live
    BY <1>6, <2>2
    DEF ScheduledSync, Clocked, LinkFirst, WillAsk, HasRead, NoGap, Missing
  <2> QED
    BY <2>1, <2>2
<1>7. ASSUME NEW p \in Passes, Read(p) PROVE Rest'
  <2> DEFINE served == {d \in posted : d >= pass[p].since}
  <2>1. /\ pass[p].pc = "reading"
        /\ pass'[p].pc = "read"
        /\ pass'[p].from = pass[p].from
        /\ pass'[p].got \cup pass'[p].missed = served
        /\ \A q \in Passes \ {p} : pass'[q] = pass[q]
    BY <1>7 DEF Read, TypeOK, PassState
  <2>2. UNCHANGED <<now, row, callback, posted, books>> /\ Missing' = Missing
    BY <1>7 DEF Read, Missing
  <2>3. Clocked'
    BY <2>1, <2>2 DEF Clocked
  <2>4. LinkFirst'
    BY <2>1, <2>2 DEF LinkFirst
  <2>5. WillAsk'
    BY <2>1, <2>2 DEF WillAsk
  <2>6. HasRead'
    <3>1. \A d \in Missing : d \in served \/ d >= pass[p].from - Lag
      BY <2>1 DEF WillAsk, Missing
    <3> QED
      BY <2>1, <2>2, <3>1 DEF HasRead
  <2>7. NoGap'
    BY <2>2 DEF NoGap
  <2> QED
    BY <2>3, <2>4, <2>5, <2>6, <2>7
<1>8. ASSUME NEW p \in Passes, Commit(p) PROVE Rest'
  BY <1>8, CommitKeeps
<1>9. ASSUME NEW p \in Passes, CommitGone(p) PROVE Rest'
  BY <1>9, FinishKeeps DEF CommitGone
<1>10. ASSUME NEW p \in Passes, NEW k \in Kinds, Fail(p, k) PROVE Rest'
  <2>1. status \in Live \cup {"gone"}
    BY <1>10 DEF Fail, LinkFirst, TypeOK, Statuses
  <2>2. (status' \in Live <=> status \in Live) /\ status' # "none"
    <3>1. Outcome(k, status) \in Live
      BY DEF Outcome, Kinds, Live
    <3> QED
      BY <1>10, <2>1, <3>1 DEF Fail, Live
  <2> QED
    BY <1>10, <2>1, <2>2, FinishKeeps DEF Fail
<1>11. CASE LinkBegin
  <2>1. callback'.pc = "linking" /\ callback'.from = now
    BY <1>11 DEF LinkBegin, CallbackIdle
  <2>2. now \in Int
    BY DEF TypeOK, Days
  <2> QED
    BY <1>11, <2>1, <2>2
    DEF LinkBegin, Clocked, LinkFirst, WillAsk, HasRead, NoGap, Missing
<1>12. CASE LinkRead
  <2>1. /\ callback.pc = "linking"
        /\ callback'.pc = "linked"
        /\ callback'.from = callback.from
        /\ callback'.got = posted
    BY <1>12 DEF LinkRead, TypeOK, CallbackState
  <2> QED
    BY <1>12, <2>1
    DEF LinkRead, Clocked, LinkFirst, WillAsk, HasRead, NoGap, Missing
<1>13. CASE LinkCommit
  <2>1. callback'.pc = "idle" /\ callback.pc = "linked" /\ status' = "active"
    BY <1>13 DEF LinkCommit, CallbackIdle
  <2>2. \A p \in Passes : pass'[p].pc = "idle"
    BY <1>13, <2>1 DEF LinkCommit, LinkFirst
  <2>3. now \in Int /\ callback.from \in Int /\ posted \subseteq Int
    BY DEF TypeOK, CallbackState, Days
  <2>4. Clocked'
    BY <1>13, <2>1, <2>2, <2>3 DEF LinkCommit, Clocked
  <2>5. LinkFirst' /\ WillAsk' /\ HasRead'
    BY <2>1, <2>2 DEF LinkFirst, WillAsk, HasRead
  <2>6. NoGap'
    <3>1. \A d \in Missing' : d \in posted \ callback.got
      BY <1>13 DEF LinkCommit, Missing
    <3>2. now - callback.from <= Flight
      BY <2>1 DEF Clocked
    <3>3. \A d \in Missing' : d >= callback.from - Lag
      BY <2>1, <3>1 DEF HasRead
    <3>4. ASSUME NEW d \in Missing' PROVE d >= now - Rewind
      <4>1. d \in Int
        BY <2>3, <3>1
      <4>2. d >= callback.from - Lag
        BY <3>3
      <4> QED
        BY <2>3, <3>2, <4>1, <4>2, RewindAssumption
    <3> QED
      BY <1>13, <3>4 DEF LinkCommit, NoGap
  <2> QED
    BY <2>4, <2>5, <2>6
<1>14. CASE ReconnectBegin
  <2>1. callback'.pc = "reconnecting" /\ callback'.from = now
    BY <1>14 DEF ReconnectBegin, CallbackIdle
  <2>2. now \in Int
    BY DEF TypeOK, Days
  <2> QED
    BY <1>14, <2>1, <2>2
    DEF ReconnectBegin, Clocked, LinkFirst, WillAsk, HasRead, NoGap, Missing
<1>15. CASE ReconnectCommit
  <2>1. callback'.pc = "idle"
    BY <1>15 DEF ReconnectCommit, CallbackIdle
  <2>2. now \in Int /\ now >= Never
    BY DEF TypeOK, Days, Never
  <2>3. Clocked'
    BY <1>15, <2>1, <2>2 DEF ReconnectCommit, Clocked
  <2>4. LinkFirst' /\ WillAsk' /\ HasRead'
    BY <1>15, <2>1
    DEF ReconnectCommit, LinkFirst, WillAsk, HasRead, Missing, Live
  <2>5. NoGap'
    BY <1>15 DEF ReconnectCommit, NoGap, Missing
  <2> QED
    BY <2>3, <2>4, <2>5
<1>16. CASE CallbackFail
  <2>1. callback'.pc = "idle"
    BY <1>16 DEF CallbackFail, CallbackIdle
  <2> QED
    BY <1>16, <2>1
    DEF CallbackFail, Clocked, LinkFirst, WillAsk, HasRead, NoGap, Missing
<1>17. CASE Delete
  BY <1>17
  DEF Delete, Clocked, LinkFirst, WillAsk, HasRead, NoGap, Missing, Live
<1>18. CASE CloseAccount
  BY <1>18 DEF CloseAccount, Clocked, LinkFirst, WillAsk, HasRead, NoGap, Missing
<1>19. CASE ReopenAccount
  BY <1>19 DEF ReopenAccount, Clocked, LinkFirst, WillAsk, HasRead, NoGap, Missing
<1>20. CASE UNCHANGED vars
  BY <1>20 DEF vars, Clocked, LinkFirst, WillAsk, HasRead, NoGap, Missing
<1> QED
  BY <1>1, <1>2, <1>3, <1>4, <1>5, <1>6, <1>7, <1>8, <1>9, <1>10, <1>11,
     <1>12, <1>13, <1>14, <1>15, <1>16, <1>17, <1>18, <1>19, <1>20
  DEF Next, Running, Callback

(* No operation is ever left behind the reach of the next pass, for any  *)
(* number of overlapping passes and any order of their commits, failures *)
(* and reconnects: what sync_connection's 14-day rewind is there for.    *)
THEOREM NothingLeftBehind == Spec => []NoGap
<1>1. Init => IInv
  BY InitIInv
<1>2. IInv /\ [Next]_vars => IInv'
  BY IInvStep
<1>3. IInv => NoGap
  BY DEF IInv
<1> QED
  BY <1>1, <1>2, <1>3, PTL DEF Spec
=============================================================================
