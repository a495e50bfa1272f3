----------------------- MODULE ReplanReservationProofs -----------------------
(***************************************************************************)
(* Proofs about ReplanReservation, for any number of replan calls, with    *)
(* and without hard links, and whatever faults happen: calls that die      *)
(* anywhere, reads that fail, calls that stall between two steps.  Type    *)
(* correctness is unconditional.  That a running replan stays announced,   *)
(* that nobody else removes its reservation, and that the reservation is a *)
(* lock as PlanLock has it hold until some call has removed another        *)
(* reservation than the leftover it had judged ("mistaken").               *)
(***************************************************************************)
EXTENDS ReplanReservation, TLAPS

\* The calls whose file has its owner in it, and those still writing it.
Reserving  == {"fn", "relRead", "relRm"}
Publishing == {"fill", "unfill"}

\* The calls that have created their file.
Created == Publishing \cup Reserving \cup Ended

-----------------------------------------------------------------------------
(* Type correctness *)

\* What a call publishes is a file, and what it reads is a look at one.
LEMMA NewIsFile ==
    ASSUME NEW r \in Replans
    PROVE  /\ [by |-> r, full |-> TRUE, aged |-> FALSE] \in Files \ {None}
           /\ [by |-> r, full |-> FALSE, aged |-> FALSE] \in Files \ {None}
<1>1. [by |-> r, full |-> TRUE, aged |-> FALSE] \in Files
  BY DEF Files
<1>2. [by |-> r, full |-> FALSE, aged |-> FALSE] \in Files
  BY DEF Files
<1> QED
  BY <1>1, <1>2, ReservationAssumption

LEMMA LookIsLook ==
    TypeOK /\ file # None =>
        Look \in Looks \ {None} /\ Look.by = file.by /\ Look.full = file.full
BY ReservationAssumption DEF TypeOK, Files, Looks, Look

\* Growing old changes nothing else about a file.
LEMMA AgeKeepsFile ==
    TypeOK /\ Age => /\ file # None /\ file' \in Files \ {None}
                     /\ file'.by = file.by /\ file'.full = file.full
BY ReservationAssumption DEF TypeOK, Age, Files

LEMMA StepTypeOK == TypeOK /\ [Next]_vars => TypeOK'
<1> SUFFICES ASSUME TypeOK, [Next]_vars PROVE TypeOK'
  OBVIOUS
<1> USE ReservationAssumption DEF TypeOK, Files, Steps, Ended, Goto, New, Remove, Owned, Rest
<1>1. ASSUME NEW r \in Replans, Start(r) PROVE TypeOK'
  BY <1>1 DEF Start
<1>2. ASSUME NEW r \in Replans, Publish(r) \/ Fill(r) \/ Unfill(r) PROVE TypeOK'
  <2>1. CASE Publish(r)
    BY <2>1, NewIsFile DEF Publish
  <2>2. CASE Fill(r)
    <3>1. file' \in Files \cup {None}
      <4> USE NewIsFile DEF Fill
      <4>1. CASE file' = [by |-> r, full |-> TRUE, aged |-> FALSE]
        BY <4>1
      <4>2. CASE UNCHANGED file
        BY <4>2
      <4> QED
        BY <2>2, <4>1, <4>2
    <3>2. pc' \in [Replans -> Steps] /\ UNCHANGED Rest
      BY <2>2 DEF Fill
    <3> QED
      BY <3>1, <3>2
  <2>3. CASE Unfill(r)
    BY <2>3 DEF Unfill
  <2> QED
    BY <1>2, <2>1, <2>2, <2>3
<1>3. ASSUME NEW r \in Replans, Read(r) \/ ReadFails(r) PROVE TypeOK'
  BY <1>3, LookIsLook DEF Read, ReadFails
<1>4. ASSUME NEW r \in Replans, StatOld(r) \/ Reap(r) PROVE TypeOK'
  BY <1>4 DEF StatOld, OldOr, Reap
<1>5. ASSUME NEW r \in Replans,
             Poll(r) \/ Busy(r) \/ Leave(r) \/ ReleaseRead(r)
               \/ ReleaseReadFails(r) \/ ReleaseRm(r)
      PROVE TypeOK'
  BY <1>5 DEF Poll, Busy, Leave, ReleaseRead, ReleaseReadFails, ReleaseRm
<1>6. ASSUME NEW r \in Replans, Crash(r) PROVE TypeOK'
  BY <1>6 DEF Crash
<1>7. CASE Age
  BY <1>7 DEF Age
<1>8. CASE Finished \/ UNCHANGED vars
  BY <1>8 DEF Finished, vars
<1> QED
  BY <1>1, <1>2, <1>3, <1>4, <1>5, <1>6, <1>7, <1>8 DEF Next, Step

\* Every variable keeps its type, whatever faults happen.
THEOREM ReservationTypeCorrect == Spec => []TypeOK
<1>1. Init => TypeOK
  BY ReservationAssumption DEF Init, TypeOK, Steps
<1> QED
  BY <1>1, StepTypeOK, PTL DEF Spec

-----------------------------------------------------------------------------
(* The inductive invariant *)

\* While nothing was removed by mistake the file is that of the call that is
\* between creating and removing it, finished or being finished.
Claimed ==
    \A r \in Replans :
        /\ pc[r] \in Reserving => Owned(r)
        /\ pc[r] \in Publishing => file # None /\ file.by = r /\ ~file.full
        /\ file # None /\ file.by = r => pc[r] \in Created

\* What is about to be cleared away is a leftover: a complete one of a dead
\* call, or an unfinished one that nobody is finishing.
Leftovers ==
    \A r \in Replans :
        /\ pc[r] \in {"statOld", "reap"} => judged[r] # None /\ pc[judged[r].by] \in Created
        /\ pc[r] = "statOld" => ~judged[r].full
        /\ pc[r] = "reap" =>
              IF judged[r].full THEN ~Live(judged[r].by)
              ELSE pc[judged[r].by] \notin Publishing

\* A file does not grow old while its call is finishing it.
Young == file # None /\ file.aged => file.full \/ pc[file.by] \notin Publishing

IInv == TypeOK /\ (~mistaken => Claimed /\ Leftovers /\ Young)

LEMMA InitIInv == Init => IInv
BY ReservationAssumption
DEF Init, IInv, TypeOK, Claimed, Leftovers, Young, Steps, Reserving, Publishing

\* While no call was mistaken, what a reap removes is the leftover it judged.
LEMMA ReapsLeftover ==
    ASSUME NEW q \in Replans, TypeOK, Leftovers, Reap(q), ~mistaken', file # None
    PROVE  IF file.full THEN ~Live(file.by) ELSE pc[file.by] \notin Publishing
<1>1. judged[q] = Look
  BY DEF Reap, TypeOK
<1> QED
  BY <1>1, LookIsLook DEF Reap, Leftovers

LEMMA StepClaimed == IInv /\ ~mistaken' /\ [Next]_vars => Claimed'
<1> SUFFICES ASSUME IInv, ~mistaken', [Next]_vars PROVE Claimed'
  OBVIOUS
<1>0. ~mistaken
  BY DEF IInv, TypeOK, Next, Step, Start, Publish, Fill, Unfill, Read, ReadFails, StatOld, Reap, Poll,
         Busy, Leave, ReleaseRead, ReleaseReadFails, ReleaseRm, Crash, Age, Finished, vars, Rest
<1> USE <1>0, ReservationAssumption
<1> USE DEF IInv, TypeOK, Files, Steps, Ended, Claimed, Goto, New, Remove, Owned, Rest,
            Reserving, Publishing, Created
<1>1. ASSUME NEW q \in Replans, Start(q) PROVE Claimed'
  BY <1>1 DEF Start
<1>2. ASSUME NEW q \in Replans, Publish(q) PROVE Claimed'
  <2>1. CASE file = None /\ New(q, TRUE) /\ Goto(q, "fn")
    BY <1>2, <2>1, NewIsFile DEF Publish
  <2>2. CASE file = None /\ New(q, FALSE) /\ Goto(q, "fill")
    BY <1>2, <2>2, NewIsFile DEF Publish
  <2>3. CASE UNCHANGED file /\ Goto(q, "read")
    BY <1>2, <2>3 DEF Publish
  <2> QED
    BY <1>2, <2>1, <2>2, <2>3 DEF Publish
<1>3. ASSUME NEW q \in Replans, Fill(q) PROVE Claimed'
  <2>1. file # None /\ file.by = q /\ ~file.full
    BY <1>3 DEF Fill
  <2>2. CASE pc'[q] = "fn"
    <3>1. file' = [by |-> q, full |-> TRUE, aged |-> FALSE]
      BY <1>3, <2>1, <2>2 DEF Fill
    <3> QED
      BY <1>3, <2>1, <2>2, <3>1, NewIsFile DEF Fill
  <2>3. CASE pc'[q] = "unfill"
    BY <1>3, <2>1, <2>3 DEF Fill
  <2> QED
    BY <1>3, <2>2, <2>3 DEF Fill
<1>4. ASSUME NEW q \in Replans, Unfill(q) \/ ReleaseRm(q) PROVE Claimed'
  BY <1>4 DEF Unfill, ReleaseRm
<1>5. ASSUME NEW q \in Replans, Read(q) \/ ReadFails(q) PROVE Claimed'
  BY <1>5 DEF Read, ReadFails
<1>6. ASSUME NEW q \in Replans, StatOld(q) PROVE Claimed'
  BY <1>6 DEF StatOld, OldOr
<1>7. ASSUME NEW q \in Replans, Reap(q) PROVE Claimed'
  <2>1. CASE file = None
    BY <1>7, <2>1 DEF Reap
  <2>2. CASE file # None
    <3>1. IF file.full THEN ~Live(file.by) ELSE pc[file.by] \notin Publishing
      BY <1>7, <2>2, ReapsLeftover
    <3>2. \A r \in Replans : pc[r] \notin Reserving \cup Publishing
      BY <2>2, <3>1 DEF Live
    <3> QED
      BY <1>7, <3>2 DEF Reap
  <2> QED
    BY <2>1, <2>2
<1>8. ASSUME NEW q \in Replans, Poll(q) \/ Busy(q) \/ Leave(q) \/ ReleaseRead(q)
      PROVE Claimed'
  BY <1>8 DEF Poll, Busy, Leave, ReleaseRead
<1>9. ASSUME NEW q \in Replans, Crash(q) PROVE Claimed'
  BY <1>9 DEF Crash
<1>10. ASSUME NEW q \in Replans, ReleaseReadFails(q) PROVE Claimed'
  BY <1>10 DEF ReleaseReadFails
<1>11. CASE Age
  BY <1>11, AgeKeepsFile DEF Age
<1>12. CASE Finished \/ UNCHANGED vars
  BY <1>12 DEF Finished, vars
<1> QED
  BY <1>1, <1>2, <1>3, <1>4, <1>5, <1>6, <1>7, <1>8, <1>9, <1>10, <1>11, <1>12 DEF Next, Step

LEMMA NeverUnmistaken == TypeOK /\ [Next]_vars /\ mistaken => mistaken'
BY DEF TypeOK, Next, Step, Start, Publish, Fill, Unfill, Read, ReadFails, StatOld, Reap, Poll, Busy,
       Leave, ReleaseRead, ReleaseReadFails, ReleaseRm, Crash, Age, Finished, vars, Rest

\* A call that has created its file has created it for good, and one that is
\* not finishing it, or dead, stays so.
LEMMA NoWayBack ==
    ASSUME TypeOK, [Next]_vars, NEW r \in Replans
    PROVE  /\ pc[r] \in Created => pc'[r] \in Created
           /\ pc[r] \in Created \ Publishing => pc'[r] \in Created \ Publishing
           /\ ~Live(r) => ~Live(r)'
<1> USE DEF TypeOK, Steps, Ended, Goto, Rest, Created, Publishing, Reserving, Live
<1>1. ASSUME NEW q \in Replans, Start(q) \/ Publish(q) \/ Fill(q) \/ Unfill(q)
      PROVE /\ pc[r] \in Created => pc'[r] \in Created
            /\ pc[r] \in Created \ Publishing => pc'[r] \in Created \ Publishing
            /\ ~Live(r) => ~Live(r)'
  BY <1>1 DEF Start, Publish, Fill, Unfill
<1>2. ASSUME NEW q \in Replans, Read(q) \/ ReadFails(q) \/ StatOld(q) \/ Reap(q)
                                  \/ Poll(q) \/ Busy(q)
      PROVE /\ pc[r] \in Created => pc'[r] \in Created
            /\ pc[r] \in Created \ Publishing => pc'[r] \in Created \ Publishing
            /\ ~Live(r) => ~Live(r)'
  BY <1>2 DEF Read, ReadFails, StatOld, OldOr, Reap, Poll, Busy
<1>3. ASSUME NEW q \in Replans, Leave(q) \/ ReleaseRead(q) \/ ReleaseReadFails(q)
                                  \/ ReleaseRm(q) \/ Crash(q)
      PROVE /\ pc[r] \in Created => pc'[r] \in Created
            /\ pc[r] \in Created \ Publishing => pc'[r] \in Created \ Publishing
            /\ ~Live(r) => ~Live(r)'
  BY <1>3 DEF Leave, ReleaseRead, ReleaseReadFails, ReleaseRm, Crash
<1>4. CASE Age \/ Finished \/ UNCHANGED vars
  BY <1>4 DEF Age, Finished, vars
<1> QED
  BY <1>1, <1>2, <1>3, <1>4 DEF Next, Step

LEMMA StepLeftovers == IInv /\ ~mistaken' /\ [Next]_vars => Leftovers'
<1> SUFFICES ASSUME IInv, ~mistaken', [Next]_vars PROVE Leftovers'
  OBVIOUS
<1> SUFFICES ASSUME NEW r \in Replans, pc'[r] \in {"statOld", "reap"}
             PROVE  /\ judged'[r] # None /\ pc'[judged'[r].by] \in Created
                    /\ pc'[r] = "statOld" => ~judged'[r].full
                    /\ pc'[r] = "reap" =>
                          IF judged'[r].full THEN pc'[judged'[r].by] = "dead"
                          ELSE pc'[judged'[r].by] \notin Publishing
  BY DEF Leftovers, Live
<1> DEFINE Leftover ==
             /\ judged'[r] # None /\ pc'[judged'[r].by] \in Created
             /\ pc'[r] = "statOld" => ~judged'[r].full
             /\ pc'[r] = "reap" =>
                   IF judged'[r].full THEN pc'[judged'[r].by] = "dead"
                   ELSE pc'[judged'[r].by] \notin Publishing
           Looked == Read(r) /\ file # None /\ judged'[r] = Look
           Stayed ==
             /\ pc[r] \in {"statOld", "reap"} /\ judged'[r] = judged[r]
             /\ pc'[r] = "reap" /\ pc[r] = "statOld" => StatOld(r) /\ file # None /\ file.aged
             /\ pc'[r] = "statOld" => pc[r] = "statOld"
<1>0. TypeOK /\ ~mistaken /\ Claimed /\ Leftovers /\ Young
  BY NeverUnmistaken DEF IInv
<1> USE ReservationAssumption DEF Live
<1>1. ASSUME Looked PROVE Leftover
  <2>1. Look # None /\ Look.by \in Replans /\ Look.by = file.by /\ Look.full = file.full
    BY <1>0, <1>1, LookIsLook DEF Looks
  <2>2. pc[file.by] \in Created /\ pc'[file.by] \in Created
    BY <1>0, <1>1, <2>1, NoWayBack DEF Claimed
  <2>3. CASE file.full /\ ~Live(file.by)
    <3>1. pc'[r] = "reap" /\ pc'[file.by] = "dead"
      BY <1>0, <1>1, <2>1, <2>3, NoWayBack DEF Read, Goto, TypeOK
    <3> QED
      BY <1>1, <2>1, <2>2, <2>3, <3>1
  <2>4. CASE ~file.full
    <3>1. pc'[r] = "statOld"
      BY <1>0, <1>1, <2>4 DEF Read, Goto, TypeOK
    <3> QED
      BY <1>1, <2>1, <2>2, <2>4, <3>1
  <2> QED
    BY <1>0, <1>1, <2>3, <2>4 DEF Read, Goto, TypeOK
<1>2. ASSUME Stayed PROVE Leftover
  <2>1. judged[r] # None /\ judged[r].by \in Replans /\ pc[judged[r].by] \in Created
    BY <1>0, <1>2 DEF Leftovers, TypeOK, Looks
  <2>2. pc'[judged[r].by] \in Created
    BY <1>0, <2>1, NoWayBack
  <2>3. CASE pc'[r] = "statOld"
    BY <1>0, <1>2, <2>1, <2>2, <2>3 DEF Leftovers
  <2>4. CASE pc[r] = "reap" /\ pc'[r] = "reap"
    BY <1>0, <1>2, <2>1, <2>2, <2>4, NoWayBack DEF Leftovers
  <2>5. CASE pc[r] = "statOld" /\ pc'[r] = "reap"
    <3>1. ~judged[r].full
      BY <1>0, <2>5 DEF Leftovers
    <3>2. pc[judged[r].by] \notin Publishing
      <4>1. CASE file.by = judged[r].by /\ ~file.full
        BY <1>0, <1>2, <2>5, <4>1 DEF Young
      <4>2. CASE file.by # judged[r].by \/ file.full
        BY <1>0, <2>1, <4>2 DEF Claimed
      <4> QED
        BY <4>1, <4>2
    <3> QED
      BY <1>0, <1>2, <2>1, <2>2, <2>5, <3>1, <3>2, NoWayBack
  <2> QED
    BY <1>2, <2>3, <2>4, <2>5
<1>3. Looked \/ Stayed
  <2> USE <1>0 DEF TypeOK, Goto, Rest, Steps, Ended
  <2>1. ASSUME NEW q \in Replans, Read(q) PROVE Looked \/ Stayed
    BY <2>1 DEF Read
  <2>2. ASSUME NEW q \in Replans, StatOld(q) PROVE Stayed
    BY <2>2 DEF StatOld, OldOr
  <2>3. ASSUME NEW q \in Replans, Reap(q) \/ Crash(q) PROVE Stayed
    BY <2>3 DEF Reap, Crash
  <2>4. ASSUME NEW q \in Replans,
               Start(q) \/ Publish(q) \/ Fill(q) \/ Unfill(q) \/ ReadFails(q) \/ Poll(q)
                 \/ Busy(q) \/ Leave(q) \/ ReleaseRead(q) \/ ReleaseReadFails(q)
                 \/ ReleaseRm(q)
        PROVE Stayed
    BY <2>4 DEF Start, Publish, Fill, Unfill, ReadFails, Poll, Busy, Leave, ReleaseRead,
                ReleaseReadFails, ReleaseRm
  <2>5. CASE Age \/ Finished \/ UNCHANGED vars
    BY <2>5 DEF Age, Finished, vars
  <2> QED
    BY <2>1, <2>2, <2>3, <2>4, <2>5 DEF Next, Step
<1> QED
  BY <1>1, <1>2, <1>3

LEMMA StepYoung == IInv /\ ~mistaken' /\ [Next]_vars => Young'
<1> SUFFICES ASSUME IInv, ~mistaken', [Next]_vars PROVE Young'
  OBVIOUS
<1>0. TypeOK /\ ~mistaken /\ Claimed /\ Young
  BY NeverUnmistaken DEF IInv
<1> USE <1>0, ReservationAssumption
<1> USE DEF TypeOK, Files, Steps, Ended, Young, Goto, New, Remove, Owned, Rest, Publishing
<1>1. ASSUME NEW q \in Replans, Publish(q) \/ Fill(q) PROVE Young'
  <2>1. CASE \E full \in BOOLEAN : New(q, full)
    BY <2>1
  <2>2. CASE UNCHANGED file
    BY <1>1, <2>2 DEF Publish, Fill
  <2> QED
    BY <1>1, <2>1, <2>2 DEF Publish, Fill
<1>2. ASSUME NEW q \in Replans, Unfill(q) \/ ReleaseRm(q) \/ Reap(q) PROVE Young'
  BY <1>2 DEF Unfill, ReleaseRm, Reap
<1>3. ASSUME NEW q \in Replans,
             Start(q) \/ Read(q) \/ ReadFails(q) \/ StatOld(q) \/ Poll(q) \/ Busy(q)
               \/ Leave(q) \/ ReleaseRead(q) \/ ReleaseReadFails(q) \/ Crash(q)
      PROVE Young'
  BY <1>3 DEF Start, Read, ReadFails, StatOld, OldOr, Poll, Busy, Leave, ReleaseRead,
              ReleaseReadFails, Crash
<1>4. CASE Age
  BY <1>4, AgeKeepsFile DEF Age
<1>5. CASE Finished \/ UNCHANGED vars
  BY <1>5 DEF Finished, vars
<1> QED
  BY <1>1, <1>2, <1>3, <1>4, <1>5 DEF Next, Step

LEMMA AlwaysIInv == Spec => []IInv
<1>1. IInv /\ [Next]_vars => IInv'
  <2>1. ASSUME IInv, [Next]_vars, mistaken' PROVE IInv'
    BY <2>1, StepTypeOK DEF IInv
  <2>2. ASSUME IInv, [Next]_vars, ~mistaken' PROVE IInv'
    BY <2>2, StepTypeOK, StepClaimed, StepLeftovers, StepYoung DEF IInv
  <2> QED
    BY <2>1, <2>2
<1> QED
  BY <1>1, InitIInv, PTL DEF Spec

-----------------------------------------------------------------------------
(* Safety *)

\* A running replan is announced to every drain: replans that die anywhere,
\* and the several calls that clear away after them, leave its reservation
\* alone unless one of them has removed what it had not judged.
THEOREM Announcement == Spec => []ReplanIsAnnounced
<1>1. IInv => ReplanIsAnnounced
  BY DEF IInv, Claimed, Reserving, ReplanIsAnnounced, IsLive, Owned, Live
<1> QED
  BY <1>1, AlwaysIInv, PTL

\* So is the complete reservation of a live call left to it by all others.
THEOREM OwnRelease == Spec => OnlyItsOwnerRemovesIt
<1> DEFINE A == file # None /\ file.full /\ Live(file.by) =>
                   \/ file' # None /\ file'.by = file.by /\ file'.full
                   \/ pc[file.by] = "relRm"
                   \/ mistaken'
<1>1. IInv /\ [Next]_vars => [A]_vars
  <2> SUFFICES ASSUME IInv, Next, ~mistaken' PROVE A
    OBVIOUS
  <2>0. TypeOK /\ ~mistaken /\ Claimed /\ Leftovers
    BY NeverUnmistaken DEF IInv
  <2> USE <2>0
  <2> USE DEF TypeOK, Files, Claimed, New, Remove, Owned, Goto, Reserving, Publishing
  <2>1. ASSUME NEW q \in Replans, Publish(q) \/ Fill(q) \/ Unfill(q) PROVE A
    <3>1. CASE Publish(q)
      BY <3>1 DEF Publish
    <3>2. CASE Fill(q)
      BY <3>2, NewIsFile DEF Fill
    <3>3. CASE Unfill(q)
      BY <3>3 DEF Unfill
    <3> QED
      BY <2>1, <3>1, <3>2, <3>3
  <2>2. ASSUME NEW q \in Replans, Reap(q) PROVE A
    BY <2>2, ReapsLeftover
  <2>3. ASSUME NEW q \in Replans, ReleaseRm(q) PROVE A
    BY <2>3 DEF ReleaseRm
  <2>4. ASSUME NEW q \in Replans,
               Start(q) \/ Read(q) \/ ReadFails(q) \/ StatOld(q) \/ Poll(q) \/ Busy(q)
                 \/ Leave(q) \/ ReleaseRead(q) \/ ReleaseReadFails(q) \/ Crash(q)
        PROVE A
    BY <2>4 DEF Start, Read, ReadFails, StatOld, Poll, Busy, Leave, ReleaseRead,
                ReleaseReadFails, Crash, Rest
  <2>5. CASE Age
    BY <2>5, AgeKeepsFile
  <2>6. CASE Finished
    BY <2>6 DEF Finished, vars
  <2> QED
    BY <2>1, <2>2, <2>3, <2>4, <2>5, <2>6 DEF Next, Step
<1> QED
  BY <1>1, AlwaysIInv, PTL DEF Spec, OnlyItsOwnerRemovesIt

-----------------------------------------------------------------------------
(* The reservation is a lock                                               *)

\* The live replan whose complete reservation is in place.
Announcer == IF file # None /\ file.full /\ Live(file.by) THEN file.by ELSE None

Flag == INSTANCE PlanLock WITH Callers <- Replans, holder <- Announcer

\* A reservation is taken when no live replan is announced, by a call that
\* writes its whole file, and given back by that call or its death.
LEMMA AnnouncerMoves ==
    IInv /\ ~mistaken' /\ [Next]_vars => [Flag!Next]_Announcer
<1> SUFFICES ASSUME IInv, ~mistaken', [Next]_vars, Announcer' # Announcer
             PROVE  \E r \in Replans : Flag!Acquire(r) \/ Flag!Release(r)
  BY DEF Flag!Next
<1>0. TypeOK /\ ~mistaken /\ Claimed /\ Leftovers
  BY NeverUnmistaken DEF IInv
<1> USE <1>0
<1>1. file # None => file \in Files \ {None} /\ file.by \in Replans
  BY DEF TypeOK, Files
<1>2. ASSUME NEW q \in Replans, Publish(q) \/ Fill(q), file' # file PROVE Flag!Acquire(q)
  <2>1. file = None \/ ~file.full
    BY <1>2 DEF Publish, Fill, TypeOK, Claimed, Publishing
  <2>2. file' = [by |-> q, full |-> TRUE, aged |-> FALSE] \/ file' = [by |-> q, full |-> FALSE, aged |-> FALSE]
    BY <1>2 DEF Publish, Fill, New
  <2>3. Announcer = None /\ Announcer' \in {q, None}
    BY <2>1, <2>2, NewIsFile DEF Announcer
  <2> QED
    BY <2>3 DEF Flag!Acquire
<1>3. ASSUME NEW q \in Replans, Unfill(q) PROVE FALSE
  <2>1. ~file.full /\ file' = None
    BY <1>3 DEF Unfill, Remove, Claimed, Publishing
  <2> QED
    BY <2>1 DEF Announcer
<1>4. ASSUME NEW q \in Replans, Reap(q) PROVE FALSE
  <2>1. Announcer = None
    BY <1>4, ReapsLeftover DEF Announcer
  <2>2. Announcer' = None
    BY <1>4 DEF Reap, Remove, Announcer
  <2> QED
    BY <2>1, <2>2
<1>5. ASSUME NEW q \in Replans, ReleaseRm(q) PROVE Flag!Release(q)
  <2>1. Owned(q) /\ file' = None /\ Live(q)
    BY <1>5 DEF ReleaseRm, Remove, Claimed, Reserving, Live
  <2> QED
    BY <1>1, <2>1 DEF Announcer, Owned, Flag!Release
<1>6. ASSUME NEW q \in Replans,
             Start(q) \/ Read(q) \/ ReadFails(q) \/ StatOld(q) \/ Poll(q) \/ Busy(q)
               \/ Leave(q) \/ ReleaseRead(q) \/ ReleaseReadFails(q)
      PROVE FALSE
  <2>1. file' = file /\ \A r \in Replans : pc'[r] = "dead" <=> pc[r] = "dead"
    BY <1>6 DEF Start, Read, ReadFails, StatOld, OldOr, Poll, Busy, Leave, ReleaseRead, ReleaseReadFails,
                Rest, Goto, TypeOK
  <2> QED
    BY <1>1, <2>1 DEF Announcer, Live
<1>7. ASSUME NEW q \in Replans, Crash(q) PROVE Flag!Release(q)
  <2>1. file' = file /\ pc'[q] = "dead" /\ \A r \in Replans \ {q} : pc'[r] = pc[r]
    BY <1>7 DEF Crash, Goto, TypeOK
  <2>2. file # None /\ file.full /\ file.by = q
    BY <1>1, <2>1 DEF Announcer, Live
  <2> QED
    BY <2>1, <2>2 DEF Announcer, Live, Flag!Release
<1>8. CASE Age
  <2>1. pc' = pc
    BY <1>8 DEF Age
  <2> QED
    BY <1>8, <2>1, AgeKeepsFile DEF Announcer, Live
<1>9. CASE Finished \/ UNCHANGED vars
  BY <1>9 DEF Finished, vars, Announcer, Live
<1>10. ASSUME NEW q \in Replans, (Publish(q) \/ Fill(q)) /\ file' = file PROVE FALSE
  <2>1. \A r \in Replans : pc'[r] = "dead" <=> pc[r] = "dead"
    BY <1>10 DEF Publish, Fill, Goto, TypeOK
  <2> QED
    BY <1>1, <1>10, <2>1 DEF Announcer, Live
<1> QED
  BY <1>2, <1>3, <1>4, <1>5, <1>6, <1>7, <1>8, <1>9, <1>10 DEF Next, Step

\* Calls that die included, the reservation is what PlanLock says of a lock as
\* long as no verdict is used on another file (withExclusiveReplanReservation):
\* a replan announces itself only where no live one is announced, and takes
\* its own announcement back, or dies; the clearing away of leftovers, by any
\* number of calls at once, passes nobody's announcement on.
THEOREM ReservationIsALock == Spec /\ []~mistaken => Flag!Spec
<1>1. Init => Flag!Init
  BY DEF Init, Flag!Init, Announcer
<1> QED
  BY <1>1, AnnouncerMoves, AlwaysIInv, PTL DEF Spec, Flag!Spec
=============================================================================
