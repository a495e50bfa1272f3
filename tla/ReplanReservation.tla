------------------------- MODULE ReplanReservation -------------------------
(***************************************************************************)
(* The exclusive-replan reservation of plugins/minni/src/thread-lock.ts:   *)
(* withExclusiveReplanReservation, publishExclusiveReservation and         *)
(* exclusiveReplanReservationIsLive, for one plan.                         *)
(*                                                                         *)
(* A replan announces itself by creating one file; the drains of the       *)
(* worker write queue look at it before they apply anything.  Publication  *)
(* is one step where the file system has hard links (the file appears with *)
(* its content) and two where it has not (HardLinks = FALSE: created       *)
(* empty, then written).  As in ThreadLock a process is alive or not and   *)
(* owners of dead processes are not live; every call has its own random    *)
(* operation id, so the call itself, made once, stands for it.  Faults     *)
(* names what may happen besides:                                          *)
(*   Crash        the process of a replan call dies                        *)
(*   ReadFault    reading the reservation may fail although it is there    *)
(*                                                                         *)
(* A call that has taken a reservation for a leftover removes it by path,  *)
(* in a later step, whatever file has the name by then.  "judged" holds    *)
(* the reservation the verdict is about and "mistaken" remembers that      *)
(* another one was removed on such a verdict; neither is looked at by an   *)
(* action.                                                                 *)
(***************************************************************************)
EXTENDS Naturals

CONSTANTS
    Replans,    \* calls of withExclusiveReplanReservation
    HardLinks,  \* whether link() works on the vault's file system
    Faults,     \* which of AllFaults may happen
    None

AllFaults == {"Crash", "ReadFault"}

\* A reservation file: the call that made it, whether it has written its
\* owner into it yet, and whether the file is older than staleMs.
Files == [by : Replans, full : BOOLEAN, aged : BOOLEAN]

\* What a call has read: whose reservation, and whether it names its owner.
Looks == [by : Replans, full : BOOLEAN]

ASSUME ReservationAssumption ==
    /\ HardLinks \in BOOLEAN
    /\ Faults \subseteq AllFaults
    /\ None \notin Files \cup Looks \cup Replans

VARIABLES
    file,    \* the reservation file, or None
    pc,      \* where each replan call stands
    judged,  \* the reservation a call is about to take for a leftover, or None
    mistaken \* whether another one than that was removed in its place

vars == <<file, pc, judged, mistaken>>

\* "left": returned without having looked at its reservation again; "dead":
\* the process has died, during the call or after it.
Ended == {"done", "left", "dead"}
Steps == Ended \cup {"idle", "publish", "fill", "unfill", "read", "statOld", "reap",
                     "wait", "fn", "relRead", "relRm"}

Init ==
    /\ file = None
    /\ pc = [r \in Replans |-> "idle"]
    /\ judged = [r \in Replans |-> None]
    /\ mistaken = FALSE

-----------------------------------------------------------------------------
Goto(r, step) == pc' = [pc EXCEPT ![r] = step]
New(r, full)  == file' = [by |-> r, full |-> full, aged |-> FALSE]
Remove        == file' = None
Owned(r)      == file # None /\ file.by = r /\ file.full
Live(r)       == pc[r] # "dead"
Look          == [by |-> file.by, full |-> file.full]
Rest          == <<judged, mistaken>>

\* Mutant: whatever cannot be parsed counts as live.
IsLiveUnparsed ==
    /\ file # None
    /\ file.full => Live(file.by)

\* exclusiveReplanReservationIsLive: a young file without an owner counts as
\* live, an old one does not.
IsLive ==
    /\ file # None
    /\ IF file.full THEN Live(file.by) ELSE ~file.aged

Start(r) ==
    /\ pc[r] = "idle"
    /\ Goto(r, "publish")
    /\ UNCHANGED <<file, Rest>>

\* Mutant: the file is written without the exclusive flag.
PublishShared(r) ==
    /\ pc[r] = "publish"
    /\ \/ HardLinks /\ New(r, TRUE) /\ Goto(r, "fn")
       \/ ~HardLinks /\ New(r, FALSE) /\ Goto(r, "fill")
    /\ UNCHANGED Rest

\* link, or the exclusive create of the fallback; EEXIST goes on to the read.
Publish(r) ==
    /\ pc[r] = "publish"
    /\ \/ file = None /\ HardLinks /\ New(r, TRUE) /\ Goto(r, "fn")
       \/ file = None /\ ~HardLinks /\ New(r, FALSE) /\ Goto(r, "fill")
       \/ file # None /\ Goto(r, "read") /\ UNCHANGED file
    /\ UNCHANGED Rest

\* The fallback's write goes to the file it opened, which may be unlinked.
Fill(r) ==
    /\ pc[r] = "fill"
    /\ \/ /\ Goto(r, "fn")
          /\ IF file # None /\ file.by = r THEN New(r, TRUE)
             ELSE UNCHANGED file
       \/ Goto(r, "unfill") /\ UNCHANGED file
    /\ UNCHANGED Rest

\* The write failed: the destination is removed and the error rethrown.
Unfill(r) ==
    /\ pc[r] = "unfill"
    /\ Remove
    /\ Goto(r, "done")
    /\ UNCHANGED Rest

\* A published owner is judged by whether it is live; the file itself is
\* removed in a later step.
Read(r) ==
    /\ pc[r] = "read"
    /\ \/ file = None /\ Goto(r, "publish") /\ UNCHANGED judged
       \/ /\ file # None /\ file.full /\ Live(file.by)
          /\ Goto(r, "wait")
          /\ UNCHANGED judged
       \/ /\ file # None /\ (file.full => ~Live(file.by))
          /\ Goto(r, IF file.full THEN "reap" ELSE "statOld")
          /\ judged' = [judged EXCEPT ![r] = Look]
    /\ UNCHANGED <<file, mistaken>>

\* Any other error than ENOENT is rethrown.
ReadFails(r) ==
    /\ pc[r] = "read"
    /\ "ReadFault" \in Faults
    /\ Goto(r, "done")
    /\ UNCHANGED <<file, Rest>>

\* An old reservation is taken for a leftover, a young one is waited for.
OldOr(r, old) ==
    /\ Goto(r, IF old THEN "reap" ELSE "wait")
    /\ judged' = IF old THEN judged ELSE [judged EXCEPT ![r] = None]

\* Mutant: an unparseable reservation is reaped whatever its age.
StatAnyAge(r) ==
    /\ pc[r] = "statOld"
    /\ OldOr(r, file # None)
    /\ UNCHANGED <<file, mistaken>>

StatOld(r) ==
    /\ pc[r] = "statOld"
    /\ OldOr(r, file # None /\ file.aged)
    /\ UNCHANGED <<file, mistaken>>

\* rm by path, whatever it names by now.
Reap(r) ==
    /\ pc[r] = "reap"
    /\ Remove
    /\ Goto(r, "publish")
    /\ judged' = [judged EXCEPT ![r] = None]
    /\ mistaken' = (mistaken \/ (file # None /\ Look # judged[r]))

Poll(r) ==
    /\ pc[r] = "wait"
    /\ Goto(r, "publish")
    /\ UNCHANGED <<file, Rest>>

\* The deadline has passed: ThreadBusyError.
Busy(r) ==
    /\ pc[r] = "wait"
    /\ Goto(r, "done")
    /\ UNCHANGED <<file, Rest>>

Leave(r) ==
    /\ pc[r] = "fn"
    /\ Goto(r, "relRead")
    /\ UNCHANGED <<file, Rest>>

\* Mutant: the release empties the file instead of removing it.
ReleaseByTruncate(r) ==
    /\ pc[r] = "relRm"
    /\ New(None, FALSE)
    /\ Goto(r, "done")
    /\ UNCHANGED Rest

ReleaseRead(r) ==
    /\ pc[r] = "relRead"
    /\ Goto(r, IF Owned(r) THEN "relRm" ELSE "done")
    /\ UNCHANGED <<file, Rest>>

\* Every error of the release is taken for "already gone".
ReleaseReadFails(r) ==
    /\ pc[r] = "relRead"
    /\ "ReadFault" \in Faults
    /\ Goto(r, "left")
    /\ UNCHANGED <<file, Rest>>

ReleaseRm(r) ==
    /\ pc[r] = "relRm"
    /\ Remove
    /\ Goto(r, "done")
    /\ UNCHANGED Rest

-----------------------------------------------------------------------------
\* The process of a replan call dies; its file stays.
Crash(r) ==
    /\ "Crash" \in Faults
    /\ pc[r] \notin {"idle", "dead"}
    /\ Goto(r, "dead")
    /\ judged' = [judged EXCEPT ![r] = None]
    /\ UNCHANGED <<file, mistaken>>

\* staleMs pass.  A live call never takes that long between creating the
\* file and writing it.
Age ==
    /\ file # None /\ ~file.aged
    /\ file.full \/ pc[file.by] \notin {"fill", "unfill"}
    /\ file' = [file EXCEPT !.aged = TRUE]
    /\ UNCHANGED <<pc, Rest>>

Finished ==
    /\ \A r \in Replans : pc[r] \in Ended \cup {"idle"}
    /\ UNCHANGED vars

Step(r) ==
    \/ Publish(r) \/ Fill(r) \/ Unfill(r) \/ Read(r) \/ ReadFails(r)
    \/ StatOld(r) \/ Reap(r) \/ Poll(r) \/ Busy(r)
    \/ Leave(r) \/ ReleaseRead(r) \/ ReleaseReadFails(r) \/ ReleaseRm(r)

Next ==
    \/ \E r \in Replans : Start(r) \/ Step(r) \/ Crash(r)
    \/ Age
    \/ Finished

Spec == Init /\ [][Next]_vars

\* A live call goes on, one that is turned away often enough passes its
\* deadline, and time passes; crashes are never forced.
Fairness ==
    /\ \A r \in Replans : WF_vars(Step(r)) /\ SF_vars(Busy(r))
    /\ WF_vars(Age)

FairSpec == Spec /\ Fairness

-----------------------------------------------------------------------------
(* Properties *)

\* The reservation is absent or the file of one call, complete or not.
TypeOK ==
    /\ file \in Files \cup {None}
    /\ pc \in [Replans -> Steps]
    /\ judged \in [Replans -> Looks \cup {None}]
    /\ mistaken \in BOOLEAN

\* While a replan runs its fn every drain that looks finds it announced
\* (thread-lock.ts:520-526): its own complete reservation is in place, so
\* that no two replans run at once; also while others die, and are cleared
\* away by several calls.  What can undo it is one thing: a call that took a
\* leftover for one and has removed another reservation (688).
ReplanIsAnnounced ==
    \A r \in Replans : pc[r] = "fn" => mistaken \/ (IsLive /\ Owned(r))

\* The same without that exception, as the comment at 520-526 has it.
RunningReplanIsAnnounced ==
    \A r \in Replans : pc[r] = "fn" => IsLive /\ Owned(r)

\* The complete reservation of a live replan is removed by that call alone,
\* from its publication to its release: whoever else publishes, gives up,
\* releases or clears away what it read leaves it in place
\* (thread-lock.ts:661-710), until a leftover's verdict is used on another
\* file.
OnlyItsOwnerRemovesIt ==
    [][file # None /\ file.full /\ Live(file.by) =>
          \/ file' # None /\ file'.by = file.by /\ file'.full
          \/ pc[file.by] = "relRm"
          \/ mistaken']_vars

\* No replan keeps the drains away for ever: when no more replans start, a
\* look eventually finds the reservation clear, also where a process died
\* between creating the file and writing its owner, or where calls removed
\* each other's files.  A replan that could not read its reservation when it
\* ended (707-709) is the exception, for as long as its process runs.
DrainsGoOn == <>[](IsLive => pc[file.by] = "left")
=============================================================================
