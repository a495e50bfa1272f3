----------------------------- MODULE CutoverProofs -----------------------------
(* Theorems about WireCutover, for any payloads, surfaces and hosts, and any   *)
(* number of writes, cutovers and deaths.                                      *)
EXTENDS WireCutover, TLAPS

\* What the cutover read of a surface is what its host last made of it, or
\* its host wrote in a window nobody can see.
Fresh(s) == pre[s].rev = edits[s] \/ s \in raced

DiskType == /\ dirs \subseteq Versions /\ current \in Targets
            /\ wires \in [Surfaces -> Targets] /\ active \in Targets
            /\ surface \in [Surfaces -> Entries] /\ host \in [Surfaces -> Running]
PlanType == /\ target \in Targets /\ prev \in Targets /\ running \subseteq Surfaces
            /\ doc \in [rows : [Surfaces -> Targets], active : Targets]
WorkType == /\ todo \in Seq(Surfaces) /\ at \in Surfaces \cup {None} /\ pre \in [Surfaces -> Entries]
            /\ done \subseteq Surfaces /\ deferred \subseteq Surfaces /\ reported \subseteq Surfaces
            /\ protect \subseteq Versions
UndoType == /\ needs \subseteq BOOLEAN /\ unmet \subseteq BOOLEAN /\ matches \in BOOLEAN
            /\ restorable \subseteq Surfaces /\ keep \subseteq Versions
RunType  == /\ pc \in Steps /\ runs \in 0 .. MaxRuns /\ writes \in 0 .. MaxWrites
            /\ touched \subseteq Surfaces
            /\ edits \in [Surfaces -> 0 .. MaxWrites] /\ \A s \in Surfaces : edits[s] <= writes
            /\ raced \subseteq Surfaces /\ strays \subseteq Surfaces /\ wrote \subseteq Surfaces
            /\ lost \subseteq Surfaces /\ torn \in BOOLEAN

\* What was read of a surface that was rewritten is fresh, or somebody has touched
\* it since; of one that is about to be written, always.
ReadInv ==
    /\ \A s \in done : s \in touched \ Containers \/ Fresh(s)
    /\ \A s \in restorable : Fresh(s)
    /\ restorable # {} => pc \in {"repoint", "restore"}
    /\ pc \in {"idle", "ready"} => done = {}
    /\ pc \in {"staged", "checked", "replaced", "aside", "missing"} => at \in Surfaces
    /\ pc = "staged" => at \in touched \/ Fresh(at)
    /\ pc \in {"checked", "aside"} => Fresh(at)
    /\ pc \in {"staged", "checked", "replaced"} => at \notin Containers
    /\ pc \in {"aside", "missing"} => at \in Containers
    /\ pc = "missing" => at \in done

\* The collection keeps what servers run from.
Served(s) == \/ Off(s) \/ s \in strays
             \/ host[s].as = "copy"
KeepInv == pc = "prune" => \A s \in Surfaces : Served(s) \/ host[s].code \in keep

IInv ==
    /\ DiskType /\ PlanType /\ WorkType /\ UndoType /\ RunType
    /\ EditsSurvive /\ ReadInv
    /\ ServersKeepTheirCode /\ KeepInv

-----------------------------------------------------------------------------
(* Entries and surfaces.                                                     *)

LEMMA EntryParts ==
    ASSUME NEW e \in Entries
    PROVE  /\ e.to \in Versions \cup {Current, None} /\ e.as \in Forms
           /\ e.new \in BOOLEAN /\ e.rev \in 0 .. MaxWrites
           /\ \A v \in Versions \cup {Current, None} : \A b \in BOOLEAN :
                 /\ [e EXCEPT !.to = v, !.new = b] \in Entries
                 /\ [e EXCEPT !.to = v] \in Entries
                 /\ [e EXCEPT !.to = v, !.new = b].rev = e.rev
                 /\ [e EXCEPT !.to = v].rev = e.rev
  BY DEF Entries

LEMMA RewrittenParts ==
    ASSUME NEW e \in Entries
    PROVE  Rewritten(e) \in Entries /\ Rewritten(e).rev = e.rev
  BY DEF Entries, Rewritten

\* One surface is written.
LEMMA SurfaceSet ==
    ASSUME DiskType, NEW s \in Surfaces, NEW e \in Entries, surface' = [surface EXCEPT ![s] = e]
    PROVE  /\ surface' \in [Surfaces -> Entries] /\ surface'[s] = e
           /\ \A u \in Surfaces \ {s} : surface'[u] = surface[u]
  BY DEF DiskType

\* What others write keeps what the cutover knows.
LEMMA OthersWrite ==
    ASSUME IInv, NEW s \in Surfaces \ Containers, NEW e \in Entries, Write(s, e),
           edits' \in [Surfaces -> 0 .. MaxWrites], e.rev = edits'[s] \/ s \in raced,
           \A u \in Surfaces \ {s} : edits'[u] = edits[u],
           edits'[s] \in {edits[s], edits[s] + 1},
           UNCHANGED <<pc, records>>
    PROVE  /\ surface' \in [Surfaces -> Entries] /\ writes' \in 0 .. MaxWrites
           /\ \A u \in Surfaces : edits'[u] <= writes'
           /\ touched' \subseteq Surfaces /\ raced' \subseteq Surfaces
           /\ EditsSurvive' /\ ReadInv' /\ WorkType' /\ PlanType' /\ UndoType'
<1>1. /\ writes < MaxWrites /\ writes' = writes + 1
      /\ surface' = [surface EXCEPT ![s] = e]
      /\ touched' = IF pc = "idle" THEN touched ELSE touched \cup {s}
      /\ raced' = IF \/ pc = "checked" /\ at = s
                     \/ pc \in {"repoint", "restore"} /\ s \in restorable
                  THEN raced \cup {s} ELSE raced
  BY Zenon DEF Write
<1>2. /\ surface' \in [Surfaces -> Entries] /\ surface'[s] = e
      /\ \A u \in Surfaces \ {s} : surface'[u] = surface[u]
  BY <1>1, SurfaceSet DEF IInv
<1>3. writes' \in 0 .. MaxWrites /\ \A u \in Surfaces : edits'[u] <= writes'
  <2>1. writes \in 0 .. MaxWrites /\ \A u \in Surfaces : edits[u] \in 0 .. MaxWrites /\ edits[u] <= writes
    BY DEF IInv, RunType
  <2>2. writes' \in 0 .. MaxWrites
    BY <1>1, <2>1, CutoverAssumption
  <2>3. \A u \in Surfaces : edits'[u] \in {edits[u], edits[u] + 1}
    OBVIOUS
  <2> QED
    BY <1>1, <2>1, <2>2, <2>3, CutoverAssumption
<1>4. /\ touched' \subseteq Surfaces /\ touched \subseteq touched' /\ raced' \subseteq Surfaces /\ raced \subseteq raced'
      /\ pc # "idle" => s \in touched'
  BY <1>1 DEF IInv, RunType
<1>5. EditsSurvive'
  BY <1>2, <1>4 DEF IInv, EditsSurvive
<1>6. UNCHANGED <<target, prev, doc, running, todo, at, pre, done, deferred, reported, protect,
                  needs, unmet, matches, restorable, keep>>
  BY DEF records, plan, work, undo
<1>7. \A u \in Surfaces \ {s} : Fresh(u) => Fresh(u)'
  BY <1>4, <1>6 DEF Fresh
<1>8. (pc = "checked" /\ at = s) \/ s \in restorable => Fresh(s)'
  BY <1>1 DEF IInv, ReadInv, Fresh
<1>9. ReadInv'
  <2>1. done \subseteq Surfaces /\ restorable \subseteq Surfaces /\ (pc \in {"aside", "missing"} => at # s)
    BY DEF IInv, WorkType, UndoType, ReadInv
  <2> QED
    BY <1>4, <1>6, <1>7, <1>8, <2>1 DEF IInv, ReadInv
<1>10. WorkType' /\ PlanType' /\ UndoType'
  BY <1>6 DEF IInv, WorkType, PlanType, UndoType
<1> QED
  BY <1>2, <1>3, <1>4, <1>5, <1>9, <1>10

\* Servers keep what they run from while nothing is collected.
LEMMA ServersKept ==
    ASSUME IInv, UNCHANGED <<host, strays>>, dirs \subseteq dirs'
    PROVE  ServersKeepTheirCode'
  BY DEF IInv, ServersKeepTheirCode, Off

LEMMA KeptOutside ==
    ASSUME pc' # "prune"
    PROVE  KeepInv'
  BY DEF KeepInv

-----------------------------------------------------------------------------
(* Hosts, their servers, and other commands.                                 *)

LEMMA StrayParts ==
    ASSUME IInv, NEW s \in Surfaces, Stray(s)
    PROVE  strays' \subseteq Surfaces /\ strays \subseteq strays' /\ (pc # "idle" => s \in strays')
  BY DEF Stray, IInv, RunType

LEMMA HostStartsStep ==
    ASSUME IInv, NEW s \in Surfaces, HostStarts(s)
    PROVE  IInv'
<1> DEFINE h == [code |-> Launch(surface[s], current), to |-> surface[s].to,
                 as |-> surface[s].as, new |-> surface[s].new]
<1>1. /\ surface[s].to # None /\ Works(s)
      /\ host' = [host EXCEPT ![s] = h]
      /\ Stray(s)
      /\ UNCHANGED <<dirs, current, saved, surface, pc, records, runs, writes, touched, edits, raced,
                     wrote, lost, torn>>
  BY Zenon DEF HostStarts
<1>2. surface[s] \in Entries /\ current \in Targets /\ host \in [Surfaces -> Running]
  BY DEF IInv, DiskType
<1>3. h \in Running
  <2>1. surface[s].to \in Versions \cup {Current, None} /\ surface[s].as \in Forms /\ surface[s].new \in BOOLEAN
    BY <1>2, EntryParts
  <2>2. surface[s].to \in Versions \cup {Current}
    BY <1>1, <2>1
  <2>3. Launch(surface[s], current) \in Targets
    BY <1>2, <2>2 DEF Launch, Targets
  <2> QED
    BY <2>1, <2>2, <2>3 DEF Running
<1>4. h.code \in dirs \/ h.as = "copy"
  BY <1>1, Zenon DEF Works, Satisfies
<1> HIDE DEF h
<1>5. /\ host' \in [Surfaces -> Running] /\ host'[s] = h
      /\ \A u \in Surfaces \ {s} : host'[u] = host[u]
  BY <1>1, <1>2, <1>3
<1>6. strays' \subseteq Surfaces /\ strays \subseteq strays' /\ (pc # "idle" => s \in strays')
  BY <1>1, StrayParts
<1>7. DiskType' /\ RunType'
  BY <1>1, <1>5, <1>6 DEF IInv, DiskType, RunType, saved
<1>8. PlanType' /\ WorkType' /\ UndoType' /\ EditsSurvive' /\ ReadInv'
  BY <1>1 DEF IInv, PlanType, WorkType, UndoType, EditsSurvive, ReadInv, Fresh, records, plan, work, undo
<1>9. ServersKeepTheirCode'
  <2>1. \A u \in Surfaces \ {s} : \/ Off(u)' \/ host'[u].code \in dirs' \/ u \in strays'
                                  \/ host'[u].as = "copy"
    BY <1>1, <1>5, <1>6 DEF IInv, ServersKeepTheirCode, Off
  <2>2. host'[s].code \in dirs' \/ host'[s].as = "copy"
    BY <1>1, <1>4, <1>5
  <2> QED
    BY <2>1, <2>2 DEF ServersKeepTheirCode
<1>10. KeepInv'
  <2> SUFFICES ASSUME pc' = "prune", NEW u \in Surfaces
               PROVE  Served(u)' \/ host'[u].code \in keep'
    BY DEF KeepInv
  <2>1. CASE u = s
    BY <1>1, <1>6, <2>1 DEF Served
  <2>2. CASE u # s
    <3>1. Served(u) \/ host[u].code \in keep
      BY <1>1 DEF IInv, KeepInv
    <3> QED
      BY <1>1, <1>5, <1>6, <2>2, <3>1 DEF Served, Off, records
  <2> QED
    BY <2>1, <2>2
<1> QED
  BY <1>7, <1>8, <1>9, <1>10 DEF IInv

\* The entry a host writes back.
LEMMA KnownParts ==
    ASSUME IInv, NEW s \in Surfaces \ Containers
    PROVE  /\ Known(s) \in Entries /\ (s \in Rewriters /\ ~Off(s) => Known(s).rev = edits[s])
           /\ \A n \in 0 .. MaxWrites : /\ [Known(s) EXCEPT !.rev = n] \in Entries
                                        /\ [Known(s) EXCEPT !.rev = n].rev = n
<1>1. surface[s] \in Entries /\ host[s] \in Running /\ edits[s] \in 0 .. MaxWrites
  BY DEF IInv, DiskType, RunType
<1>2. host[s].to \in Versions \cup {Current, None} /\ host[s].as \in Forms /\ host[s].new \in BOOLEAN
  BY <1>1 DEF Running
<1>3. Known(s) \in Entries /\ (s \in Rewriters /\ ~Off(s) => Known(s).rev = edits[s])
  BY <1>1, <1>2 DEF Known, Entries
<1> QED
  BY <1>3 DEF Entries

\* A host that stops or writes: those that run afterwards ran before.
LEMMA HostsLeave ==
    ASSUME IInv, UNCHANGED <<dirs, pc, keep>>, strays \subseteq strays',
           \A u \in Surfaces : Off(u)' \/ host'[u] = host[u]
    PROVE  ServersKeepTheirCode' /\ KeepInv'
  BY DEF IInv, ServersKeepTheirCode, KeepInv, Served, Off

LEMMA HostEditsStep ==
    ASSUME IInv, NEW s \in Surfaces, HostEdits(s)
    PROVE  IInv'
<1> DEFINE e == [Known(s) EXCEPT !.rev = edits[s] + 1]
<1>1. /\ s \notin Containers
      /\ edits' = [edits EXCEPT ![s] = @ + 1]
      /\ Write(s, e)
      /\ IF s \in Rewriters /\ ~Off(s) THEN Stray(s) ELSE UNCHANGED strays
      /\ UNCHANGED <<dirs, current, saved, host, pc, records, runs, wrote, lost, torn>>
  BY Zenon DEF HostEdits
<1>2. /\ edits \in [Surfaces -> 0 .. MaxWrites] /\ edits[s] <= writes /\ writes \in 0 .. MaxWrites
      /\ writes < MaxWrites
  BY <1>1 DEF IInv, RunType, Write
<1>3. edits[s] + 1 \in 0 .. MaxWrites
  BY <1>2, CutoverAssumption
<1>4. e \in Entries /\ e.rev = edits[s] + 1
  BY <1>1, <1>3, KnownParts
<1>5. /\ edits' \in [Surfaces -> 0 .. MaxWrites] /\ edits'[s] = edits[s] + 1
      /\ \A u \in Surfaces \ {s} : edits'[u] = edits[u]
  BY <1>1, <1>2, <1>3
<1> HIDE DEF e
<1>6. /\ surface' \in [Surfaces -> Entries] /\ writes' \in 0 .. MaxWrites
      /\ \A u \in Surfaces : edits'[u] <= writes'
      /\ touched' \subseteq Surfaces /\ raced' \subseteq Surfaces
      /\ EditsSurvive' /\ ReadInv' /\ WorkType' /\ PlanType' /\ UndoType'
  <2>1. e.rev = edits'[s] /\ edits'[s] \in {edits[s], edits[s] + 1} /\ s \in Surfaces \ Containers
    BY <1>1, <1>4, <1>5
  <2>2. UNCHANGED <<pc, records>>
    BY <1>1
  <2> QED
    BY <1>1, <1>4, <1>5, <2>1, <2>2, OthersWrite
<1>7. strays' \subseteq Surfaces /\ strays \subseteq strays'
  BY <1>1, StrayParts DEF IInv, RunType
<1>8. DiskType' /\ RunType'
  BY <1>1, <1>5, <1>6, <1>7 DEF IInv, DiskType, RunType, saved
<1>9. ServersKeepTheirCode' /\ KeepInv'
  BY <1>1, <1>7, HostsLeave DEF records
<1> QED
  BY <1>6, <1>8, <1>9 DEF IInv

LEMMA HostExitsStep ==
    ASSUME IInv, NEW s \in Surfaces, HostExits(s)
    PROVE  IInv'
<1>1. /\ ~Off(s)
      /\ host' = [host EXCEPT ![s] = NoHost]
      /\ IF s \in Rewriters THEN Write(s, Known(s)) /\ Stray(s)
                            ELSE UNCHANGED <<surface, writes, touched, raced, strays>>
      /\ UNCHANGED <<dirs, current, saved, pc, records, runs, edits, wrote, lost, torn>>
  BY Zenon DEF HostExits
<1>2. /\ host' \in [Surfaces -> Running] /\ Off(s)' /\ \A u \in Surfaces \ {s} : host'[u] = host[u]
  <2>1. NoHost \in Running /\ NoHost.code = None
    BY DEF NoHost, Running, Targets, Forms
  <2>2. host \in [Surfaces -> Running]
    BY DEF IInv, DiskType
  <2> QED
    BY <1>1, <2>1, <2>2 DEF Off
<1>3. /\ surface' \in [Surfaces -> Entries] /\ writes' \in 0 .. MaxWrites
      /\ \A u \in Surfaces : edits'[u] <= writes'
      /\ touched' \subseteq Surfaces /\ raced' \subseteq Surfaces
      /\ EditsSurvive' /\ ReadInv' /\ WorkType' /\ PlanType' /\ UndoType'
  <2>1. CASE s \in Rewriters
    <3>1. s \in Surfaces \ Containers
      BY <2>1, CutoverAssumption
    <3>2. Known(s) \in Entries /\ Known(s).rev = edits[s]
      BY <1>1, <2>1, <3>1, KnownParts
    <3>3. edits' \in [Surfaces -> 0 .. MaxWrites] /\ edits' = edits
      BY <1>1 DEF IInv, RunType
    <3>4. Write(s, Known(s)) /\ UNCHANGED <<pc, records>>
      BY <1>1, <2>1
    <3> QED
      BY <3>1, <3>2, <3>3, <3>4, OthersWrite
  <2>2. CASE s \notin Rewriters
    <3>1. UNCHANGED <<surface, writes, touched, raced, edits, pc, records>>
      BY <1>1, <2>2
    <3> QED
      BY <3>1 DEF IInv, DiskType, RunType, EditsSurvive, ReadInv, Fresh, WorkType, PlanType, UndoType,
                  records, plan, work, undo
  <2> QED
    BY <2>1, <2>2
<1>4. strays' \subseteq Surfaces /\ strays \subseteq strays'
  BY <1>1, StrayParts DEF IInv, RunType
<1>5. DiskType' /\ RunType'
  BY <1>1, <1>2, <1>3, <1>4 DEF IInv, DiskType, RunType, saved
<1>6. ServersKeepTheirCode' /\ KeepInv'
  BY <1>1, <1>2, <1>4, HostsLeave DEF records
<1> QED
  BY <1>3, <1>5, <1>6 DEF IInv

LEMMA UseVersionStep ==
    ASSUME IInv, NEW s \in Surfaces, NEW v \in Versions, UseVersion(s, v)
    PROVE  IInv'
<1> DEFINE e == [surface[s] EXCEPT !.to = v, !.new = v \notin Legacy]
<1>1. /\ s \notin Containers
      /\ wires' = [wires EXCEPT ![s] = v]
      /\ Write(s, e)
      /\ Stray(s)
      /\ UNCHANGED <<dirs, current, active, host, pc, records, runs, edits, wrote, lost, torn>>
  BY Zenon DEF UseVersion
<1>2. surface[s] \in Entries
  BY DEF IInv, DiskType
<1>3. e \in Entries /\ e.rev = surface[s].rev
  BY <1>2 DEF Entries
<1> HIDE DEF e
<1>4. wires' \in [Surfaces -> Targets]
  BY <1>1 DEF IInv, DiskType, Targets
<1>5. strays' \subseteq Surfaces /\ strays \subseteq strays'
  BY <1>1, StrayParts
<1>6. edits' \in [Surfaces -> 0 .. MaxWrites] /\ edits' = edits
  BY <1>1 DEF IInv, RunType
<1>7. /\ surface' \in [Surfaces -> Entries] /\ writes' \in 0 .. MaxWrites
      /\ \A u \in Surfaces : edits'[u] <= writes'
      /\ touched' \subseteq Surfaces /\ raced' \subseteq Surfaces
      /\ EditsSurvive' /\ ReadInv' /\ WorkType' /\ PlanType' /\ UndoType'
  <2>1. e.rev = edits'[s] \/ s \in raced
    BY <1>3, <1>6 DEF IInv, EditsSurvive
  <2>2. edits'[s] \in {edits[s], edits[s] + 1} /\ \A u \in Surfaces \ {s} : edits'[u] = edits[u]
    BY <1>6
  <2>3. s \in Surfaces \ Containers /\ Write(s, e) /\ UNCHANGED <<pc, records>>
    BY <1>1
  <2> QED
    BY <1>3, <1>6, <2>1, <2>2, <2>3, OthersWrite
<1>8. DiskType' /\ RunType'
  BY <1>1, <1>4, <1>5, <1>6, <1>7 DEF IInv, DiskType, RunType
<1>9. ServersKeepTheirCode' /\ KeepInv'
  BY <1>1, <1>5, HostsLeave DEF records
<1> QED
  BY <1>7, <1>8, <1>9 DEF IInv

LEMMA InstallStep ==
    ASSUME IInv, NEW v \in Versions, Install(v)
    PROVE  IInv'
<1>1. /\ dirs' = dirs \cup {v}
      /\ UNCHANGED <<current, wires, active, surface, host, pc, records, runs, writes, touched, history>>
  BY DEF Install, saved
<1>2. DiskType' /\ RunType' /\ EditsSurvive'
  BY <1>1 DEF IInv, DiskType, RunType, EditsSurvive, history
<1>3. ServersKeepTheirCode' /\ KeepInv'
  BY <1>1 DEF IInv, ServersKeepTheirCode, KeepInv, Served, Off, records, history
<1>4. PlanType' /\ WorkType' /\ UndoType' /\ ReadInv'
  BY <1>1 DEF IInv, PlanType, WorkType, UndoType, ReadInv, Fresh, records, plan, work, undo, history
<1> QED
  BY <1>2, <1>3, <1>4 DEF IInv

-----------------------------------------------------------------------------
(* The cutover.                                                              *)

\* A step that only looks.
LEMMA LookOnly ==
    ASSUME IInv, UNCHANGED <<disk, writes, history>>,
           pc' \in Steps, runs' \in 0 .. MaxRuns, touched' \subseteq Surfaces
    PROVE  /\ DiskType' /\ RunType' /\ EditsSurvive' /\ ServersKeepTheirCode'
           /\ \A u : Fresh(u) /\ pre'[u] = pre[u] => Fresh(u)'
           /\ UNCHANGED <<dirs, current, wires, active, surface, host, edits, raced, strays>>
<1>1. UNCHANGED <<dirs, current, wires, active, surface, host, writes, edits, raced, strays, wrote, lost, torn>>
  BY DEF disk, saved, history
<1>2. DiskType' /\ RunType' /\ EditsSurvive'
  BY <1>1 DEF IInv, DiskType, RunType, EditsSurvive
<1>3. ServersKeepTheirCode'
  BY <1>1, ServersKept
<1> QED
  BY <1>1, <1>2, <1>3 DEF Fresh

LEMMA BeginStep ==
    ASSUME IInv, NEW v \in Versions, Begin(v)
    PROVE  IInv'
<1>1. /\ pc = "idle" /\ runs < MaxRuns /\ pc' = "ready" /\ runs' = runs + 1
      /\ target' = v
      /\ doc' = [rows |-> wires, active |-> active]
      /\ running' = {s \in Rewriters : ~Off(s)}
      /\ todo' = Catalog
      /\ UNCHANGED <<disk, prev, at, pre, done, deferred, reported, protect, undo, keep, writes, touched, history>>
  BY Zenon DEF Begin
<1>2. pc' \in Steps /\ runs' \in 0 .. MaxRuns /\ touched' \subseteq Surfaces
  BY <1>1, CutoverAssumption DEF IInv, RunType, Steps
<1>3. /\ DiskType' /\ RunType' /\ EditsSurvive' /\ ServersKeepTheirCode'
  BY <1>1, <1>2, LookOnly
<1>4. PlanType'
  BY <1>1, CutoverAssumption DEF IInv, PlanType, DiskType, Targets
<1>5. WorkType' /\ UndoType'
  BY <1>1, CutoverAssumption DEF IInv, WorkType, UndoType, undo
<1>6. ReadInv'
  BY <1>1 DEF IInv, ReadInv, undo
<1>7. KeepInv'
  BY <1>1, KeptOutside
<1> QED
  BY <1>3, <1>4, <1>5, <1>6, <1>7 DEF IInv

LEMMA FlipStep ==
    ASSUME IInv, Flip
    PROVE  IInv'
<1>1. /\ pc = "ready" /\ pc' = "reconcile" /\ prev' = current /\ current' = target
      /\ UNCHANGED <<dirs, wires, active, surface, host, target, doc, running, work, undo, keep, runs,
                     writes, touched, history>>
  BY DEF Flip, saved
<1>2. DiskType' /\ PlanType'
  BY <1>1 DEF IInv, DiskType, PlanType
<1>3. RunType' /\ EditsSurvive'
  BY <1>1 DEF IInv, RunType, EditsSurvive, history, Steps
<1>4. WorkType' /\ UndoType' /\ ReadInv'
  BY <1>1 DEF IInv, WorkType, UndoType, ReadInv, Fresh, work, undo, history
<1>5. ServersKeepTheirCode' /\ KeepInv'
  BY <1>1, ServersKept, KeptOutside DEF history
<1> QED
  BY <1>2, <1>3, <1>4, <1>5 DEF IInv

LEMMA ReachedParts ==
    ASSUME IInv, NEW s \in Surfaces, Reached(s)
    PROVE  Tail(todo) \in Seq(Surfaces)
  BY DEF IInv, WorkType, Reached

LEMMA SkipStep ==
    ASSUME IInv, NEW s \in Surfaces, Skip(s)
    PROVE  IInv'
<1>1. /\ pc = "reconcile" /\ Reached(s) /\ todo' = Tail(todo)
      /\ UNCHANGED <<disk, pc, plan, at, pre, done, deferred, reported, protect, undo, keep, runs,
                     writes, touched, history>>
  BY Zenon DEF Skip
<1>2. pc' \in Steps /\ runs' \in 0 .. MaxRuns /\ touched' \subseteq Surfaces
  BY <1>1 DEF IInv, RunType
<1>3. /\ DiskType' /\ RunType' /\ EditsSurvive' /\ ServersKeepTheirCode'
  BY <1>1, <1>2, LookOnly
<1>4. WorkType' /\ PlanType' /\ UndoType'
  BY <1>1, ReachedParts DEF IInv, WorkType, PlanType, UndoType, plan, undo
<1>5. ReadInv'
  BY <1>1 DEF IInv, ReadInv, Fresh, undo, history
<1>6. KeepInv'
  BY <1>1, KeptOutside
<1> QED
  BY <1>3, <1>4, <1>5, <1>6 DEF IInv

LEMMA DeferStep ==
    ASSUME IInv, NEW s \in Surfaces, Defer(s)
    PROVE  IInv'
<1>1. /\ pc = "reconcile" /\ Reached(s) /\ todo' = Tail(todo)
      /\ deferred' = deferred \cup {s}
      /\ protect' = protect \cup Named(surface[s])
      /\ UNCHANGED <<disk, pc, plan, at, pre, done, reported, undo, keep, runs, writes, touched, history>>
  BY Zenon DEF Defer
<1>2. pc' \in Steps /\ runs' \in 0 .. MaxRuns /\ touched' \subseteq Surfaces
  BY <1>1 DEF IInv, RunType
<1>3. /\ DiskType' /\ RunType' /\ EditsSurvive' /\ ServersKeepTheirCode'
  BY <1>1, <1>2, LookOnly
<1>4. WorkType' /\ PlanType' /\ UndoType'
  BY <1>1, ReachedParts DEF IInv, WorkType, PlanType, UndoType, plan, undo, Named
<1>5. ReadInv'
  BY <1>1 DEF IInv, ReadInv, Fresh, undo, history
<1>6. KeepInv'
  BY <1>1, KeptOutside
<1> QED
  BY <1>3, <1>4, <1>5, <1>6 DEF IInv

LEMMA StageStep ==
    ASSUME IInv, NEW s \in Surfaces, Stage(s)
    PROVE  IInv'
<1>1. /\ pc = "reconcile" /\ Reached(s) /\ s \notin Containers
      /\ pc' = "staged" /\ at' = s
      /\ todo' = Tail(todo)
      /\ pre' = [pre EXCEPT ![s] = surface[s]]
      /\ touched' = touched \ {s}
      /\ UNCHANGED <<disk, plan, done, deferred, reported, protect, undo, keep, runs, writes, history>>
  BY Zenon DEF Stage
<1>2. pc' \in Steps /\ runs' \in 0 .. MaxRuns /\ touched' \subseteq Surfaces
  BY <1>1 DEF IInv, RunType, Steps
<1>3. /\ DiskType' /\ RunType' /\ EditsSurvive' /\ ServersKeepTheirCode'
      /\ \A u : Fresh(u) /\ pre'[u] = pre[u] => Fresh(u)'
  BY <1>1, <1>2, LookOnly
<1>4. /\ pre' \in [Surfaces -> Entries] /\ pre'[s] = surface[s]
      /\ \A u \in Surfaces \ {s} : pre'[u] = pre[u]
  BY <1>1 DEF IInv, WorkType, DiskType
<1>5. WorkType' /\ PlanType' /\ UndoType'
  BY <1>1, <1>4, ReachedParts DEF IInv, WorkType, PlanType, UndoType, plan, undo
<1>6. Fresh(s)'
  BY <1>1, <1>4 DEF IInv, EditsSurvive, Fresh, history
<1>7. ReadInv'
  BY <1>1, <1>3, <1>4, <1>6 DEF IInv, ReadInv, undo, WorkType
<1>8. KeepInv'
  BY <1>1, KeptOutside
<1> QED
  BY <1>3, <1>5, <1>7, <1>8 DEF IInv

LEMMA CheckStep ==
    ASSUME IInv, Check
    PROVE  IInv'
<1>1. /\ pc = "staged" /\ at \notin touched /\ pc' = "checked"
      /\ UNCHANGED <<disk, records, runs, writes, touched, history>>
  BY Zenon DEF Check
<1>2. pc' \in Steps /\ runs' \in 0 .. MaxRuns /\ touched' \subseteq Surfaces
  BY <1>1 DEF IInv, RunType, Steps
<1>3. /\ DiskType' /\ RunType' /\ EditsSurvive' /\ ServersKeepTheirCode'
  BY <1>1, <1>2, LookOnly
<1>4. WorkType' /\ PlanType' /\ UndoType' /\ ReadInv'
  BY <1>1 DEF IInv, WorkType, PlanType, UndoType, ReadInv, Fresh, records, plan, work, undo, history
<1>5. KeepInv'
  BY <1>1, KeptOutside
<1> QED
  BY <1>3, <1>4, <1>5 DEF IInv

LEMMA ReadbackStep ==
    ASSUME IInv, Readback
    PROVE  IInv'
<1>1. /\ pc = "replaced" /\ surface[at] = Rewritten(pre[at])
      /\ pc' = "reconcile" /\ done' = done \cup {at} /\ touched' = touched \ {at}
      /\ UNCHANGED <<disk, plan, todo, at, pre, deferred, reported, protect, undo, keep, runs, writes, history>>
  BY Zenon DEF Readback
<1>2. pc' \in Steps /\ runs' \in 0 .. MaxRuns /\ touched' \subseteq Surfaces
  BY <1>1 DEF IInv, RunType, Steps
<1>3. /\ DiskType' /\ RunType' /\ EditsSurvive' /\ ServersKeepTheirCode'
      /\ \A u : Fresh(u) /\ pre'[u] = pre[u] => Fresh(u)'
  BY <1>1, <1>2, LookOnly
<1>4. at \in Surfaces /\ pre[at] \in Entries
  BY <1>1 DEF IInv, ReadInv, WorkType
<1>5. Fresh(at)
  BY <1>1, <1>4, RewrittenParts DEF IInv, EditsSurvive, Fresh
<1>6. WorkType' /\ PlanType' /\ UndoType'
  BY <1>1, <1>4 DEF IInv, WorkType, PlanType, UndoType, plan, undo
<1>7. ReadInv'
  BY <1>1, <1>3, <1>4, <1>5 DEF IInv, ReadInv, undo
<1>8. KeepInv'
  BY <1>1, KeptOutside
<1> QED
  BY <1>3, <1>6, <1>7, <1>8 DEF IInv

LEMMA ConflictStep ==
    ASSUME IInv, Conflict
    PROVE  IInv'
<1>1. /\ pc \in {"staged", "replaced"} /\ pc' = "containers" /\ reported' = reported \cup {at}
      /\ UNCHANGED <<disk, plan, todo, at, pre, done, deferred, protect, undo, keep, runs, writes, touched,
                     history>>
  BY DEF Conflict
<1>2. pc' \in Steps /\ runs' \in 0 .. MaxRuns /\ touched' \subseteq Surfaces
  BY <1>1 DEF IInv, RunType, Steps
<1>3. /\ DiskType' /\ RunType' /\ EditsSurvive' /\ ServersKeepTheirCode'
  BY <1>1, <1>2, LookOnly
<1>4. WorkType' /\ PlanType' /\ UndoType'
  BY <1>1 DEF IInv, ReadInv, WorkType, PlanType, UndoType, plan, undo
<1>5. ReadInv'
  BY <1>1 DEF IInv, ReadInv, Fresh, undo, history
<1>6. KeepInv'
  BY <1>1, KeptOutside
<1> QED
  BY <1>3, <1>4, <1>5, <1>6 DEF IInv

LEMMA FailsOrVerifiedStep ==
    ASSUME IInv, Fails \/ Verify
    PROVE  IInv'
<1>1. /\ pc = "reconcile" /\ pc' \in {"containers", "save"}
      /\ UNCHANGED <<disk, records, runs, writes, touched, history>>
  BY DEF Fails, Verify
<1>2. pc' \in Steps /\ runs' \in 0 .. MaxRuns /\ touched' \subseteq Surfaces
  BY <1>1 DEF IInv, RunType, Steps
<1>3. /\ DiskType' /\ RunType' /\ EditsSurvive' /\ ServersKeepTheirCode'
  BY <1>1, <1>2, LookOnly
<1>4. WorkType' /\ PlanType' /\ UndoType' /\ ReadInv'
  BY <1>1 DEF IInv, WorkType, PlanType, UndoType, ReadInv, Fresh, records, plan, work, undo, history
<1>5. KeepInv'
  BY <1>1, KeptOutside
<1> QED
  BY <1>3, <1>4, <1>5 DEF IInv

\* A step of the cutover that writes surfaces.
LEMMA Written ==
    ASSUME IInv, surface' \in [Surfaces -> Entries],
           UNCHANGED <<dirs, current, saved, host, runs, writes, edits, raced, strays, torn>>,
           pc' \in Steps, touched' \subseteq Surfaces, wrote' \subseteq Surfaces, lost' \subseteq Surfaces
    PROVE  /\ DiskType' /\ RunType' /\ ServersKeepTheirCode'
           /\ \A u : Fresh(u) /\ pre'[u] = pre[u] => Fresh(u)'
<1>1. DiskType' /\ RunType'
  BY DEF IInv, DiskType, RunType, saved
<1>2. ServersKeepTheirCode'
  BY ServersKept
<1> QED
  BY <1>1, <1>2 DEF Fresh

LEMMA ReplaceStep ==
    ASSUME IInv, Replace
    PROVE  IInv'
<1>1. /\ pc = "checked" /\ pc' = "replaced"
      /\ surface' = [surface EXCEPT ![at] = Rewritten(pre[at])]
      /\ touched' = touched \ {at} /\ wrote' = wrote \cup {at}
      /\ UNCHANGED <<dirs, current, saved, host, records, runs, writes, edits, raced, strays, lost, torn>>
  BY Zenon DEF Replace
<1>2. at \in Surfaces /\ Fresh(at) /\ pre[at] \in Entries
  BY <1>1 DEF IInv, ReadInv, WorkType
<1>3. /\ surface' \in [Surfaces -> Entries] /\ surface'[at].rev = pre[at].rev
      /\ \A u \in Surfaces \ {at} : surface'[u] = surface[u]
  BY <1>1, <1>2, RewrittenParts, SurfaceSet DEF IInv
<1>4. /\ pc' \in Steps /\ touched' \subseteq Surfaces /\ wrote' \subseteq Surfaces /\ lost' \subseteq Surfaces
  BY <1>1, <1>2 DEF IInv, RunType, Steps
<1>5. /\ DiskType' /\ RunType' /\ ServersKeepTheirCode'
      /\ \A u : Fresh(u) /\ pre'[u] = pre[u] => Fresh(u)'
  BY <1>1, <1>3, <1>4, Written
<1>6. EditsSurvive'
  BY <1>1, <1>2, <1>3 DEF IInv, EditsSurvive, Fresh
<1>7. WorkType' /\ PlanType' /\ UndoType'
  BY <1>1 DEF IInv, WorkType, PlanType, UndoType, records, plan, work, undo
<1>8. UNCHANGED <<at, pre, done, restorable>>
  BY <1>1 DEF records, work, undo
<1>9. ReadInv'
  BY <1>1, <1>2, <1>5, <1>8 DEF IInv, ReadInv
<1>10. KeepInv'
  BY <1>1, KeptOutside
<1> QED
  BY <1>5, <1>6, <1>7, <1>9, <1>10 DEF IInv

\* A container about to be swapped.
LEMMA SwapParts ==
    ASSUME IInv, NEW s \in Surfaces, Swap(s), NEW e \in Entries, e.rev = surface[s].rev,
           surface' = [surface EXCEPT ![s] = e], pc' \in Steps, lost' \subseteq Surfaces
    PROVE  /\ DiskType' /\ RunType' /\ ServersKeepTheirCode' /\ EditsSurvive'
           /\ PlanType' /\ UndoType' /\ todo' \in Seq(Surfaces) /\ pre' \in [Surfaces -> Entries]
           /\ deferred' \subseteq Surfaces /\ reported' \subseteq Surfaces /\ protect' \subseteq Versions
           /\ UNCHANGED restorable /\ Fresh(s)'
           /\ \A u \in done : (u \in touched \ Containers \/ Fresh(u))'
<1>1. /\ pc = "reconcile" /\ Reached(s) /\ s \in Containers
      /\ todo' = Tail(todo)
      /\ pre' = [pre EXCEPT ![s] = surface[s]]
      /\ wrote' = wrote \cup {s}
      /\ UNCHANGED <<dirs, current, saved, host, plan, deferred, reported, protect, undo, keep,
                     runs, writes, touched, edits, raced, strays, torn>>
  BY Zenon DEF Swap
<1>2. surface[s] \in Entries /\ pre \in [Surfaces -> Entries] /\ done \subseteq Surfaces
  BY DEF IInv, DiskType, WorkType
<1>3. /\ surface' \in [Surfaces -> Entries] /\ surface'[s] = e
      /\ \A u \in Surfaces \ {s} : surface'[u] = surface[u]
  BY SurfaceSet DEF IInv
<1>4. /\ pre' \in [Surfaces -> Entries] /\ pre'[s] = surface[s]
      /\ \A u \in Surfaces \ {s} : pre'[u] = pre[u]
  BY <1>1, <1>2
<1>5. touched' \subseteq Surfaces /\ wrote' \subseteq Surfaces
  BY <1>1 DEF IInv, RunType
<1>6. /\ DiskType' /\ RunType' /\ ServersKeepTheirCode'
      /\ \A u : Fresh(u) /\ pre'[u] = pre[u] => Fresh(u)'
  BY <1>1, <1>3, <1>5, Written
<1>7. EditsSurvive'
  BY <1>1, <1>3 DEF IInv, EditsSurvive
<1>8. Fresh(s)'
  BY <1>1, <1>4 DEF IInv, EditsSurvive, Fresh
<1>9. \A u \in done : (u \in touched \ Containers \/ Fresh(u))'
  BY <1>1, <1>2, <1>4, <1>6, <1>8 DEF IInv, ReadInv
<1>10. PlanType' /\ UndoType' /\ UNCHANGED restorable
  BY <1>1 DEF IInv, PlanType, UndoType, plan, undo
<1>11. todo' \in Seq(Surfaces)
  BY <1>1, ReachedParts
<1>12. deferred' \subseteq Surfaces /\ reported' \subseteq Surfaces /\ protect' \subseteq Versions
  BY <1>1 DEF IInv, WorkType
<1> QED
  BY <1>4, <1>6, <1>7, <1>8, <1>9, <1>10, <1>11, <1>12

\* What a container is converged to.
LEMMA SwappedParts ==
    ASSUME IInv, NEW s \in Surfaces, NEW form \in {"copy", "links"}
    PROVE  /\ Swapped(s, form) \in Entries /\ Swapped(s, form).rev = surface[s].rev
           /\ Swapped(s, form).as = form
           /\ Swapped(s, form).to = (IF form = "links" THEN Current ELSE target)
  BY DEF IInv, DiskType, PlanType, Targets, Entries, Forms, Swapped

LEMMA SwapLinksStep ==
    ASSUME IInv, NEW s \in Surfaces, SwapLinks(s)
    PROVE  IInv'
<1>1. /\ Swap(s) /\ pc = "reconcile" /\ surface' = [surface EXCEPT ![s] = Swapped(s, "links")]
      /\ done' = done \cup {s} /\ UNCHANGED <<pc, at, lost>>
  BY DEF SwapLinks, Swap
<1>2. pc' \in Steps /\ lost' \subseteq Surfaces
  BY <1>1 DEF IInv, RunType
<1>3. Swapped(s, "links") \in Entries /\ Swapped(s, "links").rev = surface[s].rev
  BY SwappedParts
<1>4. /\ DiskType' /\ RunType' /\ ServersKeepTheirCode' /\ EditsSurvive'
      /\ PlanType' /\ UndoType' /\ todo' \in Seq(Surfaces) /\ pre' \in [Surfaces -> Entries]
      /\ deferred' \subseteq Surfaces /\ reported' \subseteq Surfaces /\ protect' \subseteq Versions
      /\ UNCHANGED restorable /\ Fresh(s)'
      /\ \A u \in done : (u \in touched \ Containers \/ Fresh(u))'
  BY <1>1, <1>2, <1>3, SwapParts
<1>5. WorkType'
  BY <1>1, <1>4 DEF IInv, WorkType
<1>6. ReadInv'
  BY <1>1, <1>4 DEF IInv, ReadInv
<1>7. KeepInv'
  BY <1>1, KeptOutside
<1> QED
  BY <1>4, <1>5, <1>6, <1>7 DEF IInv

LEMMA SwapAsideStep ==
    ASSUME IInv, NEW s \in Surfaces, SwapAside(s)
    PROVE  IInv'
<1> DEFINE e == [surface[s] EXCEPT !.to = None]
<1>1. /\ Swap(s) /\ pc = "reconcile" /\ s \in Containers
      /\ pc' = "aside" /\ at' = s /\ surface' = [surface EXCEPT ![s].to = None]
      /\ lost' \in {lost, lost \cup {s}} /\ UNCHANGED done
  BY DEF SwapAside, Swap
<1>2. e \in Entries /\ e.rev = surface[s].rev /\ surface' = [surface EXCEPT ![s] = e]
  BY <1>1 DEF IInv, DiskType, Entries
<1>3. pc' \in Steps /\ lost' \subseteq Surfaces
  BY <1>1 DEF IInv, RunType, Steps
<1> HIDE DEF e
<1>4. /\ DiskType' /\ RunType' /\ ServersKeepTheirCode' /\ EditsSurvive'
      /\ PlanType' /\ UndoType' /\ todo' \in Seq(Surfaces) /\ pre' \in [Surfaces -> Entries]
      /\ deferred' \subseteq Surfaces /\ reported' \subseteq Surfaces /\ protect' \subseteq Versions
      /\ UNCHANGED restorable /\ Fresh(s)'
      /\ \A u \in done : (u \in touched \ Containers \/ Fresh(u))'
  BY <1>1, <1>2, <1>3, SwapParts
<1>5. WorkType'
  BY <1>1, <1>4 DEF IInv, WorkType
<1>6. ReadInv'
  BY <1>1, <1>4 DEF IInv, ReadInv
<1>7. KeepInv'
  BY <1>1, KeptOutside
<1> QED
  BY <1>4, <1>5, <1>6, <1>7 DEF IInv

LEMMA SwapEndStep ==
    ASSUME IInv, SwapIn \/ SwapFails
    PROVE  IInv'
<1>1. PICK form \in {"copy", "links"} : surface' = [surface EXCEPT ![at] = Swapped(at, form)]
  BY DEF SwapIn, SwapFails, Modes
<1>2. /\ pc = "aside" /\ pc' \in {"reconcile", "containers"}
      /\ done' \in {done, done \cup {at}}
      /\ lost' \in {lost, lost \cup {at}}
      /\ UNCHANGED <<dirs, current, saved, host, plan, todo, at, pre, deferred, reported, protect,
                     undo, keep, runs, writes, touched, edits, raced, strays, wrote, torn>>
  BY DEF SwapIn, SwapFails, records, work, history
<1>3. at \in Surfaces /\ Fresh(at) /\ at \in Containers
  BY <1>2 DEF IInv, ReadInv
<1>4. /\ surface' \in [Surfaces -> Entries] /\ surface'[at].rev = surface[at].rev
      /\ \A u \in Surfaces \ {at} : surface'[u] = surface[u]
  BY <1>1, <1>3, SwappedParts, SurfaceSet DEF IInv
<1>5. /\ pc' \in Steps /\ touched' \subseteq Surfaces /\ wrote' \subseteq Surfaces /\ lost' \subseteq Surfaces
  BY <1>2, <1>3 DEF IInv, RunType, Steps
<1>6. /\ DiskType' /\ RunType' /\ ServersKeepTheirCode'
      /\ \A u : Fresh(u) /\ pre'[u] = pre[u] => Fresh(u)'
  BY <1>2, <1>4, <1>5, Written
<1>7. EditsSurvive'
  BY <1>2, <1>4 DEF IInv, EditsSurvive
<1>8. WorkType' /\ PlanType' /\ UndoType'
  BY <1>2, <1>3 DEF IInv, WorkType, PlanType, UndoType, plan, undo
<1>9. ReadInv'
  BY <1>2, <1>3, <1>6 DEF IInv, ReadInv, undo
<1>10. KeepInv'
  BY <1>2, KeptOutside
<1> QED
  BY <1>6, <1>7, <1>8, <1>9, <1>10 DEF IInv

-----------------------------------------------------------------------------
(* Rolling back.                                                             *)

\* What a container goes back to.
LEMMA RecordedParts ==
    ASSUME IInv, NEW s \in Surfaces
    PROVE  /\ Recorded(s) \in Entries /\ Recorded(s).rev = pre[s].rev
           /\ pre[s].as = "link" => Recorded(s).to = None
           /\ pre[s].as # "link" => Recorded(s) = pre[s]
  BY DEF IInv, WorkType, Entries, Forms, Recorded

LEMMA ContainersStep ==
    ASSUME IInv, PutBack \/ \E s \in Surfaces : RollBackContainer(s) \/ TakeOut(s)
    PROVE  IInv'
<1>1. PICK s \in Surfaces :
        /\ pc \in {"containers", "missing"} /\ s \in done \cap Containers
        /\ \/ /\ pc' = "containers" /\ done' = done \ {s} /\ at' = at
              /\ surface' = [surface EXCEPT ![s] = Recorded(s)]
           \/ /\ pc' = "missing" /\ done' = done /\ at' = s
              /\ surface' = [surface EXCEPT ![s].to = None]
        /\ UNCHANGED <<dirs, current, saved, host, plan, todo, pre, deferred, reported, protect,
                       undo, keep, runs, writes, touched, history>>
  BY DEF IInv, ReadInv, PutBack, RollBackContainer, TakeOut
<1>2. PICK e \in Entries : /\ surface' = [surface EXCEPT ![s] = e]
                           /\ e.rev \in {pre[s].rev, surface[s].rev}
  <2>1. CASE surface' = [surface EXCEPT ![s] = Recorded(s)]
    BY <2>1, RecordedParts
  <2>2. CASE surface' = [surface EXCEPT ![s].to = None]
    <3>1. surface[s] \in Entries /\ surface \in [Surfaces -> Entries]
      BY DEF IInv, DiskType
    <3>2. [surface[s] EXCEPT !.to = None] \in Entries /\ [surface[s] EXCEPT !.to = None].rev = surface[s].rev
      BY <3>1 DEF Entries
    <3>3. surface' = [surface EXCEPT ![s] = [surface[s] EXCEPT !.to = None]]
      BY <2>2, <3>1
    <3> QED
      BY <3>2, <3>3
  <2> QED
    BY <1>1, <2>1, <2>2
<1>3. /\ surface' \in [Surfaces -> Entries] /\ surface'[s] = e
      /\ \A u \in Surfaces \ {s} : surface'[u] = surface[u]
  BY <1>2, SurfaceSet DEF IInv
<1>4. /\ pc' \in Steps /\ touched' \subseteq Surfaces /\ wrote' \subseteq Surfaces /\ lost' \subseteq Surfaces
      /\ UNCHANGED <<edits, raced, strays, torn>>
  BY <1>1 DEF IInv, RunType, Steps, history
<1>5. /\ DiskType' /\ RunType' /\ ServersKeepTheirCode'
      /\ \A u : Fresh(u) /\ pre'[u] = pre[u] => Fresh(u)'
  BY <1>1, <1>3, <1>4, Written
<1>6. Fresh(s)
  BY <1>1 DEF IInv, ReadInv
<1>7. EditsSurvive'
  BY <1>2, <1>3, <1>4, <1>6 DEF IInv, EditsSurvive, Fresh
<1>8. WorkType' /\ PlanType' /\ UndoType'
  BY <1>1 DEF IInv, WorkType, PlanType, UndoType, plan, undo
<1>9. ReadInv'
  BY <1>1, <1>5 DEF IInv, ReadInv, undo
<1>10. KeepInv'
  BY <1>1, KeptOutside
<1> QED
  BY <1>5, <1>7, <1>8, <1>9, <1>10 DEF IInv

LEMMA ClassifyStep ==
    ASSUME IInv, Classify
    PROVE  IInv'
<1> DEFINE Needs(f, S) == {f[s].new : s \in {t \in S : f[t].to = Current}}
<1>1. /\ pc = "containers" /\ pc' = "repoint"
      /\ restorable' = done \ touched
      /\ reported' = reported \cup (done \cap touched)
      /\ unmet' = Needs(surface, Surfaces \ (Containers \cup restorable'))
      /\ needs' = unmet' \cup Needs(pre, restorable')
      /\ UNCHANGED <<disk, plan, todo, at, pre, done, deferred, protect, matches, keep, runs, writes,
                     touched, history>>
  BY Zenon DEF Classify
<1>2. pc' \in Steps /\ runs' \in 0 .. MaxRuns /\ touched' \subseteq Surfaces
  BY <1>1 DEF IInv, RunType, Steps
<1>3. /\ DiskType' /\ RunType' /\ EditsSurvive' /\ ServersKeepTheirCode'
      /\ \A u : Fresh(u) /\ pre'[u] = pre[u] => Fresh(u)'
  BY <1>1, <1>2, LookOnly
<1>4. restorable' \subseteq Surfaces /\ reported' \subseteq Surfaces
  BY <1>1 DEF IInv, WorkType
<1>5. unmet' \subseteq BOOLEAN /\ needs' \subseteq BOOLEAN
  <2>1. \A s \in Surfaces : surface[s].new \in BOOLEAN /\ pre[s].new \in BOOLEAN
    BY EntryParts DEF IInv, DiskType, WorkType
  <2> QED
    BY <1>1, <1>4, <2>1
<1>6. WorkType' /\ PlanType' /\ UndoType'
  BY <1>1, <1>4, <1>5 DEF IInv, WorkType, PlanType, UndoType, plan
<1>7. ReadInv'
  BY <1>1, <1>3 DEF IInv, ReadInv
<1>8. KeepInv'
  BY <1>1, KeptOutside
<1> QED
  BY <1>3, <1>6, <1>7, <1>8 DEF IInv

LEMMA FallbackParts ==
    ASSUME IInv
    PROVE  Fallbacks \subseteq Targets
<1>1. /\ prev \in Targets /\ target \in Targets /\ doc.active \in Targets
  BY DEF IInv, PlanType
<1>2. UNION {Named(pre[s]) : s \in done \ restorable} \subseteq Targets
  BY DEF Named, Targets
<1> QED
  BY <1>1, <1>2 DEF Fallbacks

LEMMA RepointStep ==
    ASSUME IInv, Repoint
    PROVE  IInv'
<1>1. /\ pc = "repoint" /\ pc' = "restore" /\ matches' \in BOOLEAN
      /\ current' = prev \/ current' \in Fallbacks
      /\ UNCHANGED <<dirs, wires, active, surface, host, plan, work, needs, unmet, restorable, keep, runs,
                     writes, touched, history>>
  BY DEF Repoint, saved
<1>2. current' \in Targets
  BY <1>1, FallbackParts DEF IInv, PlanType
<1>3. DiskType' /\ RunType' /\ EditsSurvive'
  BY <1>1, <1>2 DEF IInv, DiskType, RunType, EditsSurvive, history, Steps
<1>4. WorkType' /\ PlanType' /\ UndoType' /\ ReadInv'
  BY <1>1 DEF IInv, WorkType, PlanType, UndoType, ReadInv, Fresh, work, plan, history
<1>5. ServersKeepTheirCode' /\ KeepInv'
  BY <1>1, ServersKept, KeptOutside DEF history
<1> QED
  BY <1>3, <1>4, <1>5 DEF IInv

LEMMA RestoreStep ==
    ASSUME IInv, NEW s \in Surfaces, Restore(s)
    PROVE  IInv'
<1> DEFINE former == IF prev \in dirs THEN prev ELSE doc.active
           pinned == pre[s].to = Current /\ ~matches /\ Satisfies(former, pre[s].new)
           e == IF pinned THEN [pre[s] EXCEPT !.to = former] ELSE pre[s]
<1>1. /\ pc = "restore" /\ s \in restorable
      /\ restorable' = restorable \ {s}
      /\ touched' = touched \ {s}
      /\ surface' = [surface EXCEPT ![s] = e]
      /\ reported' \in {reported, reported \cup {s}}
      /\ UNCHANGED <<dirs, current, saved, host, pc, plan, todo, at, pre, done, deferred, protect,
                     needs, unmet, matches, keep, runs, writes, history>>
  BY DEF Restore
<1>2. pre[s] \in Entries /\ former \in Versions \cup {Current, None} /\ Fresh(s)
  BY <1>1 DEF IInv, WorkType, PlanType, Targets, ReadInv
<1>3. e \in Entries /\ e.rev = pre[s].rev
  <2> HIDE DEF former
  <2> QED
    BY <1>2, EntryParts
<1> HIDE DEF e
<1>4. /\ surface' \in [Surfaces -> Entries] /\ surface'[s] = e
      /\ \A u \in Surfaces \ {s} : surface'[u] = surface[u]
  BY <1>1, <1>3, SurfaceSet DEF IInv
<1>5. /\ pc' \in Steps /\ touched' \subseteq Surfaces /\ wrote' \subseteq Surfaces /\ lost' \subseteq Surfaces
      /\ UNCHANGED <<edits, raced, strays, torn>>
  BY <1>1 DEF IInv, RunType, Steps, history
<1>6. /\ DiskType' /\ RunType' /\ ServersKeepTheirCode'
      /\ \A u : Fresh(u) /\ pre'[u] = pre[u] => Fresh(u)'
  BY <1>1, <1>4, <1>5, Written
<1>7. EditsSurvive'
  BY <1>2, <1>3, <1>4, <1>5 DEF IInv, EditsSurvive, Fresh
<1>8. WorkType' /\ PlanType' /\ UndoType'
  BY <1>1 DEF IInv, WorkType, PlanType, UndoType, plan
<1>9. ReadInv'
  BY <1>1, <1>2, <1>6 DEF IInv, ReadInv
<1>10. KeepInv'
  BY <1>1, KeptOutside
<1> QED
  BY <1>6, <1>7, <1>8, <1>9, <1>10 DEF IInv

\* A cutover that ends, whatever its end.
LEMMA Ended ==
    ASSUME IInv, pc' = "idle", Forget
    PROVE  PlanType' /\ WorkType' /\ UndoType' /\ ReadInv' /\ KeepInv' /\ touched' = {} /\ wrote' = {}
<1>1. /\ target' = None /\ prev' = None /\ doc' = [rows |-> [s \in Surfaces |-> None], active |-> None]
      /\ running' = {} /\ todo' = <<>> /\ at' = None
      /\ pre' = [s \in Surfaces |-> Blank]
      /\ done' = {} /\ deferred' = {} /\ reported' = {} /\ protect' = {}
      /\ needs' = {} /\ unmet' = {} /\ matches' = TRUE /\ restorable' = {} /\ keep' = {}
      /\ touched' = {} /\ wrote' = {}
  BY Zenon DEF Forget
<1>2. Blank \in Entries
  BY CutoverAssumption DEF Entries, Blank, Forms
<1>3. PlanType' /\ WorkType' /\ UndoType'
  BY <1>1, <1>2 DEF PlanType, WorkType, UndoType, Targets
<1>4. ReadInv' /\ KeepInv'
  BY <1>1 DEF ReadInv, KeepInv
<1> QED
  BY <1>1, <1>3, <1>4

LEMMA EndStep ==
    ASSUME IInv, RolledBack \/ Crash
    PROVE  IInv'
<1>1. /\ pc' = "idle" /\ Forget /\ torn' \in BOOLEAN
      /\ UNCHANGED <<dirs, current, wires, active, surface, host, runs, writes, edits, raced, strays, lost>>
  <2>1. torn \in BOOLEAN
    BY DEF IInv, RunType
  <2> QED
    BY <2>1 DEF RolledBack, Crash, disk, saved
<1>2. PlanType' /\ WorkType' /\ UndoType' /\ ReadInv' /\ KeepInv' /\ touched' = {} /\ wrote' = {}
  BY <1>1, Ended
<1>3. DiskType' /\ RunType' /\ EditsSurvive'
  BY <1>1, <1>2 DEF IInv, DiskType, RunType, EditsSurvive, Steps
<1>4. ServersKeepTheirCode'
  BY <1>1, ServersKept
<1> QED
  BY <1>2, <1>3, <1>4 DEF IInv

-----------------------------------------------------------------------------
(* Going on.                                                                 *)

LEMMA SaveStep ==
    ASSUME IInv, Save
    PROVE  IInv'
<1>1. /\ pc = "save" /\ pc' = "scan" /\ torn' \in BOOLEAN
      /\ UNCHANGED <<dirs, current, surface, host, records, runs, writes, touched, edits, raced, strays, wrote>>
      /\ lost' \subseteq lost
      /\ \/ UNCHANGED <<wires, active>>
         \/ wires' = doc.rows /\ active' = target
  BY DEF Save, saved, IInv, RunType
<1>2. doc.rows \in [Surfaces -> Targets] /\ target \in Targets
  BY DEF IInv, PlanType
<1>3. DiskType' /\ RunType' /\ EditsSurvive'
  BY <1>1, <1>2 DEF IInv, DiskType, RunType, EditsSurvive, Steps
<1>4. WorkType' /\ PlanType' /\ UndoType' /\ ReadInv'
  BY <1>1 DEF IInv, WorkType, PlanType, UndoType, ReadInv, Fresh, records, work, plan, undo
<1>5. ServersKeepTheirCode' /\ KeepInv'
  BY <1>1, ServersKept, KeptOutside
<1> QED
  BY <1>3, <1>4, <1>5 DEF IInv

LEMMA ScanConfigsStep ==
    ASSUME IInv, ScanConfigs
    PROVE  IInv'
<1>1. /\ pc = "scan" /\ pc' = "servers"
      /\ keep' = Newest \cup ({current, prev, active} \cap Versions) \cup protect
                  \cup ({wires[s] : s \in Surfaces} \cap Versions)
                  \cup UNION {Named(surface[s]) : s \in Surfaces}
      /\ UNCHANGED <<disk, plan, work, undo, runs, writes, touched, history>>
  BY Zenon DEF ScanConfigs
<1>2. pc' \in Steps /\ runs' \in 0 .. MaxRuns /\ touched' \subseteq Surfaces
  BY <1>1 DEF IInv, RunType, Steps
<1>3. /\ DiskType' /\ RunType' /\ EditsSurvive' /\ ServersKeepTheirCode'
  BY <1>1, <1>2, LookOnly
<1>4. keep' \subseteq Versions
  BY <1>1 DEF IInv, DiskType, WorkType, Newest, Named
<1>5. WorkType' /\ PlanType' /\ UndoType' /\ ReadInv'
  BY <1>1, <1>4 DEF IInv, WorkType, PlanType, UndoType, ReadInv, Fresh, work, plan, undo, history
<1>6. KeepInv'
  BY <1>1, KeptOutside
<1> QED
  BY <1>3, <1>5, <1>6 DEF IInv

LEMMA ScanServersStep ==
    ASSUME IInv, ScanServers
    PROVE  IInv'
<1>1. /\ pc = "servers" /\ pc' = "prune"
      /\ keep' = keep \cup ({host[s].code : s \in Surfaces} \cap Versions)
      /\ UNCHANGED <<disk, plan, work, undo, runs, writes, touched, history>>
  BY Zenon DEF ScanServers
<1>2. pc' \in Steps /\ runs' \in 0 .. MaxRuns /\ touched' \subseteq Surfaces
  BY <1>1 DEF IInv, RunType, Steps
<1>3. /\ DiskType' /\ RunType' /\ EditsSurvive' /\ ServersKeepTheirCode'
      /\ UNCHANGED <<host, strays>>
  BY <1>1, <1>2, LookOnly
<1>4. WorkType' /\ PlanType' /\ UndoType' /\ ReadInv'
  BY <1>1 DEF IInv, WorkType, PlanType, UndoType, ReadInv, Fresh, work, plan, undo, history
<1>5. KeepInv'
  <2> SUFFICES ASSUME NEW s \in Surfaces PROVE Off(s)' \/ host'[s].code \in keep'
    BY DEF KeepInv, Served
  <2>1. host[s].code \in Versions \cup {None}
    BY DEF IInv, DiskType, Running, Targets
  <2> QED
    BY <1>1, <1>3, <2>1 DEF Off
<1> QED
  BY <1>3, <1>4, <1>5 DEF IInv

LEMMA PruneStep ==
    ASSUME IInv, Prune
    PROVE  IInv'
<1>1. /\ pc = "prune" /\ pc' = "idle" /\ Forget /\ dirs' = dirs \cap keep
      /\ UNCHANGED <<current, wires, active, surface, host, runs, writes, edits, raced, strays, lost, torn>>
  BY DEF Prune, saved
<1>2. PlanType' /\ WorkType' /\ UndoType' /\ ReadInv' /\ KeepInv' /\ touched' = {} /\ wrote' = {}
  BY <1>1, Ended
<1>3. DiskType' /\ RunType' /\ EditsSurvive'
  BY <1>1, <1>2 DEF IInv, DiskType, RunType, EditsSurvive, Steps
<1>4. ServersKeepTheirCode'
  BY <1>1 DEF IInv, ServersKeepTheirCode, KeepInv, Served, Off
<1> QED
  BY <1>2, <1>3, <1>4 DEF IInv

-----------------------------------------------------------------------------
(* The theorems.                                                             *)

LEMMA InitInv == Init => IInv
<1> SUFFICES ASSUME Init PROVE IInv
  OBVIOUS
<1>1. /\ dirs \subseteq Versions /\ current \in dirs
      /\ wires = [s \in Surfaces |-> None] /\ active = current
      /\ surface \in [Surfaces -> Entries] /\ \A s \in Surfaces : surface[s] \in Found(s)
      /\ host = [s \in Surfaces |-> NoHost]
      /\ pc = "idle" /\ runs = 0 /\ writes = 0
      /\ target = None /\ prev = None /\ doc = [rows |-> wires, active |-> None] /\ running = {}
      /\ todo = <<>> /\ at = None /\ pre = [s \in Surfaces |-> Blank]
      /\ done = {} /\ deferred = {} /\ reported = {} /\ protect = {}
      /\ needs = {} /\ unmet = {} /\ matches = TRUE /\ restorable = {} /\ keep = {}
      /\ touched = {}
      /\ edits = [s \in Surfaces |-> 0]
      /\ raced = {} /\ strays = {} /\ wrote = {} /\ lost = {} /\ torn = FALSE
  BY DEF Init
<1>2. Blank \in Entries
  BY CutoverAssumption DEF Entries, Blank, Forms
<1>3. NoHost \in Running /\ NoHost.code = None
  BY DEF NoHost, Running, Targets, Forms
<1>4. surface \in [Surfaces -> Entries] /\ \A s \in Surfaces : surface[s].rev = 0
  BY <1>1 DEF Found
<1>5. DiskType
  BY <1>1, <1>3, <1>4 DEF DiskType, Targets
<1>6. PlanType /\ UndoType
  BY <1>1 DEF PlanType, UndoType, Targets
<1>7. WorkType
  BY <1>1, <1>2 DEF WorkType
<1>8. RunType
  <2>1. 0 \in 0 .. MaxRuns /\ 0 \in 0 .. MaxWrites
    BY CutoverAssumption
  <2>2. edits \in [Surfaces -> 0 .. MaxWrites] /\ \A s \in Surfaces : edits[s] <= writes
    BY <1>1, <2>1
  <2> QED
    BY <1>1, <2>1, <2>2 DEF RunType, Steps
<1>9. EditsSurvive /\ ReadInv
  BY <1>1, <1>4 DEF EditsSurvive, ReadInv
<1>10. ServersKeepTheirCode /\ KeepInv
  BY <1>1, <1>3 DEF ServersKeepTheirCode, KeepInv, Off
<1> QED
  BY <1>5, <1>6, <1>7, <1>8, <1>9, <1>10 DEF IInv

LEMMA StepInv == IInv /\ [Next]_vars => IInv'
<1> SUFFICES ASSUME IInv, [Next]_vars PROVE IInv'
  OBVIOUS
<1>1. ASSUME NEW s \in Surfaces, HostStarts(s) \/ HostEdits(s) \/ HostExits(s) PROVE IInv'
  BY <1>1, HostStartsStep, HostEditsStep, HostExitsStep
<1>2. ASSUME NEW v \in Versions, Begin(v) \/ Install(v) \/ \E s \in Surfaces : UseVersion(s, v) PROVE IInv'
  BY <1>2, BeginStep, InstallStep, UseVersionStep
<1>3. ASSUME NEW s \in Surfaces, Skip(s) \/ Defer(s) \/ Stage(s) \/ SwapLinks(s) \/ SwapAside(s) PROVE IInv'
  BY <1>3, SkipStep, DeferStep, StageStep, SwapLinksStep, SwapAsideStep
<1>4. ASSUME Flip \/ Check \/ Replace \/ Readback \/ Conflict PROVE IInv'
  BY <1>4, FlipStep, CheckStep, ReplaceStep, ReadbackStep, ConflictStep
<1>5. ASSUME SwapIn \/ SwapFails \/ Fails \/ Verify PROVE IInv'
  BY <1>5, SwapEndStep, FailsOrVerifiedStep
<1>6. ASSUME \/ PutBack \/ \E s \in Surfaces : RollBackContainer(s) \/ TakeOut(s) \/ Restore(s)
             \/ Classify \/ Repoint \/ RolledBack \/ Crash
      PROVE  IInv'
  BY <1>6, ContainersStep, ClassifyStep, RepointStep, RestoreStep, EndStep
<1>7. ASSUME Save \/ ScanConfigs \/ ScanServers \/ Prune PROVE IInv'
  BY <1>7, SaveStep, ScanConfigsStep, ScanServersStep, PruneStep
<1>8. CASE UNCHANGED vars
  BY <1>8 DEF IInv, DiskType, PlanType, WorkType, UndoType, RunType, EditsSurvive, ReadInv, Fresh,
              ServersKeepTheirCode, KeepInv, Served, Off, vars, disk, saved, records, plan, work, undo, history
<1>9. CASE Next
  BY <1>1, <1>2, <1>3, <1>4, <1>5, <1>6, <1>7, <1>9, Zenon DEF Next, Cutover
<1> QED
  BY <1>8, <1>9

LEMMA Invariant == Spec => []IInv
  BY InitInv, StepInv, PTL DEF Spec

\* Disk, hosts and what a cutover knows keep their types.
THEOREM CutoverTypeCorrect == Spec => []TypeOK
<1>1. IInv => TypeOK
  BY DEF IInv, TypeOK, DiskType, PlanType, WorkType, UndoType, RunType
<1> QED
  BY <1>1, Invariant, PTL

\* A cutover never undoes an edit a host made to its own config, unless the edit
\* fell between the comparison and the write it allows.
THEOREM NoEditUndone == Spec => []EditsSurvive
<1>1. IInv => EditsSurvive
  BY DEF IInv
<1> QED
  BY <1>1, Invariant, PTL

\* The payload a live server runs from is not collected, unless its host started
\* or wrote its config during a cutover.
THEOREM CodeStaysOnDisk == Spec => []ServersKeepTheirCode
<1>1. IInv => ServersKeepTheirCode
  BY DEF IInv
<1> QED
  BY <1>1, Invariant, PTL

-----------------------------------------------------------------------------
(* What a rollback leaves behind.                                            *)

\* The steps between the flip and the link's way back.
Middle == {"reconcile", "staged", "checked", "replaced", "aside", "containers", "missing", "repoint"}

\* The link and the payloads it may go back to are on disk; it names the target
\* until a rollback takes it back.
LinkInv ==
    /\ current \in dirs
    /\ pc # "idle" => target \in dirs
    /\ pc \notin {"idle", "ready"} => prev \in dirs
    /\ pc \in {"servers", "prune"} => current \in keep
    /\ pc \notin {"idle", "ready", "restore"} => current = target

\* A container that was swapped launched no link, but for one that was a link and
\* has no record.
RecordInv ==
    pc \in Middle =>
        \A s \in Containers : s \in done \/ (pc = "aside" /\ at = s) =>
            /\ pre[s].as = "link" => s \in lost
            /\ pre[s].to = Current => pre[s].as = "link"

\* A container that is as it was.
Returned(s) == /\ pc \in {"containers", "missing", "repoint", "restore"} /\ s \in Containers
               /\ surface[s] = pre[s] /\ pre[s].to # Current

\* Until it saves, a surface that was rewritten has a record, or is reported, or has
\* no record to restore it from, or has been restored.
WroteInv ==
    pc \notin {"scan", "servers", "prune"} =>
        \A s \in wrote : \/ s \in done \cup reported \cup lost
                         \/ pc \in {"replaced", "aside"} /\ s = at
                         \/ Returned(s)

Back(s) == Launch(surface[s], current) = Launch(pre[s], prev)

\* Of the records, containers go back first, then files.
UndoInv ==
    /\ pc \in {"repoint", "restore"} =>
          /\ done \cap Containers = {} /\ restorable \subseteq done
          /\ \A s \in done : \/ s \in restorable \cup reported \cup touched
                             \/ pc = "restore" /\ Back(s)
    /\ pc = "restore" /\ matches => current = prev

RInv == LinkInv /\ RecordInv /\ WroteInv /\ UndoInv

\* Others write surfaces that are no containers, and are seen.
LEMMA OthersSeen ==
    ASSUME IInv, RInv, NEW s \in Surfaces \ Containers, NEW e, Write(s, e),
           UNCHANGED <<dirs, current, pc, records, wrote, lost>>
    PROVE  RInv'
<1>1. /\ surface' = [surface EXCEPT ![s] = e]
      /\ touched \subseteq touched' /\ (pc # "idle" => s \in touched')
  BY DEF Write
<1>2. surface \in [Surfaces -> Entries] /\ done \subseteq Surfaces /\ Containers \subseteq Surfaces
  BY CutoverAssumption DEF IInv, DiskType, WorkType
<1>3. \A u \in Surfaces \ {s} : surface'[u] = surface[u]
  BY <1>1, <1>2
<1>4. UNCHANGED <<target, prev, at, pre, done, reported, matches, restorable, keep>>
  BY DEF records, plan, work, undo
<1>5. LinkInv' /\ RecordInv' /\ WroteInv'
  <2>1. LinkInv' /\ RecordInv'
    BY <1>4 DEF RInv, LinkInv, RecordInv
  <2>2. \A u \in Surfaces : Returned(u) => Returned(u)'
    BY <1>3, <1>4 DEF Returned
  <2>3. wrote \subseteq Surfaces
    BY DEF IInv, RunType
  <2>4. WroteInv'
    BY <1>4, <2>2, <2>3 DEF RInv, WroteInv
  <2> QED
    BY <2>1, <2>4
<1>6. UndoInv'
  BY <1>1, <1>2, <1>3, <1>4 DEF RInv, UndoInv, Back
<1> QED
  BY <1>5, <1>6 DEF RInv

LEMMA OthersLeave ==
    ASSUME IInv, RInv, UNCHANGED <<surface, current, pc, records, wrote, lost, touched>>, dirs \subseteq dirs'
    PROVE  RInv'
  BY DEF RInv, LinkInv, RecordInv, WroteInv, Returned, UndoInv, Back, records, plan, work, undo

LEMMA HostsUndo ==
    ASSUME IInv, RInv, NEW s \in Surfaces,
           \/ HostStarts(s) \/ HostEdits(s) \/ HostExits(s)
           \/ \E v \in Versions : UseVersion(s, v) \/ Install(v)
    PROVE  RInv'
<1>1. CASE HostStarts(s) \/ \E v \in Versions : Install(v)
  <2>1. UNCHANGED <<surface, current, pc, records, wrote, lost, touched>> /\ dirs \subseteq dirs'
    BY <1>1 DEF HostStarts, Install, history
  <2> QED
    BY <2>1, OthersLeave
<1>2. CASE HostEdits(s)
  <2>1. /\ s \notin Containers /\ Write(s, [Known(s) EXCEPT !.rev = edits[s] + 1])
        /\ UNCHANGED <<dirs, current, pc, records, wrote, lost>>
    BY <1>2, Zenon DEF HostEdits
  <2> QED
    BY <2>1, OthersSeen
<1>3. CASE HostExits(s)
  <2>1. UNCHANGED <<dirs, current, pc, records, wrote, lost>>
    BY <1>3, Zenon DEF HostExits
  <2>2. CASE s \in Rewriters
    <3>1. Write(s, Known(s)) /\ s \notin Containers
      BY <1>3, <2>2, CutoverAssumption DEF HostExits
    <3> QED
      BY <2>1, <3>1, OthersSeen
  <2>3. CASE s \notin Rewriters
    <3>1. UNCHANGED <<surface, touched>>
      BY <1>3, <2>3 DEF HostExits
    <3> QED
      BY <2>1, <3>1, OthersLeave
  <2> QED
    BY <2>2, <2>3
<1>4. ASSUME NEW v \in Versions, UseVersion(s, v) PROVE RInv'
  <2>1. /\ s \notin Containers /\ Write(s, [surface[s] EXCEPT !.to = v, !.new = v \notin Legacy])
        /\ UNCHANGED <<dirs, current, pc, records, wrote, lost>>
    BY <1>4, Zenon DEF UseVersion
  <2> QED
    BY <2>1, OthersSeen
<1> QED
  BY <1>1, <1>2, <1>3, <1>4

LEMMA InstallsUndo ==
    ASSUME IInv, RInv, NEW v \in Versions, Install(v)
    PROVE  RInv'
<1>1. UNCHANGED <<surface, current, pc, records, wrote, lost, touched>> /\ dirs \subseteq dirs'
  BY DEF Install, history
<1> QED
  BY <1>1, OthersLeave

\* A container that is to be swapped.
LEMMA ContainerDelta ==
    ASSUME IInv, RInv, NEW s \in Containers, pc = "reconcile", HasDelta(s), surface[s].to = Current
    PROVE  surface[s].as = "link"
<1>1. current = target
  BY DEF RInv, LinkInv
<1> QED
  BY <1>1 DEF HasDelta, Launch

\* A container that is swapped, by a step that keeps the other surfaces.
LEMMA SwapUndo ==
    ASSUME IInv, RInv, NEW s \in Surfaces, SwapLinks(s) \/ SwapAside(s)
    PROVE  RInv'
<1>1. /\ pc = "reconcile" /\ s \in Containers /\ HasDelta(s)
      /\ pre' = [pre EXCEPT ![s] = surface[s]] /\ wrote' = wrote \cup {s}
      /\ UNCHANGED <<dirs, current, target, prev, reported, keep>>
      /\ \/ pc' = "reconcile" /\ done' = done \cup {s} /\ lost' = lost /\ surface[s].as = "links"
         \/ /\ pc' = "aside" /\ at' = s /\ done' = done
            /\ lost' = IF surface[s].as = "link" THEN lost \cup {s} ELSE lost
  BY Zenon DEF SwapLinks, SwapAside, Swap, plan
<1>2. pre'[s] = surface[s] /\ \A u \in Surfaces \ {s} : pre'[u] = pre[u]
  BY <1>1 DEF IInv, WorkType
<1>3. surface[s].to = Current => surface[s].as = "link"
  BY <1>1, ContainerDelta
<1>4. Containers \subseteq Surfaces /\ lost \subseteq lost'
  BY <1>1, CutoverAssumption
<1>5. RecordInv'
  BY <1>1, <1>2, <1>3, <1>4 DEF RInv, RecordInv, Middle
<1>6. LinkInv' /\ WroteInv' /\ UndoInv'
  BY <1>1, <1>4 DEF RInv, LinkInv, WroteInv, Returned, UndoInv
<1> QED
  BY <1>5, <1>6 DEF RInv

LEMMA OnwardUndo ==
    ASSUME IInv, RInv,
           \/ \E v \in Versions : Begin(v)
           \/ Flip \/ Check \/ Replace \/ Readback \/ Conflict \/ SwapIn \/ SwapFails \/ Fails \/ Verify
           \/ \E s \in Surfaces : Skip(s) \/ Defer(s) \/ Stage(s) \/ SwapLinks(s) \/ SwapAside(s)
           \/ Save \/ ScanConfigs \/ ScanServers
    PROVE  RInv'
<1>1. ASSUME NEW v \in Versions, Begin(v) PROVE RInv'
  BY <1>1 DEF Begin, RInv, LinkInv, RecordInv, WroteInv, Returned, UndoInv, disk, undo, history, Middle
<1>2. CASE Flip
  <2>1. pc = "ready" => done = {}
    BY DEF IInv, ReadInv
  <2> QED
    BY <1>2, <2>1 DEF Flip, RInv, LinkInv, RecordInv, WroteInv, Returned, UndoInv, work, undo, history, Middle
<1>3. CASE Check \/ Fails \/ Verify
  BY <1>3 DEF Check, Fails, Verify, RInv, LinkInv, RecordInv, WroteInv, Returned, UndoInv, disk, records,
              plan, work, undo, history, Middle
<1>4. CASE Replace
  BY <1>4 DEF Replace, RInv, LinkInv, RecordInv, WroteInv, Returned, UndoInv, records, plan, work, undo, Middle
<1>5. CASE Readback \/ Conflict
  <2>1. at \notin Containers
    BY <1>5 DEF Readback, Conflict, IInv, ReadInv
  <2> QED
    BY <1>5, <2>1 DEF Readback, Conflict, RInv, LinkInv, RecordInv, WroteInv, Returned, UndoInv, disk, plan,
                      undo, history, Middle
<1>6. CASE SwapIn \/ SwapFails
  BY <1>6 DEF SwapIn, SwapFails, RInv, LinkInv, RecordInv, WroteInv, Returned, UndoInv, records, plan, work,
              undo, history, Middle
<1>7. ASSUME NEW s \in Surfaces, Skip(s) \/ Defer(s) PROVE RInv'
  BY <1>7 DEF Skip, Defer, RInv, LinkInv, RecordInv, WroteInv, Returned, UndoInv, disk, plan, undo, history, Middle
<1>8. ASSUME NEW s \in Surfaces, Stage(s) PROVE RInv'
  <2>1. /\ pc = "reconcile" /\ pc' = "staged" /\ s \notin Containers
        /\ pre' = [pre EXCEPT ![s] = surface[s]]
        /\ UNCHANGED <<dirs, current, surface, target, prev, done, reported, keep, wrote, lost>>
    BY <1>8 DEF Stage, disk, plan, undo, history
  <2>2. \A u \in Containers : pre'[u] = pre[u]
    BY <2>1, CutoverAssumption DEF IInv, WorkType
  <2> QED
    BY <2>1, <2>2 DEF RInv, LinkInv, RecordInv, WroteInv, Returned, UndoInv, Middle
<1>9. CASE Save
  BY <1>9 DEF Save, RInv, LinkInv, RecordInv, WroteInv, UndoInv, records, plan, work, undo, Middle
<1>10. CASE ScanConfigs \/ ScanServers
  <2>1. current \in Versions
    BY DEF RInv, LinkInv, IInv, DiskType
  <2> QED
    BY <1>10, <2>1 DEF ScanConfigs, ScanServers, RInv, LinkInv, RecordInv, WroteInv, UndoInv, disk, plan,
                       work, undo, history, Middle
<1> QED
  BY <1>1, <1>2, <1>3, <1>4, <1>5, <1>6, <1>7, <1>8, <1>9, <1>10, SwapUndo

\* Containers go back one after the other.
LEMMA ContainersUndo ==
    ASSUME IInv, RInv, PutBack \/ \E s \in Surfaces : RollBackContainer(s) \/ TakeOut(s)
    PROVE  RInv'
<1>1. PICK s \in Surfaces :
        /\ pc \in {"containers", "missing"} /\ s \in done \cap Containers
        /\ \/ /\ pc' = "containers" /\ done' = done \ {s}
              /\ surface' = [surface EXCEPT ![s] = Recorded(s)]
           \/ /\ pc' = "missing" /\ done' = done
              /\ surface' = [surface EXCEPT ![s].to = None]
        /\ UNCHANGED <<dirs, current, target, prev, pre, reported, keep, wrote, lost>>
  BY DEF IInv, ReadInv, PutBack, RollBackContainer, TakeOut, plan, history
<1>2. \A u \in Surfaces \ {s} : surface'[u] = surface[u]
  BY <1>1 DEF IInv, DiskType
<1>3. LinkInv' /\ RecordInv' /\ UndoInv'
  BY <1>1 DEF RInv, LinkInv, RecordInv, UndoInv, Middle
<1>4. pc' = "containers" => s \in lost \/ (surface'[s] = pre[s] /\ pre[s].to # Current)
  <2> SUFFICES ASSUME surface' = [surface EXCEPT ![s] = Recorded(s)], s \notin lost
               PROVE  surface'[s] = pre[s] /\ pre[s].to # Current
    BY <1>1
  <2>1. pre[s].as # "link" /\ pre[s].to # Current
    BY <1>1 DEF RInv, RecordInv, Middle
  <2>2. surface'[s] = Recorded(s)
    BY DEF IInv, DiskType
  <2> QED
    BY <2>1, <2>2, RecordedParts
<1>5. WroteInv'
  <2> SUFFICES ASSUME NEW u \in wrote
               PROVE  u \in done' \cup reported \cup lost \/ Returned(u)'
    BY <1>1 DEF WroteInv
  <2>1. CASE u = s
    BY <1>1, <1>4, <2>1 DEF Returned
  <2>2. CASE u # s
    <3>1. u \in done \cup reported \cup lost \/ Returned(u)
      BY <1>1 DEF RInv, WroteInv
    <3> QED
      BY <1>1, <1>2, <2>2, <3>1, CutoverAssumption DEF Returned
  <2> QED
    BY <2>1, <2>2
<1> QED
  BY <1>3, <1>5 DEF RInv

LEMMA BackwardUndo ==
    ASSUME IInv, RInv, Classify \/ Repoint \/ \E s \in Surfaces : Restore(s)
    PROVE  RInv'
<1>1. CASE Classify
  <2>1. /\ pc = "containers" /\ pc' = "repoint" /\ done \cap Containers = {}
        /\ restorable' = done \ touched
        /\ reported' = reported \cup (done \cap touched)
        /\ UNCHANGED <<dirs, current, surface, target, prev, at, pre, done, keep, touched, wrote, lost>>
    BY <1>1 DEF Classify, disk, plan, history
  <2>2. LinkInv' /\ RecordInv' /\ UndoInv'
    BY <2>1 DEF RInv, LinkInv, RecordInv, UndoInv, Middle
  <2>3. WroteInv'
    BY <2>1 DEF RInv, WroteInv, Returned
  <2> QED
    BY <2>2, <2>3 DEF RInv
<1>2. CASE Repoint
  <2>1. /\ pc = "repoint" /\ pc' = "restore" /\ (matches' => current' = prev)
        /\ current' = prev \/ current' \in Fallbacks
        /\ UNCHANGED <<dirs, surface, target, prev, at, pre, done, reported, restorable, keep, touched, wrote, lost>>
    BY <1>2 DEF Repoint, plan, work, history
  <2>2. prev \in dirs /\ target \in dirs
    BY <2>1 DEF RInv, LinkInv
  <2>3. Fallbacks \subseteq dirs
    BY <2>2 DEF Fallbacks, Satisfies
  <2>4. LinkInv' /\ RecordInv' /\ UndoInv'
    BY <2>1, <2>2, <2>3 DEF RInv, LinkInv, RecordInv, UndoInv, Middle
  <2>5. WroteInv'
    BY <2>1 DEF RInv, WroteInv, Returned
  <2> QED
    BY <2>4, <2>5 DEF RInv
<1>3. ASSUME NEW s \in Surfaces, Restore(s) PROVE RInv'
  <2> DEFINE former == IF prev \in dirs THEN prev ELSE doc.active
             pinned == pre[s].to = Current /\ ~matches /\ Satisfies(former, pre[s].new)
             e == IF pinned THEN [pre[s] EXCEPT !.to = former] ELSE pre[s]
  <2>1. /\ pc = "restore" /\ pc' = "restore" /\ s \in restorable
        /\ restorable' = restorable \ {s} /\ touched' = touched \ {s}
        /\ surface' = [surface EXCEPT ![s] = e]
        /\ reported' = IF pre[s].to = Current /\ ~matches /\ ~pinned THEN reported \cup {s} ELSE reported
        /\ UNCHANGED <<dirs, current, target, prev, at, pre, done, matches, keep, wrote, lost>>
    BY <1>3 DEF Restore, plan, history
  <2>2. /\ surface \in [Surfaces -> Entries] /\ pre[s] \in Entries /\ done \subseteq Surfaces
        /\ former = prev /\ former \in Versions /\ prev \in Versions
    BY <2>1 DEF IInv, DiskType, WorkType, RInv, LinkInv
  <2>3. surface'[s] = e /\ \A u \in Surfaces \ {s} : surface'[u] = surface[u]
    BY <2>1, <2>2
  <2>4. s \in reported' \/ Launch(e, current) = Launch(pre[s], prev)
    <3>1. CASE pre[s].to # Current
      BY <3>1 DEF Launch
    <3>2. CASE pre[s].to = Current /\ matches
      BY <2>1, <3>2 DEF Launch, RInv, UndoInv
    <3>3. CASE pinned
      <4>1. e.to = prev
        BY <2>2, <3>3 DEF Entries
      <4>2. prev # Current
        BY <2>2, CutoverAssumption
      <4> QED
        BY <3>3, <4>1, <4>2 DEF Launch
    <3>4. CASE pre[s].to = Current /\ ~matches /\ ~pinned
      BY <2>1, <3>4
    <3> QED
      BY <3>1, <3>2, <3>3, <3>4
  <2> HIDE DEF e, pinned
  <2>5. reported \subseteq reported' /\ s \notin Containers
    BY <2>1 DEF RInv, UndoInv
  <2>6. LinkInv' /\ RecordInv'
    BY <2>1 DEF RInv, LinkInv, RecordInv, Middle
  <2>7. WroteInv'
    <3>1. \A u \in Surfaces : Returned(u) => Returned(u)'
      BY <2>1, <2>3, <2>5 DEF Returned
    <3>2. wrote \subseteq Surfaces
      BY DEF IInv, RunType
    <3> QED
      BY <2>1, <2>5, <3>1, <3>2 DEF RInv, WroteInv
  <2>8. UndoInv'
    BY <2>1, <2>2, <2>3, <2>4, <2>5 DEF RInv, UndoInv, Back
  <2> QED
    BY <2>6, <2>7, <2>8 DEF RInv
<1> QED
  BY <1>1, <1>2, <1>3

LEMMA EndsUndo ==
    ASSUME IInv, RInv, RolledBack \/ Crash \/ Prune
    PROVE  RInv'
<1>1. /\ pc' = "idle" /\ Forget /\ UNCHANGED current
      /\ dirs' = dirs \/ (pc = "prune" /\ dirs' = dirs \cap keep)
  BY DEF RolledBack, Crash, Prune, disk
<1>2. wrote' = {} /\ restorable' = {}
  BY <1>1, Ended DEF Forget
<1> QED
  BY <1>1, <1>2 DEF RInv, LinkInv, RecordInv, WroteInv, UndoInv, Middle

LEMMA UndoInvariant == Spec => []RInv
<1>1. Init => RInv
  BY DEF Init, RInv, LinkInv, RecordInv, WroteInv, UndoInv, Middle
<1>2. IInv /\ RInv /\ [Next]_vars => RInv'
  <2> SUFFICES ASSUME IInv, RInv, [Next]_vars PROVE RInv'
    OBVIOUS
  <2>1. CASE UNCHANGED vars
    BY <2>1 DEF RInv, LinkInv, RecordInv, WroteInv, Returned, UndoInv, Back, vars, disk, records, plan, work, undo, history
  <2>2. CASE Next
    BY <2>2, HostsUndo, InstallsUndo, OnwardUndo, ContainersUndo, BackwardUndo, EndsUndo, Zenon DEF Next, Cutover
  <2> QED
    BY <2>1, <2>2
<1> QED
  BY <1>1, <1>2, Invariant, PTL DEF Spec

\* When a rollback has ended, every surface the cutover rewrote launches what it
\* launched before, or is reported, or was written by its host meanwhile; but for
\* containers whose subtrees have no record.
THEOREM RollbackComplete == Spec => RollbackRestores
<1>1. IInv /\ RInv /\ [Next]_vars =>
        [RolledBack => \A s \in wrote :
            \/ s \in reported \cup touched \cup lost
            \/ Launch(surface[s], current) = Launch(pre[s], prev)]_vars
  <2> SUFFICES ASSUME IInv, RInv, RolledBack, NEW s \in wrote
               PROVE  \/ s \in reported \cup touched \cup lost
                      \/ Launch(surface[s], current) = Launch(pre[s], prev)
    OBVIOUS
  <2>1. pc = "restore" /\ restorable = {}
    BY DEF RolledBack
  <2>2. s \in done \cup reported \cup lost \/ Returned(s)
    BY <2>1 DEF RInv, WroteInv
  <2>3. CASE Returned(s)
    BY <2>3 DEF Returned, Launch
  <2>4. CASE s \in done
    BY <2>1, <2>4 DEF RInv, UndoInv, Back
  <2> QED
    BY <2>2, <2>3, <2>4
<1> QED
  BY <1>1, Invariant, UndoInvariant, PTL DEF Spec, RollbackRestores

-----------------------------------------------------------------------------
(* What surfaces launch.                                                     *)

\* An entry as a cutover writes it: through the link, with what only payloads
\* of now have.
LinkNew(e) == e.to = Current /\ e.new

\* An entry that names a payload on disk with what it needs, or holds a copy; or
\* goes through the link.
Firm(e) == e.to \in Versions /\ e.as # "copy" => Satisfies(e.to, e.new)

\* What surface s can be launched by, whatever the link is; a container may be gone.
Held(s, e) == Firm(e) /\ (s \notin Containers => e.to # None)

\* A host that remembers its entry.
Aware(s) == s \in Rewriters /\ ~Off(s)

\* No cutover goes to an old payload.
TargetInv ==
    /\ pc # "idle" => target \notin Legacy
    /\ restorable \subseteq done

\* Surfaces hold what can be launched, and so does what a rollback puts back; the
\* collection keeps the payloads they name.
FileInv ==
    /\ \A s \in Surfaces : s \in strays \/ Held(s, surface[s])
    /\ \A s \in done : s \in strays \/ Held(s, pre[s])
    /\ pc \in {"staged", "checked", "replaced", "aside"} => at \in strays \/ Held(at, pre[at])
    /\ pc \in {"servers", "prune"} =>
          \A s \in Surfaces : s \in strays \/ Named(surface[s]) \subseteq keep

\* So does what a host has in memory; if that names a payload, its server runs from it.
MemoryInv ==
    \A s \in Surfaces : Aware(s) =>
        /\ s \in strays \/ Held(s, host[s])
        /\ host[s].to \in Versions => host[s].code = host[s].to

\* A file that is rewritten was not yet what it is rewritten to.
DeltaInv ==
    /\ \A s \in done \ Containers : ~LinkNew(pre[s])
    /\ pc \in {"staged", "checked", "replaced"} => ~LinkNew(pre[at])

\* Where the link names an old payload, no entry asks more of it...
LinkedInv ==
    ~torn /\ current \in Legacy /\ pc \in {"idle", "ready", "restore"} =>
        \A s \in Surfaces : \/ s \in strays
                            \/ /\ s \in lost \cup restorable \/ ~LinkNew(surface[s])
                               /\ Aware(s) => ~LinkNew(host[s])

\* ... and where it named one before the flip, none does that the cutover did
\* not write itself, so that the link can go back.
FormerInv ==
    ~torn /\ prev \in Legacy /\ pc \in Middle =>
        \A s \in Surfaces :
            \/ s \in strays
            \/ /\ Aware(s) => ~LinkNew(host[s])
               /\ s \in Containers => s \in lost \cup done \/ ~LinkNew(surface[s])

\* A container is gone only while it is swapped or put back, or since a cutover
\* died, or for want of records.
AsideInv ==
    /\ lost \subseteq Containers
    /\ \A s \in Containers :
          surface[s].to = None => torn \/ s \in lost \/ (pc \in {"aside", "missing"} /\ at = s)
    /\ pc \in Middle => \A s \in done \cap Containers : pre[s].to = None => torn \/ s \in lost
    /\ pc = "aside" => (pre[at].to = None => torn \/ at \in lost)
    /\ pc = "save" => \A s \in Containers \ deferred : surface[s].to # None

\* What the rollback found that live entries ask of the link.
AskInv ==
    pc = "repoint" =>
        /\ unmet \subseteq needs
        /\ \A s \in Surfaces \ Containers : s \in strays \cup restorable \/ (surface[s].to = Current => surface[s].new \in unmet)

WorkInv == /\ TargetInv /\ FileInv /\ MemoryInv /\ DeltaInv /\ LinkedInv /\ FormerInv
           /\ AsideInv /\ AskInv

\* Somebody else writes a file: in the midst of a cutover it is a stray's, or
\* what the file launches stays; between cutovers it is sound.
LEMMA OthersHeld ==
    ASSUME IInv, WorkInv, NEW s \in Surfaces \ Containers, NEW e \in Entries, Write(s, e),
           UNCHANGED <<dirs, current, pc, records, lost, torn>>,
           strays \subseteq strays', pc = "idle" => strays' = strays,
           \A u \in Surfaces : Off(u)' \/ host'[u] = host[u],
           \/ s \in strays'
           \/ e.to = surface[s].to /\ e.as = surface[s].as /\ e.new = surface[s].new
           \/ pc = "idle" /\ Held(s, e) /\ (~torn /\ current \in Legacy => ~LinkNew(e))
    PROVE  WorkInv'
<1>1. /\ surface' = [surface EXCEPT ![s] = e] /\ surface \in [Surfaces -> Entries] /\ e \in Entries
      /\ done \subseteq Surfaces /\ restorable \subseteq Surfaces /\ host \in [Surfaces -> Running]
  BY DEF Write, IInv, DiskType, WorkType, UndoType
<1>2. surface'[s] = e /\ \A u \in Surfaces \ {s} : surface'[u] = surface[u]
  BY <1>1
<1>3. UNCHANGED <<target, prev, at, pre, done, deferred, needs, unmet, restorable, keep>>
  BY DEF records, plan, work, undo
<1>4. \A u \in Surfaces : Aware(u)' => Aware(u) /\ host'[u] = host[u]
  BY DEF Aware, Off
<1>5. \A u \in Surfaces \ {s} : Held(u, surface[u])' <=> Held(u, surface[u])
  BY <1>2 DEF Held, Firm, Satisfies
<1>6. /\ \A u \in Surfaces : Held(u, pre[u])' <=> Held(u, pre[u])
      /\ \A u \in Surfaces : Aware(u)' => (Held(u, host[u])' <=> Held(u, host[u]))
      /\ Held(at, pre[at])' <=> Held(at, pre[at])
  BY <1>3, <1>4 DEF Held, Firm, Satisfies
<1>7. s \in strays' \/ (Held(s, surface[s]) => Held(s, surface[s])')
  BY <1>2 DEF Held, Firm, Satisfies
<1>8. /\ \A u \in Surfaces \ {s} : LinkNew(surface[u])' <=> LinkNew(surface[u])
      /\ \A u \in Surfaces : LinkNew(pre[u])' <=> LinkNew(pre[u])
      /\ \A u \in Surfaces : Aware(u)' => (LinkNew(host[u])' <=> LinkNew(host[u]))
      /\ LinkNew(pre[at])' <=> LinkNew(pre[at])
  BY <1>2, <1>3, <1>4 DEF LinkNew
<1>9. TargetInv'
  BY <1>3 DEF WorkInv, TargetInv
<1>10. FileInv'
  <2>1. /\ \A u \in Surfaces : u \in strays' \/ Held(u, surface[u])'
        /\ \A u \in done' : u \in strays' \/ Held(u, pre[u])'
        /\ pc' \in {"staged", "checked", "replaced", "aside"} => at' \in strays' \/ Held(at, pre[at])'
    BY <1>1, <1>3, <1>5, <1>6, <1>7 DEF WorkInv, FileInv
  <2>2. pc' \in {"servers", "prune"} =>
          \A u \in Surfaces : u \in strays' \/ Named(surface'[u]) \subseteq keep'
    BY <1>2, <1>3 DEF WorkInv, FileInv, Named
  <2> QED
    BY <2>1, <2>2 DEF FileInv
<1>11. MemoryInv'
  BY <1>4, <1>6 DEF WorkInv, MemoryInv
<1>12. DeltaInv'
  BY <1>1, <1>3, <1>8 DEF WorkInv, DeltaInv
<1>13. LinkedInv'
  BY <1>2, <1>3, <1>4, <1>8 DEF WorkInv, LinkedInv, LinkNew
<1>14. FormerInv'
  BY <1>2, <1>3, <1>4, <1>8 DEF WorkInv, FormerInv
<1>15. AsideInv'
  BY <1>2, <1>3, CutoverAssumption DEF WorkInv, AsideInv
<1>16. AskInv'
  BY <1>2, <1>3 DEF WorkInv, AskInv
<1> QED
  BY <1>9, <1>10, <1>11, <1>12, <1>13, <1>14, <1>15, <1>16 DEF WorkInv

LEMMA HostStartsWork ==
    ASSUME IInv, WorkInv, NEW s \in Surfaces, HostStarts(s)
    PROVE  WorkInv'
<1> DEFINE h == [code |-> Launch(surface[s], current), to |-> surface[s].to,
                 as |-> surface[s].as, new |-> surface[s].new]
<1>1. /\ host' = [host EXCEPT ![s] = h]
      /\ Stray(s)
      /\ UNCHANGED <<dirs, current, surface, pc, records, lost, torn>>
  BY Zenon DEF HostStarts
<1>2. /\ host \in [Surfaces -> Running] /\ done \subseteq Surfaces
      /\ h.to = surface[s].to /\ h.as = surface[s].as /\ h.new = surface[s].new
      /\ h.to \in Versions => h.code = h.to
  BY CutoverAssumption DEF IInv, DiskType, WorkType, Launch
<1> HIDE DEF h
<1>3. host'[s] = h /\ \A u \in Surfaces \ {s} : host'[u] = host[u]
  BY <1>1, <1>2
<1>4. UNCHANGED <<target, prev, at, pre, done, deferred, needs, unmet, restorable, keep>>
  BY <1>1 DEF records, plan, work, undo
<1>5. strays \subseteq strays' /\ (pc # "idle" => s \in strays') /\ (pc = "idle" => strays' = strays)
  BY <1>1 DEF Stray
<1>6. \A u \in Surfaces \ {s} : Aware(u)' <=> Aware(u)
  BY <1>3 DEF Aware, Off
<1>7. s \in Rewriters => s \notin Containers /\ s \notin lost
  BY CutoverAssumption DEF WorkInv, AsideInv
<1>8. pc = "idle" => restorable = {}
  BY DEF IInv, ReadInv
<1>9. TargetInv' /\ DeltaInv' /\ AsideInv' /\ AskInv'
  BY <1>1, <1>4, <1>5 DEF WorkInv, TargetInv, DeltaInv, AsideInv, AskInv, LinkNew
<1>10. FileInv'
  BY <1>1, <1>4, <1>5 DEF WorkInv, FileInv, Held, Firm, Satisfies
<1>11. MemoryInv'
  <2>1. \A u \in Surfaces \ {s} : Aware(u)' =>
            (u \in strays' \/ Held(u, host[u])') /\ (host'[u].to \in Versions => host'[u].code = host'[u].to)
    BY <1>1, <1>3, <1>5, <1>6 DEF WorkInv, MemoryInv, Held, Firm, Satisfies
  <2>2. s \in Rewriters => s \in strays' \/ Held(s, host[s])'
    BY <1>1, <1>2, <1>3, <1>5, <1>7 DEF WorkInv, FileInv, Held, Firm, Satisfies
  <2>3. host'[s].to \in Versions => host'[s].code = host'[s].to
    BY <1>2, <1>3
  <2> QED
    BY <2>1, <2>2, <2>3 DEF MemoryInv, Aware
<1>12. LinkedInv'
  BY <1>1, <1>2, <1>3, <1>4, <1>5, <1>6, <1>7, <1>8 DEF WorkInv, LinkedInv, LinkNew, Aware
<1>13. FormerInv'
  BY <1>1, <1>3, <1>4, <1>5, <1>6 DEF WorkInv, FormerInv, LinkNew, Middle
<1> QED
  BY <1>9, <1>10, <1>11, <1>12, <1>13 DEF WorkInv

LEMMA HostEditsWork ==
    ASSUME IInv, WorkInv, NEW s \in Surfaces, HostEdits(s)
    PROVE  WorkInv'
<1> DEFINE e == [Known(s) EXCEPT !.rev = edits[s] + 1]
<1>1. /\ s \notin Containers
      /\ Write(s, e)
      /\ IF Aware(s) THEN Stray(s) ELSE UNCHANGED strays
      /\ UNCHANGED <<dirs, current, host, pc, records, lost, torn>>
  BY Zenon DEF HostEdits, Aware
<1>2. edits[s] + 1 \in 0 .. MaxWrites
  <2>1. edits[s] \in 0 .. MaxWrites /\ edits[s] <= writes /\ writes \in 0 .. MaxWrites /\ writes < MaxWrites
    BY <1>1 DEF IInv, RunType, Write
  <2> QED
    BY <2>1, CutoverAssumption
<1>3. e \in Entries /\ Known(s) \in Entries
  BY <1>1, <1>2, KnownParts
<1>4. e.to = Known(s).to /\ e.as = Known(s).as /\ e.new = Known(s).new
  BY <1>3, Zenon DEF Entries
<1>5. IF Aware(s) THEN e.to = host[s].to /\ e.as = host[s].as /\ e.new = host[s].new
                  ELSE e.to = surface[s].to /\ e.as = surface[s].as /\ e.new = surface[s].new
  BY <1>4 DEF Known, Aware
<1> HIDE DEF e
<1>6. strays \subseteq strays' /\ (pc = "idle" => strays' = strays) /\ (pc # "idle" /\ Aware(s) => s \in strays')
  BY <1>1 DEF Stray
<1>7. Aware(s) /\ pc = "idle" => s \in strays' \/ (Held(s, e) /\ (~torn /\ current \in Legacy => ~LinkNew(e)))
  BY <1>5, <1>6 DEF WorkInv, MemoryInv, LinkedInv, Held, Firm, Satisfies, LinkNew
<1> QED
  BY <1>1, <1>3, <1>5, <1>6, <1>7, OthersHeld

LEMMA HostExitsWork ==
    ASSUME IInv, WorkInv, NEW s \in Surfaces, HostExits(s)
    PROVE  WorkInv'
<1>1. /\ ~Off(s)
      /\ host' = [host EXCEPT ![s] = NoHost]
      /\ IF s \in Rewriters THEN Write(s, Known(s)) /\ Stray(s)
                            ELSE UNCHANGED <<surface, writes, touched, raced, strays>>
      /\ UNCHANGED <<dirs, current, pc, records, lost, torn>>
  BY Zenon DEF HostExits
<1>2. Off(s)' /\ \A u \in Surfaces \ {s} : host'[u] = host[u]
  BY <1>1 DEF NoHost, Off, IInv, DiskType
<1>3. CASE s \in Rewriters
  <2>1. s \in Surfaces \ Containers
    BY <1>3, CutoverAssumption
  <2>2. /\ Known(s) \in Entries /\ Aware(s)
        /\ Known(s).to = host[s].to /\ Known(s).as = host[s].as /\ Known(s).new = host[s].new
    BY <1>1, <1>3, <2>1, KnownParts DEF Known, Aware
  <2>3. strays \subseteq strays' /\ (pc = "idle" => strays' = strays) /\ (pc # "idle" => s \in strays')
    BY <1>1, <1>3 DEF Stray
  <2>4. pc = "idle" => s \in strays' \/ (Held(s, Known(s)) /\ (~torn /\ current \in Legacy => ~LinkNew(Known(s))))
    BY <2>2, <2>3 DEF WorkInv, MemoryInv, LinkedInv, Held, Firm, Satisfies, LinkNew
  <2> QED
    BY <1>1, <1>2, <1>3, <2>1, <2>2, <2>3, <2>4, OthersHeld
<1>4. CASE s \notin Rewriters
  <2>1. UNCHANGED <<dirs, current, surface, pc, strays, lost, torn>>
    BY <1>1, <1>4
  <2>2. UNCHANGED <<target, prev, at, pre, done, deferred, needs, unmet, restorable, keep>>
    BY <1>1 DEF records, plan, work, undo
  <2>3. \A u \in Surfaces : Aware(u)' => Aware(u) /\ host'[u] = host[u]
    BY <1>2 DEF Aware, Off
  <2>4. TargetInv' /\ FileInv' /\ DeltaInv' /\ AsideInv' /\ AskInv'
    BY <2>1, <2>2 DEF WorkInv, TargetInv, FileInv, DeltaInv, AsideInv, AskInv, LinkNew, Held, Firm, Satisfies
  <2>5. MemoryInv'
    BY <2>1, <2>3 DEF WorkInv, MemoryInv, Held, Firm, Satisfies
  <2>6. LinkedInv' /\ FormerInv'
    BY <2>1, <2>2, <2>3 DEF WorkInv, LinkedInv, FormerInv, LinkNew
  <2> QED
    BY <2>4, <2>5, <2>6 DEF WorkInv
<1> QED
  BY <1>3, <1>4

LEMMA UseVersionWork ==
    ASSUME IInv, WorkInv, NEW s \in Surfaces, NEW v \in Versions, UseVersion(s, v)
    PROVE  WorkInv'
<1> DEFINE e == [surface[s] EXCEPT !.to = v, !.new = v \notin Legacy]
<1>1. /\ s \notin Containers /\ v \in dirs
      /\ Write(s, e)
      /\ Stray(s)
      /\ UNCHANGED <<dirs, current, host, pc, records, lost, torn>>
  BY Zenon DEF UseVersion
<1>2. e \in Entries /\ e.to = v /\ e.new = (v \notin Legacy)
  BY DEF IInv, DiskType, Entries
<1> HIDE DEF e
<1>3. Held(s, e) /\ ~LinkNew(e)
  BY <1>1, <1>2, CutoverAssumption DEF Held, Firm, Satisfies, LinkNew
<1>4. strays \subseteq strays' /\ (pc = "idle" => strays' = strays) /\ (pc # "idle" => s \in strays')
  BY <1>1 DEF Stray
<1> QED
  BY <1>1, <1>2, <1>3, <1>4, OthersHeld

LEMMA InstallWork ==
    ASSUME IInv, WorkInv, NEW v \in Versions, Install(v)
    PROVE  WorkInv'
<1>1. /\ dirs \subseteq dirs'
      /\ UNCHANGED <<current, surface, host, pc, strays, lost, torn>>
      /\ UNCHANGED <<target, prev, at, pre, done, deferred, needs, unmet, restorable, keep>>
  BY DEF Install, records, plan, work, undo, history
<1>2. TargetInv' /\ DeltaInv' /\ AsideInv' /\ AskInv' /\ LinkedInv' /\ FormerInv'
  BY <1>1 DEF WorkInv, TargetInv, DeltaInv, AsideInv, AskInv, LinkedInv, FormerInv, LinkNew, Aware, Off
<1>3. FileInv' /\ MemoryInv'
  BY <1>1 DEF WorkInv, FileInv, MemoryInv, Held, Firm, Satisfies, Aware, Off
<1> QED
  BY <1>2, <1>3 DEF WorkInv

LEMMA BeginWork ==
    ASSUME IInv, WorkInv, NEW v \in Versions, Begin(v)
    PROVE  WorkInv'
<1>1. /\ pc = "idle" /\ pc' = "ready" /\ v \in dirs \ Legacy /\ target' = v
      /\ UNCHANGED <<dirs, current, surface, host, strays, lost, torn, at, pre, done, needs, unmet, restorable>>
  BY DEF Begin, disk, undo, history
<1>2. TargetInv' /\ DeltaInv' /\ AsideInv' /\ AskInv' /\ LinkedInv' /\ FormerInv'
  BY <1>1 DEF WorkInv, TargetInv, DeltaInv, AsideInv, AskInv, LinkedInv, FormerInv, LinkNew,
              Aware, Off, Middle
<1>3. FileInv' /\ MemoryInv'
  BY <1>1 DEF WorkInv, FileInv, MemoryInv, Held, Firm, Satisfies, Aware, Off
<1> QED
  BY <1>2, <1>3 DEF WorkInv

LEMMA FlipWork ==
    ASSUME IInv, WorkInv, Flip
    PROVE  WorkInv'
<1>1. /\ pc = "ready" /\ pc' = "reconcile" /\ prev' = current /\ current' = target
      /\ UNCHANGED <<dirs, surface, host, target, strays, lost, torn, at, pre, done, needs, unmet, restorable>>
  BY DEF Flip, work, undo, history
<1>2. done = {} /\ restorable = {} /\ target \notin Legacy
  BY <1>1 DEF IInv, ReadInv, WorkInv, TargetInv
<1>3. TargetInv' /\ DeltaInv' /\ AsideInv' /\ AskInv' /\ LinkedInv'
  BY <1>1, <1>2 DEF WorkInv, TargetInv, DeltaInv, AsideInv, AskInv, LinkedInv, LinkNew
<1>4. FormerInv'
  BY <1>1, <1>2 DEF WorkInv, LinkedInv, FormerInv, LinkNew, Aware, Off
<1>5. FileInv' /\ MemoryInv'
  BY <1>1 DEF WorkInv, FileInv, MemoryInv, Held, Firm, Satisfies, Aware, Off
<1> QED
  BY <1>3, <1>4, <1>5 DEF WorkInv

\* A file that differs from what it should be launches something else.
LEMMA DeltaParts ==
    ASSUME IInv, NEW s \in Surfaces \ Containers
    PROVE  HasDelta(s) <=> ~LinkNew(surface[s])
<1> DEFINE e == surface[s]
           w == [e EXCEPT !.to = Current, !.new = TRUE]
<1>1. e \in [to : Versions \cup {Current, None}, as : Forms, new : BOOLEAN, rev : 0 .. MaxWrites]
  BY DEF IInv, DiskType, Entries
<1>2. HasDelta(s) <=> e # w
  BY Zenon DEF HasDelta, Wanted
<1> HIDE DEF e
<1>3. w.to = Current /\ w.new = TRUE
  BY <1>1
<1>4. e.to = Current /\ e.new = TRUE => e = w
  BY <1>1
<1>5. HasDelta(s) <=> ~LinkNew(e)
  <2> HIDE DEF w
  <2> QED
    BY <1>1, <1>2, <1>3, <1>4 DEF LinkNew
<1> QED
  BY <1>5 DEF e

\* Steps of a cutover that write nothing.
LEMMA LooksWork ==
    ASSUME IInv, WorkInv, Check \/ Conflict \/ Fails \/ \E s \in Surfaces : Skip(s) \/ Defer(s)
    PROVE  WorkInv'
<1>1. /\ pc \in {"reconcile", "staged", "replaced"} /\ pc' \in {pc, "containers", "checked"}
      /\ pc' = "checked" => pc = "staged"
      /\ UNCHANGED <<dirs, current, surface, host, target, prev, strays, lost, torn, at, pre, done, restorable>>
  BY DEF Check, Conflict, Fails, Skip, Defer, disk, records, plan, work, undo, history
<1>2. TargetInv' /\ DeltaInv' /\ AsideInv' /\ AskInv'
  BY <1>1 DEF WorkInv, TargetInv, DeltaInv, AsideInv, AskInv, LinkNew, Middle
<1>3. LinkedInv' /\ FormerInv'
  BY <1>1 DEF WorkInv, LinkedInv, FormerInv, LinkNew, Aware, Off, Middle
<1>4. FileInv' /\ MemoryInv'
  BY <1>1 DEF WorkInv, FileInv, MemoryInv, Held, Firm, Satisfies, Aware, Off
<1> QED
  BY <1>2, <1>3, <1>4 DEF WorkInv

LEMMA StageWork ==
    ASSUME IInv, WorkInv, NEW s \in Surfaces, Stage(s)
    PROVE  WorkInv'
<1>1. /\ pc = "reconcile" /\ s \notin Containers /\ HasDelta(s) /\ pc' = "staged" /\ at' = s
      /\ pre' = [pre EXCEPT ![s] = surface[s]]
      /\ UNCHANGED <<dirs, current, surface, host, target, prev, strays, lost, torn, done, restorable>>
  BY DEF Stage, disk, plan, undo, history
<1>2. /\ pre'[s] = surface[s] /\ \A u \in Surfaces \ {s} : pre'[u] = pre[u]
      /\ done \subseteq Surfaces /\ ~LinkNew(surface[s])
  BY <1>1, DeltaParts DEF IInv, WorkType
<1>3. TargetInv' /\ AskInv'
  BY <1>1 DEF WorkInv, TargetInv, AskInv, LinkNew, Middle
<1>4. DeltaInv' /\ AsideInv'
  BY <1>1, <1>2 DEF WorkInv, DeltaInv, AsideInv, LinkNew, Middle
<1>5. LinkedInv' /\ FormerInv'
  BY <1>1 DEF WorkInv, LinkedInv, FormerInv, LinkNew, Aware, Off, Middle
<1>6. FileInv' /\ MemoryInv'
  BY <1>1, <1>2 DEF WorkInv, FileInv, MemoryInv, Held, Firm, Satisfies, Aware, Off
<1> QED
  BY <1>3, <1>4, <1>5, <1>6 DEF WorkInv

\* What the cutover writes goes through the link.
LEMMA RewrittenLinks ==
    ASSUME NEW e \in Entries
    PROVE  LinkNew(Rewritten(e)) /\ Rewritten(e).to = Current
  BY DEF Entries, Rewritten, LinkNew

LEMMA ReplaceWork ==
    ASSUME IInv, WorkInv, Replace
    PROVE  WorkInv'
<1>1. /\ pc = "checked" /\ pc' = "replaced"
      /\ surface' = [surface EXCEPT ![at] = Rewritten(pre[at])]
      /\ UNCHANGED <<dirs, current, host, target, prev, strays, lost, torn, at, pre, done, restorable>>
  BY DEF Replace, records, plan, work, undo
<1>2. at \in Surfaces /\ at \notin Containers /\ surface \in [Surfaces -> Entries] /\ pre[at] \in Entries
      /\ done \subseteq Surfaces
  BY <1>1 DEF IInv, ReadInv, WorkType, DiskType
<1>3. /\ surface'[at].to = Current
      /\ \A u \in Surfaces \ {at} : surface'[u] = surface[u]
  BY <1>1, <1>2, RewrittenLinks
<1>4. TargetInv' /\ DeltaInv' /\ AskInv'
  BY <1>1 DEF WorkInv, TargetInv, DeltaInv, AskInv, LinkNew
<1>5. AsideInv'
  BY <1>1, <1>2, <1>3, CutoverAssumption DEF WorkInv, AsideInv, LinkNew, Middle
<1>6. LinkedInv' /\ FormerInv'
  BY <1>1, <1>2, <1>3 DEF WorkInv, LinkedInv, FormerInv, LinkNew, Aware, Off, Middle
<1>7. FileInv' /\ MemoryInv'
  BY <1>1, <1>2, <1>3, CutoverAssumption DEF WorkInv, FileInv, MemoryInv, Held, Firm, Satisfies, Aware, Off
<1> QED
  BY <1>4, <1>5, <1>6, <1>7 DEF WorkInv

LEMMA ReadbackWork ==
    ASSUME IInv, WorkInv, Readback
    PROVE  WorkInv'
<1>1. /\ pc = "replaced" /\ pc' = "reconcile" /\ done' = done \cup {at}
      /\ UNCHANGED <<dirs, current, surface, host, target, prev, strays, lost, torn, at, pre, restorable>>
  BY DEF Readback, disk, plan, undo, history
<1>2. at \notin Containers
  BY <1>1 DEF IInv, ReadInv
<1>3. TargetInv' /\ DeltaInv' /\ AskInv'
  BY <1>1 DEF WorkInv, TargetInv, DeltaInv, AskInv, LinkNew
<1>4. AsideInv'
  BY <1>1, <1>2 DEF WorkInv, AsideInv, LinkNew, Middle
<1>5. LinkedInv' /\ FormerInv'
  BY <1>1, <1>2 DEF WorkInv, LinkedInv, FormerInv, LinkNew, Aware, Off, Middle
<1>6. FileInv' /\ MemoryInv'
  BY <1>1, <1>2 DEF WorkInv, FileInv, MemoryInv, Held, Firm, Satisfies, Aware, Off
<1> QED
  BY <1>3, <1>4, <1>5, <1>6 DEF WorkInv

\* A container that is swapped goes to the target, or through the link.
LEMMA SwapLinksWork ==
    ASSUME IInv, RInv, WorkInv, NEW s \in Surfaces, SwapLinks(s)
    PROVE  WorkInv'
<1>1. /\ pc = "reconcile" /\ s \in Containers /\ HasDelta(s) /\ pc' = "reconcile" /\ at' = at
      /\ surface[s].as = "links"
      /\ pre' = [pre EXCEPT ![s] = surface[s]]
      /\ surface' = [surface EXCEPT ![s] = Swapped(s, "links")]
      /\ done' = done \cup {s}
      /\ UNCHANGED <<dirs, current, host, target, prev, strays, lost, torn, restorable>>
  BY DEF SwapLinks, Swap, plan, undo
<1>2. /\ surface \in [Surfaces -> Entries] /\ pre \in [Surfaces -> Entries]
      /\ done \subseteq Surfaces /\ Containers \subseteq Surfaces
      /\ Current \notin Versions /\ Current # None
  BY CutoverAssumption DEF IInv, WorkType, DiskType
<1>3. /\ pre'[s] = surface[s] /\ \A u \in Surfaces \ {s} : pre'[u] = pre[u]
      /\ surface'[s].to = Current /\ \A u \in Surfaces \ {s} : surface'[u] = surface[u]
  BY <1>1, <1>2, SwappedParts
<1>4. TargetInv' /\ AskInv' /\ DeltaInv'
  BY <1>1, <1>2, <1>3 DEF WorkInv, TargetInv, AskInv, DeltaInv, LinkNew
<1>5. AsideInv'
  BY <1>1, <1>2, <1>3 DEF WorkInv, AsideInv, Middle
<1>6. LinkedInv' /\ FormerInv'
  BY <1>1, <1>2, <1>3 DEF WorkInv, LinkedInv, FormerInv, LinkNew, Aware, Off, Middle
<1>7. FileInv' /\ MemoryInv'
  BY <1>1, <1>2, <1>3 DEF WorkInv, FileInv, MemoryInv, Held, Firm, Satisfies, Aware, Off
<1> QED
  BY <1>4, <1>5, <1>6, <1>7 DEF WorkInv

LEMMA SwapAsideWork ==
    ASSUME IInv, RInv, WorkInv, NEW s \in Surfaces, SwapAside(s)
    PROVE  WorkInv'
<1>1. /\ pc = "reconcile" /\ s \in Containers /\ HasDelta(s) /\ pc' = "aside" /\ at' = s
      /\ pre' = [pre EXCEPT ![s] = surface[s]]
      /\ surface' = [surface EXCEPT ![s].to = None]
      /\ lost' \in {lost, lost \cup {s}}
      /\ UNCHANGED <<dirs, current, host, target, prev, strays, torn, done, restorable>>
  BY DEF SwapAside, Swap, plan, undo
<1>2. /\ surface \in [Surfaces -> Entries] /\ pre \in [Surfaces -> Entries]
      /\ done \subseteq Surfaces /\ Containers \subseteq Surfaces
      /\ None \notin Versions /\ Current # None
  BY CutoverAssumption DEF IInv, WorkType, DiskType
<1>3. /\ pre'[s] = surface[s] /\ \A u \in Surfaces \ {s} : pre'[u] = pre[u]
      /\ surface'[s].to = None /\ \A u \in Surfaces \ {s} : surface'[u] = surface[u]
  BY <1>1, <1>2 DEF Entries
<1>4. TargetInv' /\ AskInv' /\ DeltaInv'
  BY <1>1, <1>2, <1>3 DEF WorkInv, TargetInv, AskInv, DeltaInv, LinkNew
<1>5. AsideInv'
  BY <1>1, <1>2, <1>3 DEF WorkInv, AsideInv, Middle
<1>6. LinkedInv' /\ FormerInv'
  BY <1>1, <1>2, <1>3 DEF WorkInv, LinkedInv, FormerInv, LinkNew, Aware, Off, Middle
<1>7. FileInv' /\ MemoryInv'
  BY <1>1, <1>2, <1>3 DEF WorkInv, FileInv, MemoryInv, Held, Firm, Satisfies, Aware, Off
<1> QED
  BY <1>4, <1>5, <1>6, <1>7 DEF WorkInv

LEMMA SwapEndWork ==
    ASSUME IInv, RInv, WorkInv, SwapIn \/ SwapFails
    PROVE  WorkInv'
<1>1. PICK form \in {"copy", "links"} : surface' = [surface EXCEPT ![at] = Swapped(at, form)]
  BY DEF SwapIn, SwapFails, Modes
<1>2. /\ pc = "aside"
      /\ \/ pc' = "reconcile" /\ done' = done \cup {at} /\ lost' = lost
         \/ pc' = "containers" /\ done' = done /\ lost' = lost \cup {at}
      /\ UNCHANGED <<dirs, current, host, target, prev, strays, torn, at, pre, restorable>>
  BY DEF SwapIn, SwapFails, records, plan, work, undo, history
<1>3. at \in Surfaces /\ at \in Containers /\ surface \in [Surfaces -> Entries] /\ surface[at] \in Entries
      /\ done \subseteq Surfaces /\ Containers \subseteq Surfaces /\ Current \notin Versions /\ Current # None
      /\ target # None
  BY <1>2, CutoverAssumption DEF IInv, ReadInv, WorkType, DiskType, RInv, LinkInv
<1>4. /\ surface'[at].to # None /\ (surface'[at].to \in Versions => surface'[at].as = "copy")
      /\ \A u \in Surfaces \ {at} : surface'[u] = surface[u]
  BY <1>1, <1>3, SwappedParts
<1>5. TargetInv' /\ AskInv' /\ DeltaInv'
  BY <1>2, <1>3 DEF WorkInv, TargetInv, AskInv, DeltaInv, LinkNew
<1>6. AsideInv'
  BY <1>2, <1>3, <1>4 DEF WorkInv, AsideInv, Middle
<1>7. LinkedInv' /\ FormerInv'
  BY <1>2, <1>3, <1>4 DEF WorkInv, LinkedInv, FormerInv, LinkNew, Aware, Off, Middle
<1>8. FileInv' /\ MemoryInv'
  BY <1>2, <1>3, <1>4 DEF WorkInv, FileInv, MemoryInv, Held, Firm, Satisfies, Aware, Off
<1> QED
  BY <1>5, <1>6, <1>7, <1>8 DEF WorkInv

LEMMA VerifyWork ==
    ASSUME IInv, RInv, WorkInv, Verify
    PROVE  WorkInv'
<1>1. /\ pc = "reconcile" /\ pc' = "save"
      /\ \A s \in Surfaces \ deferred : ~HasDelta(s)
      /\ UNCHANGED <<dirs, current, surface, host, target, prev, strays, lost, torn, at, pre, done, deferred, restorable>>
  BY DEF Verify, disk, records, plan, work, undo, history
<1>2. \A s \in Containers \ deferred : surface[s].to # None
  <2>1. target # None /\ Current # None
    BY <1>1, CutoverAssumption DEF IInv, DiskType, RInv, LinkInv
  <2> QED
    BY <1>1, <2>1, CutoverAssumption DEF HasDelta, Launch
<1>3. TargetInv' /\ DeltaInv' /\ AskInv' /\ LinkedInv' /\ FormerInv'
  BY <1>1 DEF WorkInv, TargetInv, DeltaInv, AskInv, LinkNew, LinkedInv, FormerInv, Middle
<1>4. AsideInv'
  BY <1>1, <1>2, CutoverAssumption DEF WorkInv, AsideInv, Middle
<1>5. FileInv' /\ MemoryInv'
  BY <1>1 DEF WorkInv, FileInv, MemoryInv, Held, Firm, Satisfies, Aware, Off
<1> QED
  BY <1>3, <1>4, <1>5 DEF WorkInv

\* A container on record goes back, or is removed first.
LEMMA ContainersWork ==
    ASSUME IInv, RInv, WorkInv, PutBack \/ \E s \in Surfaces : RollBackContainer(s) \/ TakeOut(s)
    PROVE  WorkInv'
<1>1. PICK s \in Surfaces :
        /\ pc \in {"containers", "missing"} /\ s \in done \cap Containers
        /\ \/ /\ pc' = "containers" /\ done' = done \ {s} /\ at' = at /\ (pc = "missing" => at = s)
              /\ surface' = [surface EXCEPT ![s] = Recorded(s)]
           \/ /\ pc = "containers" /\ pc' = "missing" /\ done' = done /\ at' = s
              /\ surface' = [surface EXCEPT ![s].to = None]
        /\ UNCHANGED <<dirs, current, host, target, prev, pre, strays, lost, torn, deferred, restorable>>
  BY DEF IInv, ReadInv, PutBack, RollBackContainer, TakeOut, plan, undo, history
<1>2. /\ surface \in [Surfaces -> Entries] /\ done \subseteq Surfaces /\ Containers \subseteq Surfaces
      /\ None \notin Versions /\ Current # None /\ restorable = {}
  BY <1>1, CutoverAssumption DEF IInv, DiskType, WorkType, ReadInv
<1>3. \A u \in Surfaces \ {s} : surface'[u] = surface[u]
  BY <1>1, <1>2
<1>4. \/ surface'[s].to = None /\ (pc' = "missing" \/ s \in lost)
      \/ surface'[s] = pre[s] /\ pc' = "containers" /\ pre[s].to # Current
  <2>1. CASE surface' = [surface EXCEPT ![s].to = None] /\ pc' = "missing"
    BY <1>2, <2>1 DEF Entries
  <2>2. CASE surface' = [surface EXCEPT ![s] = Recorded(s)] /\ pc' = "containers"
    <3>1. pre[s].as = "link" => s \in lost
      BY <1>1 DEF RInv, RecordInv, Middle
    <3>2. pre[s].to = Current => pre[s].as = "link"
      BY <1>1 DEF RInv, RecordInv, Middle
    <3>3. surface'[s] = Recorded(s)
      BY <1>2, <2>2
    <3> QED
      BY <2>2, <3>1, <3>2, <3>3, RecordedParts
  <2> QED
    BY <1>1, <2>1, <2>2
<1>5. TargetInv' /\ AskInv' /\ DeltaInv'
  BY <1>1, <1>2 DEF WorkInv, TargetInv, AskInv, DeltaInv, LinkNew
<1>6. AsideInv'
  BY <1>1, <1>2, <1>3, <1>4 DEF WorkInv, AsideInv, Middle
<1>7. LinkedInv' /\ FormerInv'
  BY <1>1, <1>2, <1>3, <1>4 DEF WorkInv, LinkedInv, FormerInv, LinkNew, Aware, Off, Middle
<1>8. FileInv' /\ MemoryInv'
  BY <1>1, <1>2, <1>3, <1>4 DEF WorkInv, FileInv, MemoryInv, Held, Firm, Satisfies, Aware, Off
<1> QED
  BY <1>5, <1>6, <1>7, <1>8 DEF WorkInv

LEMMA ClassifyWork ==
    ASSUME IInv, WorkInv, Classify
    PROVE  WorkInv'
<1> DEFINE Needs(f, S) == {f[s].new : s \in {t \in S : f[t].to = Current}}
<1>1. /\ pc = "containers" /\ pc' = "repoint" /\ done \cap Containers = {}
      /\ restorable' = done \ touched
      /\ unmet' = Needs(surface, Surfaces \ (Containers \cup restorable'))
      /\ needs' = unmet' \cup Needs(pre, restorable')
      /\ UNCHANGED <<dirs, current, surface, host, target, prev, strays, lost, torn, at, pre, done>>
  BY DEF Classify, disk, plan, history
<1>2. AskInv'
  BY <1>1 DEF AskInv
<1> HIDE DEF Needs
<1>3. TargetInv' /\ DeltaInv' /\ AsideInv'
  BY <1>1 DEF WorkInv, TargetInv, DeltaInv, AsideInv, LinkNew, Middle
<1>4. LinkedInv' /\ FormerInv'
  BY <1>1 DEF WorkInv, LinkedInv, FormerInv, LinkNew, Aware, Off, Middle
<1>5. FileInv' /\ MemoryInv'
  BY <1>1 DEF WorkInv, FileInv, MemoryInv, Held, Firm, Satisfies, Aware, Off
<1> QED
  BY <1>2, <1>3, <1>4, <1>5 DEF WorkInv

\* If the link ends up at an old payload, what live entries cannot be restored
\* ask nothing new of it.
LEMMA RepointParts ==
    ASSUME IInv, RInv, WorkInv, Repoint, current' \in Legacy
    PROVE  prev \in Legacy /\ TRUE \notin unmet
<1>1. /\ pc = "repoint"
      /\ matches' = (needs = {} \/ Satisfies(prev, TRUE \in needs))
      /\ IF matches' THEN current' = prev ELSE current' \in Fallbacks
  BY DEF Repoint
<1>2. /\ prev \in dirs /\ prev \in Versions /\ target \notin Legacy /\ unmet \subseteq needs
  BY <1>1 DEF RInv, LinkInv, IInv, DiskType, WorkInv, TargetInv, AskInv
<1>3. CASE matches'
  BY <1>1, <1>2, <1>3 DEF Satisfies
<1>4. CASE ~matches'
  <2> DEFINE asked == TRUE \in (IF unmet = {} THEN needs ELSE unmet)
  <2>1. prev \in Legacy
    BY <1>1, <1>2, <1>4 DEF Satisfies
  <2>2. current' # target
    BY <1>2
  <2>3. Satisfies(current', asked)
    BY <1>1, <1>4, <2>2 DEF Fallbacks
  <2>4. ~asked
    BY <2>3 DEF Satisfies
  <2> QED
    BY <2>1, <2>4
<1> QED
  BY <1>3, <1>4

LEMMA RepointWork ==
    ASSUME IInv, RInv, WorkInv, Repoint
    PROVE  WorkInv'
<1>1. /\ pc = "repoint" /\ pc' = "restore"
      /\ UNCHANGED <<dirs, surface, host, target, prev, strays, lost, torn, at, pre, done, restorable>>
  BY DEF Repoint, plan, work, history
<1>2. TargetInv' /\ DeltaInv' /\ AsideInv' /\ FormerInv' /\ AskInv'
  BY <1>1 DEF WorkInv, TargetInv, DeltaInv, AsideInv, FormerInv, AskInv, LinkNew, Middle
<1>3. LinkedInv'
  <2> SUFFICES ASSUME ~torn, current' \in Legacy, NEW s \in Surfaces, s \notin strays
               PROVE  /\ s \in lost \cup restorable \/ ~LinkNew(surface[s])
                      /\ Aware(s) => ~LinkNew(host[s])
    BY <1>1 DEF LinkedInv, LinkNew, Aware, Off
  <2>1. prev \in Legacy /\ TRUE \notin unmet
    BY RepointParts
  <2>2. /\ Aware(s) => ~LinkNew(host[s])
        /\ s \in Containers => s \in lost \/ ~LinkNew(surface[s])
    BY <1>1, <2>1, CutoverAssumption DEF WorkInv, FormerInv, Middle, RInv, UndoInv, Repoint
  <2>3. s \notin Containers /\ s \notin restorable => ~LinkNew(surface[s])
    <3>1. surface[s].new \in BOOLEAN
      BY EntryParts DEF IInv, DiskType
    <3> QED
      BY <1>1, <2>1, <3>1 DEF WorkInv, AskInv, LinkNew
  <2> QED
    BY <2>2, <2>3
<1>4. FileInv' /\ MemoryInv'
  BY <1>1 DEF WorkInv, FileInv, MemoryInv, Held, Firm, Satisfies, Aware, Off
<1> QED
  BY <1>2, <1>3, <1>4 DEF WorkInv

LEMMA RestoreWork ==
    ASSUME IInv, RInv, WorkInv, NEW s \in Surfaces, Restore(s)
    PROVE  WorkInv'
<1> DEFINE former == IF prev \in dirs THEN prev ELSE doc.active
           pinned == pre[s].to = Current /\ ~matches /\ Satisfies(former, pre[s].new)
           e == IF pinned THEN [pre[s] EXCEPT !.to = former] ELSE pre[s]
<1>1. /\ pc = "restore" /\ pc' = "restore" /\ s \in restorable
      /\ restorable' = restorable \ {s}
      /\ surface' = [surface EXCEPT ![s] = e]
      /\ UNCHANGED <<dirs, current, host, target, prev, strays, lost, torn, at, pre, done>>
  BY DEF Restore, plan, history
<1>2. /\ surface \in [Surfaces -> Entries] /\ pre[s] \in Entries
      /\ former = prev /\ prev \in Versions
  BY <1>1 DEF IInv, DiskType, WorkType, RInv, LinkInv
<1>3. surface'[s] = e /\ \A u \in Surfaces \ {s} : surface'[u] = surface[u]
  BY <1>1, <1>2
<1>4. s \in done /\ s \notin Containers /\ Containers \subseteq Surfaces
  BY <1>1, CutoverAssumption DEF WorkInv, TargetInv, RInv, UndoInv
<1>5. ~LinkNew(e) /\ (s \in strays \/ Held(s, e))
  <2>1. ~LinkNew(pre[s]) /\ (s \in strays \/ Held(s, pre[s]))
    BY <1>4 DEF WorkInv, DeltaInv, FileInv
  <2>2. CASE pinned
    <3>1. e.to = prev /\ e.new = pre[s].new /\ Satisfies(prev, pre[s].new)
      BY <1>2, <2>2, Zenon DEF Entries
    <3>2. prev # Current /\ prev # None
      BY <1>2, CutoverAssumption
    <3> HIDE DEF e
    <3> QED
      BY <3>1, <3>2 DEF LinkNew, Held, Firm
  <2>3. CASE ~pinned
    BY <2>1, <2>3
  <2> QED
    BY <2>2, <2>3
<1> HIDE DEF e, pinned, former
<1>6. TargetInv' /\ DeltaInv' /\ FormerInv' /\ AskInv'
  BY <1>1 DEF WorkInv, TargetInv, DeltaInv, FormerInv, AskInv, LinkNew, Middle
<1>7. AsideInv'
  BY <1>1, <1>3, <1>4 DEF WorkInv, AsideInv, LinkNew, Middle
<1>8. LinkedInv'
  BY <1>1, <1>3, <1>5 DEF WorkInv, LinkedInv, LinkNew, Aware, Off
<1>9. FileInv' /\ MemoryInv'
  BY <1>1, <1>3, <1>5 DEF WorkInv, FileInv, MemoryInv, Held, Firm, Satisfies, Aware, Off
<1> QED
  BY <1>6, <1>7, <1>8, <1>9 DEF WorkInv

LEMMA SaveWork ==
    ASSUME IInv, RInv, WorkInv, Save
    PROVE  WorkInv'
<1>1. /\ pc = "save" /\ pc' = "scan"
      /\ torn' = (torn /\ deferred \cap Containers # {}) /\ lost' = lost \cap deferred
      /\ UNCHANGED <<dirs, current, surface, host, target, prev, strays, at, pre, done, restorable>>
  BY DEF Save, records, plan, work, undo
<1>2. TargetInv' /\ DeltaInv' /\ AskInv' /\ LinkedInv' /\ FormerInv'
  BY <1>1 DEF WorkInv, TargetInv, DeltaInv, AskInv, LinkNew, LinkedInv, FormerInv, Middle
<1>3. AsideInv'
  BY <1>1 DEF WorkInv, AsideInv, Middle
<1>4. FileInv' /\ MemoryInv'
  BY <1>1 DEF WorkInv, FileInv, MemoryInv, Held, Firm, Satisfies, Aware, Off
<1> QED
  BY <1>2, <1>3, <1>4 DEF WorkInv

LEMMA ScansWork ==
    ASSUME IInv, WorkInv, ScanConfigs \/ ScanServers
    PROVE  WorkInv'
<1>1. /\ \/ /\ pc = "scan" /\ pc' = "servers"
            /\ UNION {Named(surface[s]) : s \in Surfaces} \subseteq keep'
         \/ pc = "servers" /\ pc' = "prune" /\ keep \subseteq keep'
      /\ UNCHANGED <<dirs, current, surface, host, target, prev, strays, lost, torn, at, pre, done, restorable>>
  BY DEF ScanConfigs, ScanServers, disk, plan, work, undo, history
<1>2. TargetInv' /\ DeltaInv' /\ AskInv' /\ LinkedInv' /\ FormerInv' /\ AsideInv'
  BY <1>1 DEF WorkInv, TargetInv, DeltaInv, AskInv, LinkNew, LinkedInv, FormerInv, AsideInv, Middle
<1>3. MemoryInv'
  BY <1>1 DEF WorkInv, MemoryInv, Held, Firm, Satisfies, Aware, Off
<1>4. FileInv'
  <2>1. \A s \in Surfaces : s \in strays \/ Named(surface[s]) \subseteq keep'
    BY <1>1 DEF WorkInv, FileInv
  <2> QED
    BY <1>1, <2>1 DEF WorkInv, FileInv, Held, Firm, Satisfies
<1> QED
  BY <1>2, <1>3, <1>4 DEF WorkInv

\* A cutover that ends, whatever its end, where the link is not taken back half way.
LEMMA EndedWork ==
    ASSUME IInv, RInv, WorkInv, Forget, pc' = "idle", UNCHANGED <<current, surface, host, strays, lost>>,
           torn => torn', pc \in {"aside", "missing"} => torn',
           pc = "restore" => torn' \/ restorable = {}
    PROVE  TargetInv' /\ DeltaInv' /\ LinkedInv' /\ FormerInv' /\ AsideInv' /\ AskInv'
<1>1. done' = {} /\ restorable' = {}
  BY Zenon DEF Forget
<1>2. pc = "ready" => restorable = {}
  BY DEF IInv, ReadInv
<1>3. TargetInv' /\ DeltaInv' /\ AskInv' /\ FormerInv' /\ AsideInv'
  BY <1>1 DEF WorkInv, TargetInv, DeltaInv, AskInv, FormerInv, AsideInv, LinkNew, Middle
<1>4. LinkedInv'
  <2>1. CASE pc \in {"idle", "ready", "restore"}
    BY <1>1, <1>2, <2>1 DEF IInv, ReadInv, WorkInv, LinkedInv, LinkNew, Aware, Off
  <2>2. CASE pc \notin {"idle", "ready", "restore"}
    BY <2>2 DEF RInv, LinkInv, WorkInv, TargetInv, LinkedInv
  <2> QED
    BY <2>1, <2>2
<1> QED
  BY <1>3, <1>4

LEMMA EndWork ==
    ASSUME IInv, RInv, WorkInv, RolledBack \/ Crash
    PROVE  WorkInv'
<1>1. /\ pc' = "idle" /\ Forget /\ UNCHANGED <<dirs, current, surface, host, strays, lost>>
      /\ torn => torn'
      /\ pc \in {"aside", "missing"} => torn'
      /\ pc = "restore" => torn' \/ restorable = {}
  <2>1. CASE RolledBack
    BY <2>1 DEF RolledBack, disk
  <2>2. CASE Crash
    <3>1. torn' = (torn \/ pc \in {"aside", "missing", "restore"}) /\ torn \in BOOLEAN
      BY <2>2 DEF Crash, IInv, RunType
    <3> QED
      BY <2>2, <3>1 DEF Crash, disk
  <2> QED
    BY <2>1, <2>2
<1>2. TargetInv' /\ DeltaInv' /\ LinkedInv' /\ FormerInv' /\ AsideInv' /\ AskInv'
  BY <1>1, EndedWork
<1>3. done' = {}
  BY <1>1, Zenon DEF Forget
<1>4. FileInv' /\ MemoryInv'
  BY <1>1, <1>3 DEF WorkInv, FileInv, MemoryInv, Held, Firm, Satisfies, Aware, Off
<1> QED
  BY <1>2, <1>4 DEF WorkInv

LEMMA PruneWork ==
    ASSUME IInv, RInv, WorkInv, Prune
    PROVE  WorkInv'
<1>1. /\ pc = "prune" /\ pc' = "idle" /\ Forget /\ dirs' = dirs \cap keep
      /\ UNCHANGED <<current, surface, host, strays, lost, torn>>
  BY DEF Prune
<1>2. TargetInv' /\ DeltaInv' /\ LinkedInv' /\ FormerInv' /\ AsideInv' /\ AskInv'
  BY <1>1, EndedWork
<1>3. done' = {}
  BY <1>1, Zenon DEF Forget
<1>4. FileInv'
  BY <1>1, <1>3 DEF WorkInv, FileInv, Held, Firm, Satisfies, Named
<1>5. MemoryInv'
  <2> SUFFICES ASSUME NEW s \in Surfaces, Aware(s), s \notin strays
               PROVE  Held(s, host[s])' /\ (host[s].to \in Versions => host[s].code = host[s].to)
    BY <1>1 DEF WorkInv, MemoryInv, Aware, Off
  <2>1. Held(s, host[s]) /\ (host[s].to \in Versions => host[s].code = host[s].to)
    BY DEF WorkInv, MemoryInv
  <2>2. host[s].as = "copy" \/ host[s].code \in keep
    BY <1>1, CutoverAssumption DEF IInv, KeepInv, Served, Aware
  <2> QED
    BY <1>1, <2>1, <2>2 DEF Held, Firm, Satisfies
<1> QED
  BY <1>2, <1>4, <1>5 DEF WorkInv

LEMMA InitWork == Init => WorkInv
<1> SUFFICES ASSUME Init PROVE WorkInv
  OBVIOUS
<1>1. /\ dirs = Versions \ {CHOOSE v \in Versions : \A w \in Versions : w <= v}
      /\ surface \in [Surfaces -> Entries] /\ \A s \in Surfaces : surface[s] \in Found(s)
      /\ host = [s \in Surfaces |-> NoHost]
      /\ pc = "idle" /\ done = {} /\ restorable = {} /\ lost = {}
  BY DEF Init
<1>2. Legacy \subseteq dirs
  <2>1. PICK v \in Versions \ Legacy : \A w \in Versions : w <= v
    BY CutoverAssumption
  <2>2. \A u \in Versions : (\A w \in Versions : w <= u) => u = v
    BY <2>1, CutoverAssumption
  <2>3. v = CHOOSE u \in Versions : \A w \in Versions : w <= u
    BY <2>1, <2>2
  <2> QED
    BY <1>1, <2>1, <2>3, CutoverAssumption
<1>3. \A s \in Surfaces : surface[s].to \in Legacy \cup {Current} /\ surface[s].new = FALSE
  BY <1>1 DEF Found
<1>4. \A s \in Surfaces : Off(s)
  BY <1>1 DEF NoHost, Off
<1>5. \A s \in Surfaces : surface[s].to # None
  BY <1>3, CutoverAssumption
<1>6. TargetInv /\ DeltaInv /\ LinkedInv /\ FormerInv /\ AsideInv /\ AskInv /\ MemoryInv
  BY <1>1, <1>3, <1>4, <1>5, CutoverAssumption
     DEF TargetInv, DeltaInv, LinkedInv, FormerInv, AsideInv, AskInv, MemoryInv, LinkNew, Aware, Middle
<1>7. FileInv
  BY <1>1, <1>2, <1>3, <1>5, CutoverAssumption DEF FileInv, Held, Firm, Satisfies
<1> QED
  BY <1>6, <1>7 DEF WorkInv

LEMMA StepWork == IInv /\ RInv /\ WorkInv /\ [Next]_vars => WorkInv'
<1> SUFFICES ASSUME IInv, RInv, WorkInv, [Next]_vars PROVE WorkInv'
  OBVIOUS
<1>1. ASSUME NEW s \in Surfaces, HostStarts(s) \/ HostEdits(s) \/ HostExits(s) PROVE WorkInv'
  BY <1>1, HostStartsWork, HostEditsWork, HostExitsWork
<1>2. ASSUME NEW v \in Versions, Begin(v) \/ Install(v) \/ \E s \in Surfaces : UseVersion(s, v) PROVE WorkInv'
  BY <1>2, BeginWork, InstallWork, UseVersionWork
<1>3. ASSUME NEW s \in Surfaces, Skip(s) \/ Defer(s) \/ Stage(s) \/ SwapLinks(s) \/ SwapAside(s) PROVE WorkInv'
  BY <1>3, LooksWork, StageWork, SwapLinksWork, SwapAsideWork
<1>4. ASSUME Flip \/ Check \/ Replace \/ Readback \/ Conflict PROVE WorkInv'
  BY <1>4, FlipWork, LooksWork, ReplaceWork, ReadbackWork
<1>5. ASSUME SwapIn \/ SwapFails \/ Fails \/ Verify PROVE WorkInv'
  BY <1>5, SwapEndWork, LooksWork, VerifyWork
<1>6. ASSUME \/ PutBack \/ \E s \in Surfaces : RollBackContainer(s) \/ TakeOut(s) \/ Restore(s)
             \/ Classify \/ Repoint \/ RolledBack \/ Crash
      PROVE  WorkInv'
  BY <1>6, ContainersWork, ClassifyWork, RepointWork, RestoreWork, EndWork
<1>7. ASSUME Save \/ ScanConfigs \/ ScanServers \/ Prune PROVE WorkInv'
  BY <1>7, SaveWork, ScansWork, PruneWork
<1>8. CASE UNCHANGED vars
  <2>1. /\ UNCHANGED <<dirs, current, surface, host, pc, strays, lost, torn>>
        /\ UNCHANGED <<target, prev, at, pre, done, deferred, needs, unmet, restorable, keep>>
    BY <1>8 DEF vars, disk, records, plan, work, undo, history
  <2>2. TargetInv' /\ DeltaInv' /\ AsideInv' /\ AskInv' /\ LinkedInv' /\ FormerInv'
    BY <2>1 DEF WorkInv, TargetInv, DeltaInv, AsideInv, AskInv, LinkedInv, FormerInv, LinkNew,
                Aware, Off
  <2>3. FileInv' /\ MemoryInv'
    BY <2>1 DEF WorkInv, FileInv, MemoryInv, Held, Firm, Satisfies, Aware, Off
  <2> QED
    BY <2>2, <2>3 DEF WorkInv
<1>9. CASE Next
  BY <1>1, <1>2, <1>3, <1>4, <1>5, <1>6, <1>7, <1>9, Zenon DEF Next, Cutover
<1> QED
  BY <1>8, <1>9

\* Between commands, whatever succeeded, failed or died, every surface whose host
\* stayed out of the cutovers launches a payload that is on disk and has what the
\* surface names; but for containers whose subtrees have no record, and until a
\* cutover that died while it swapped or undid something has been made good.
THEOREM SurfacesLaunch == Spec => []LaunchesWork
<1>1. IInv /\ RInv /\ WorkInv => LaunchesWork
  <2> SUFFICES ASSUME IInv, RInv, WorkInv, pc = "idle", ~torn, NEW s \in Surfaces, s \notin strays \cup lost
               PROVE  Works(s)
    BY DEF LaunchesWork
  <2>1. /\ surface[s].to \in Versions \cup {Current, None} /\ surface[s].new \in BOOLEAN
        /\ current \in dirs /\ restorable = {}
    BY EntryParts DEF IInv, DiskType, ReadInv, RInv, LinkInv
  <2>2. surface[s].to # None
    BY DEF WorkInv, AsideInv, FileInv, Held
  <2>3. CASE surface[s].to = Current
    <3>1. current \in Legacy => surface[s].new = FALSE
      BY <2>1, <2>3 DEF WorkInv, LinkedInv, LinkNew
    <3> QED
      BY <2>1, <2>3, <3>1 DEF Works, Launch, Satisfies
  <2>4. CASE surface[s].to \in Versions
    <3>1. surface[s].to # Current
      BY <2>4, CutoverAssumption
    <3>2. surface[s].as # "copy" => Satisfies(surface[s].to, surface[s].new)
      BY <2>4 DEF WorkInv, FileInv, Held, Firm
    <3> QED
      BY <2>4, <3>1, <3>2 DEF Works, Launch
  <2> QED
    BY <2>1, <2>2, <2>3, <2>4
<1>2. Spec => []WorkInv
  BY InitWork, StepWork, Invariant, UndoInvariant, PTL DEF Spec
<1> QED
  BY <1>1, <1>2, Invariant, UndoInvariant, PTL
=============================================================================
