----------------------------- MODULE WireCutover -----------------------------
(***************************************************************************)
(* The cutover of src/minni/wire: `minni sync` moves every host from one   *)
(* installed payload to another.  It flips the `current` link, rewrites    *)
(* the surfaces of the hosts by compare-and-swap, verifies, and either     *)
(* rolls everything back or saves wired.json and collects old payloads,    *)
(* while the hosts start, edit their own files and rewrite them on exit,   *)
(* their servers run from a payload, and `minni wire` re-wires a surface.  *)
(*                                                                         *)
(* A surface is a config file, or a container, the host's plugin           *)
(* directory: its subtrees are copies of a payload's or links to them, or  *)
(* it is itself a link to a payload.  Of a surface the model keeps which   *)
(* of these it is, what it launches (a payload, or the `current` link),    *)
(* whether it names a path only new payloads have, and which of the host's *)
(* own edits it carries.  Payloads are numbered by age.  Left out: a real  *)
(* directory at `current`, absent surfaces, what entries hold beside the   *)
(* path, links to a commands directory and installed_plugins.json, dry     *)
(* runs, installs during a cutover.  The subtrees of a container are one;  *)
(* it launches nothing while one of them is missing.                       *)
(***************************************************************************)
EXTENDS Integers, FiniteSets, Sequences

CONSTANTS
    Versions,    \* payload versions, numbered in the order they were built
    Catalog,     \* the surfaces, in the order of the registry
    Containers,  \* those that are plugin containers
    Hosts,       \* those whose host starts servers
    Rewriters,   \* those of them whose host writes its memory back (rewrite_on_run_hazard)
    Pinned,      \* surfaces that may be found naming a payload and not the link
    Legacy,      \* payloads without the paths the entries of a cutover name; the newest has them
    MaxWrites,   \* bound: writes of surfaces by others
    MaxRuns,     \* bound: cutovers begun
    Current,     \* what an entry names that launches through the link
    None

Surfaces == {Catalog[i] : i \in 1 .. Len(Catalog)}

ASSUME CutoverAssumption ==
    /\ Catalog \in Seq(Surfaces)
    /\ Versions \subseteq Nat /\ Legacy \subseteq Versions
    /\ \E v \in Versions \ Legacy : \A w \in Versions : w <= v
    /\ Rewriters \subseteq Hosts /\ Containers \cup Hosts \subseteq Surfaces /\ Containers \cap Rewriters = {}
    /\ Pinned \subseteq Surfaces /\ MaxWrites \in Nat /\ MaxRuns \in Nat
    /\ {None, Current} \cap Versions = {} /\ None \notin Surfaces /\ None # Current

VARIABLES
    dirs,       \* payload directories on disk
    current,    \* the link ~/.minni/plugin/current
    wires,      \* the rows of wired.json: the install root of each surface
    active,     \* its active version
    surface,    \* the surfaces as they are on disk
    host,       \* of each running host: the payload its server runs from and the
                \* entry it has in memory
    pc,         \* where the cutover is
    target, prev, doc, running, protect,
                \* its version, the former link, wired.json as it was read, the
                \* hosts found running, versions named by deferred surfaces
    needs, unmet, matches,
                \* of a rollback: what live entries need of the link, what those it
                \* cannot restore need, whether the link is back where it was
    todo,       \* surfaces it has not come to
    at,         \* the surface it is writing
    pre,        \* surfaces as it read them
    done,       \* surfaces it has rewritten (the rollback records)
    deferred,   \* surfaces it leaves to a running host
    reported,   \* surfaces it reports as conflicts
    restorable, \* surfaces it is about to restore
    keep,       \* payloads the collection retains
    runs,       \* cutovers begun
    writes,     \* writes of others
    touched,    \* surfaces written by others since the cutover last looked: what
                \* (st_ino, st_mtime_ns, sha256) tells it
    edits,      \* edits each host has made (history)
    raced,      \* surfaces edited between a check and the write it allows (history)
    strays,     \* surfaces whose host started, or put its entry back, and those wired,
                \* during a cutover (history)
    wrote,      \* surfaces this cutover has changed (history)
    lost,       \* containers a rollback cannot restore, for want of records: some subtrees
                \* were swapped before an error, or the container was a link itself; until
                \* they are converged (history)
    torn        \* whether a cutover died while a container was aside, or while it
                \* undid its work, and none has converged every container since (history)

Targets == Versions \cup {None}
Forms   == {"entry", "copy", "links", "link"}
Entries == [to : Versions \cup {Current, None}, as : Forms, new : BOOLEAN, rev : 0 .. MaxWrites]
Running == [code : Targets, to : Versions \cup {Current, None}, as : Forms, new : BOOLEAN]
Steps   == {"idle", "ready", "reconcile", "staged", "checked", "replaced", "aside",
            "containers", "missing", "repoint", "restore", "save", "scan", "servers", "prune"}

saved   == <<wires, active>>
disk    == <<dirs, current, saved, surface, host>>
plan    == <<target, prev, doc, running>>
work    == <<todo, at, pre, done, deferred, reported, protect>>
undo    == <<needs, unmet, matches, restorable>>
records == <<plan, work, undo, keep>>
history == <<edits, raced, strays, wrote, lost, torn>>
vars    == <<disk, pc, records, runs, writes, touched, history>>

Launch(e, link) == IF e.to = Current THEN link ELSE e.to

\* A config entry is to name the link.  A container is to hold what the new
\* payload holds, and neither to be a link nor to link to a version.
Wanted(s) == [surface[s] EXCEPT !.to = Current, !.new = TRUE]
HasDelta(s) ==
    IF s \in Containers
    THEN \/ surface[s].as = "link"
         \/ surface[s].as = "links" /\ surface[s].to # Current
         \/ Launch(surface[s], current) # target
    ELSE surface[s] # Wanted(s)

\* A container that holds a copy needs nothing else on disk.
Satisfies(v, new) == v \in dirs /\ (new => v \notin Legacy)
Works(s) ==
    \/ surface[s].as = "copy" /\ surface[s].to \in Versions
    \/ Satisfies(Launch(surface[s], current), surface[s].new)

\* Mutant: the link counts as a payload.
NamesLink(e) == {e.to}

\* The payload directories an entry names; a copy names none.
Named(e) == IF e.as = "copy" THEN {} ELSE {e.to} \cap Versions

Off(s) == host[s].code = None
NoHost == [code |-> None, to |-> None, as |-> "entry", new |-> FALSE]
Blank  == [to |-> None, as |-> "entry", new |-> FALSE, rev |-> 0]

\* How a surface may be found.
Found(s) ==
    LET names == {Current} \cup (IF s \in Pinned THEN Legacy ELSE {})
        forms == IF s \in Containers THEN Forms \ {"entry"} ELSE {"entry"} IN
    {[to |-> v, as |-> f, new |-> FALSE, rev |-> 0] : v \in names, f \in forms}
        \ {[to |-> Current, as |-> "copy", new |-> FALSE, rev |-> 0]}

Init ==
    /\ dirs = Versions \ {CHOOSE v \in Versions : \A w \in Versions : w <= v}
    /\ current \in dirs
    /\ wires = [s \in Surfaces |-> None] /\ active = current
    /\ surface \in {f \in [Surfaces -> Entries] : \A s \in Surfaces : f[s] \in Found(s)}
    /\ host = [s \in Surfaces |-> NoHost]
    /\ pc = "idle" /\ runs = 0 /\ writes = 0
    /\ target = None /\ prev = None /\ doc = [rows |-> wires, active |-> None] /\ running = {}
    /\ todo = <<>> /\ at = None /\ pre = [s \in Surfaces |-> Blank]
    /\ done = {} /\ deferred = {} /\ reported = {} /\ protect = {}
    /\ needs = {} /\ unmet = {} /\ matches = TRUE /\ restorable = {} /\ keep = {}
    /\ touched = {}
    /\ edits = [s \in Surfaces |-> 0]
    /\ raced = {} /\ strays = {} /\ wrote = {} /\ lost = {} /\ torn = FALSE

\* When the process ends, what it knew is gone.
Forget ==
    /\ target' = None /\ prev' = None /\ doc' = [rows |-> [s \in Surfaces |-> None], active |-> None]
    /\ running' = {} /\ todo' = <<>> /\ at' = None
    /\ pre' = [s \in Surfaces |-> Blank]
    /\ done' = {} /\ deferred' = {} /\ reported' = {} /\ protect' = {}
    /\ needs' = {} /\ unmet' = {} /\ matches' = TRUE /\ restorable' = {} /\ keep' = {}
    /\ touched' = {} /\ wrote' = {}

-----------------------------------------------------------------------------
(* Hosts, their servers, and other commands.                               *)

Stray(s) == strays' = IF pc = "idle" THEN strays ELSE strays \cup {s}

\* Somebody else writes surface s; in a window between a check of the cutover
\* and the write it allows, nobody can notice.
Write(s, entry) ==
    /\ writes < MaxWrites /\ writes' = writes + 1
    /\ surface' = [surface EXCEPT ![s] = entry]
    /\ touched' = IF pc = "idle" THEN touched ELSE touched \cup {s}
    /\ raced' = IF \/ pc = "checked" /\ at = s
                   \/ pc \in {"repoint", "restore"} /\ s \in restorable
                THEN raced \cup {s} ELSE raced

\* A host starts its server, which resolves its own path, opens it and writes
\* its lease.
HostStarts(s) ==
    /\ s \in Hosts /\ Off(s) /\ surface[s].to # None /\ Works(s)
    /\ host' = [host EXCEPT ![s] = [code |-> Launch(surface[s], current),
                                    to |-> surface[s].to, as |-> surface[s].as, new |-> surface[s].new]]
    /\ Stray(s)
    /\ UNCHANGED <<dirs, current, saved, surface, pc, records, runs, writes, touched, edits, raced,
                   wrote, lost, torn>>

\* A host that keeps the file in memory puts back the entry it knows with
\* whatever it writes.
Known(s) == IF s \in Rewriters /\ ~Off(s)
            THEN [to |-> host[s].to, as |-> host[s].as, new |-> host[s].new, rev |-> edits[s]]
            ELSE surface[s]

HostEdits(s) ==
    /\ s \notin Containers
    /\ edits' = [edits EXCEPT ![s] = @ + 1]
    /\ Write(s, [Known(s) EXCEPT !.rev = edits[s] + 1])
    /\ IF s \in Rewriters /\ ~Off(s) THEN Stray(s) ELSE UNCHANGED strays
    /\ UNCHANGED <<dirs, current, saved, host, pc, records, runs, wrote, lost, torn>>

HostExits(s) ==
    /\ ~Off(s)
    /\ host' = [host EXCEPT ![s] = NoHost]
    /\ IF s \in Rewriters THEN Write(s, Known(s)) /\ Stray(s) ELSE UNCHANGED <<surface, writes, touched, raced, strays>>
    /\ UNCHANGED <<dirs, current, saved, pc, records, runs, edits, wrote, lost, torn>>

\* `minni wire --use-version v` writes the config, verifies, and registers the
\* install root in wired.json, under its lock.
UseVersion(s, v) ==
    /\ s \notin Containers /\ v \in dirs
    /\ wires' = [wires EXCEPT ![s] = v]
    /\ Write(s, [surface[s] EXCEPT !.to = v, !.new = v \notin Legacy])
    /\ Stray(s)
    /\ UNCHANGED <<dirs, current, active, host, pc, records, runs, edits, wrote, lost, torn>>

\* A payload is copied to a staging directory and renamed into place.
Install(v) ==
    /\ pc = "idle" /\ v \notin dirs
    /\ dirs' = dirs \cup {v}
    /\ UNCHANGED <<current, saved, surface, host, pc, records, runs, writes, touched, history>>

-----------------------------------------------------------------------------
(* The cutover.  Steps 1 to 3, payload and probes, abort before anything   *)
(* is written.                                                             *)

Begin(v) ==
    /\ pc = "idle" /\ runs < MaxRuns
    /\ v \in dirs \ Legacy
    /\ pc' = "ready" /\ runs' = runs + 1
    /\ target' = v
    /\ doc' = [rows |-> wires, active |-> active]
    /\ running' = {s \in Rewriters : ~Off(s)}
    /\ todo' = Catalog
    /\ UNCHANGED <<disk, prev, at, pre, done, deferred, reported, protect, undo, keep, writes,
                   touched, history>>

Flip ==
    /\ pc = "ready"
    /\ pc' = "reconcile"
    /\ prev' = current
    /\ current' = target
    /\ UNCHANGED <<dirs, saved, surface, host, target, doc, running, work, undo, keep, runs,
                   writes, touched, history>>

Reached(s) == todo # <<>> /\ s = Head(todo)

Skip(s) ==
    /\ pc = "reconcile" /\ Reached(s)
    /\ ~HasDelta(s)
    /\ todo' = Tail(todo)
    /\ UNCHANGED <<disk, pc, plan, at, pre, done, deferred, reported, protect, undo, keep, runs,
                   writes, touched, history>>

\* A host found running, or one that holds a lock file now, keeps its surface;
\* the payload that surface names is protected from this collection.
Defer(s) ==
    /\ pc = "reconcile" /\ Reached(s)
    /\ HasDelta(s)
    /\ s \in running \/ ~Off(s)
    /\ todo' = Tail(todo)
    /\ deferred' = deferred \cup {s}
    /\ protect' = protect \cup Named(surface[s])
    /\ UNCHANGED <<disk, pc, plan, at, pre, done, reported, undo, keep, runs, writes, touched, history>>

\* A config file is read, then its successor is staged beside it.
Stage(s) ==
    /\ pc = "reconcile" /\ Reached(s) /\ s \notin Containers
    /\ HasDelta(s) /\ s \notin running
    /\ pc' = "staged" /\ at' = s
    /\ todo' = Tail(todo)
    /\ pre' = [pre EXCEPT ![s] = surface[s]]
    /\ touched' = touched \ {s}
    /\ UNCHANGED <<disk, plan, done, deferred, reported, protect, undo, keep, runs, writes, history>>

\* Mutant: the file is replaced without a second look.
CheckNothing ==
    /\ pc = "staged"
    /\ pc' = "checked"
    /\ UNCHANGED <<disk, records, runs, writes, touched, history>>

\* Immediately before os.replace: no lock file, and the file is the one read.
Check ==
    /\ pc = "staged" /\ at \notin touched
    /\ pc' = "checked"
    /\ UNCHANGED <<disk, records, runs, writes, touched, history>>

Rewritten(e) == [e EXCEPT !.to = Current, !.new = TRUE]

Replace ==
    /\ pc = "checked"
    /\ pc' = "replaced"
    /\ surface' = [surface EXCEPT ![at] = Rewritten(pre[at])]
    /\ touched' = touched \ {at}
    /\ wrote' = wrote \cup {at}
    /\ UNCHANGED <<dirs, current, saved, host, records, runs, writes, edits, raced, strays, lost, torn>>

\* The file is read back: what it holds now is what a rollback compares with.
Readback ==
    /\ pc = "replaced" /\ surface[at] = Rewritten(pre[at])
    /\ pc' = "reconcile"
    /\ done' = done \cup {at}
    /\ touched' = touched \ {at}
    /\ UNCHANGED <<disk, plan, todo, at, pre, deferred, reported, protect, undo, keep, runs, writes, history>>

Conflict ==
    /\ \/ pc = "staged" /\ (at \in touched \/ ~Off(at))
       \/ pc = "replaced" /\ surface[at] # Rewritten(pre[at])
    /\ pc' = "containers"
    /\ reported' = reported \cup {at}
    /\ UNCHANGED <<disk, plan, todo, at, pre, done, deferred, protect, undo, keep, runs, writes, touched,
                   history>>

\* What a container is converged to: a copy of the new payload, or links if
\* its gate in wired.json allows them.
Swapped(s, form) ==
    [surface[s] EXCEPT !.to = IF form = "links" THEN Current ELSE target, !.as = form, !.new = TRUE]

\* A container about to be changed, as it was found.
Swap(s) ==
    /\ pc = "reconcile" /\ Reached(s) /\ s \in Containers
    /\ HasDelta(s) /\ s \notin running
    /\ todo' = Tail(todo)
    /\ pre' = [pre EXCEPT ![s] = surface[s]]
    /\ wrote' = wrote \cup {s}
    /\ UNCHANGED <<dirs, current, saved, host, plan, deferred, reported, protect, undo, keep,
                   runs, writes, touched, edits, raced, strays, torn>>

\* Links to a version are replaced in place by links to current.
SwapLinks(s) ==
    /\ Swap(s) /\ surface[s].as = "links"
    /\ surface' = [surface EXCEPT ![s] = Swapped(s, "links")]
    /\ done' = done \cup {s}
    /\ UNCHANGED <<pc, at, lost>>

\* Other subtrees are renamed or unlinked before the new ones take their
\* place.  A container that is a link is unlinked, with no record of it; one
\* that dangles is an error.
SwapAside(s) ==
    /\ Swap(s)
    /\ surface[s].as = "link" => Works(s)
    /\ pc' = "aside" /\ at' = s
    /\ surface' = [surface EXCEPT ![s].to = None]
    /\ lost' = IF surface[s].as = "link" THEN lost \cup {s} ELSE lost
    /\ UNCHANGED done

Modes == IF pre[at].as = "links" THEN {"copy"} ELSE {"copy", "links"}

SwapIn ==
    /\ pc = "aside"
    /\ pc' = "reconcile"
    /\ \E form \in Modes : surface' = [surface EXCEPT ![at] = Swapped(at, form)]
    /\ done' = done \cup {at}
    /\ UNCHANGED <<dirs, current, saved, host, plan, todo, at, pre, deferred, reported, protect,
                   undo, keep, runs, writes, touched, history>>

\* An error on the way loses the records of the subtrees swapped so far.
SwapFails ==
    /\ pc = "aside"
    /\ pc' = "containers"
    /\ \E form \in Modes : surface' = [surface EXCEPT ![at] = Swapped(at, form)]
    /\ lost' = lost \cup {at}
    /\ UNCHANGED <<dirs, current, saved, host, records, runs, writes, touched, edits, raced, strays,
                   wrote, torn>>

\* A surface cannot be parsed, or the verification after the flip fails.
Fails ==
    /\ pc = "reconcile"
    /\ pc' = "containers"
    /\ UNCHANGED <<disk, records, runs, writes, touched, history>>

\* Step 6: no surface may be left with a delta but the deferred ones.
Verify ==
    /\ pc = "reconcile" /\ todo = <<>>
    /\ \A s \in Surfaces \ deferred : ~HasDelta(s)
    /\ pc' = "save"
    /\ UNCHANGED <<disk, records, runs, writes, touched, history>>

-----------------------------------------------------------------------------
(* Rolling back.                                                           *)

\* What the records of a container say it held: of one that was a link, nothing.
Recorded(s) == IF pre[s].as = "link" THEN [pre[s] EXCEPT !.to = None, !.as = "copy"] ELSE pre[s]

\* Links take the place of links in one step; what was not there is removed.
InPlace(s) ==
    \/ Recorded(s).to = None
    \/ pre[s].as = "links" /\ surface[s].as = "links"

\* The containers on record are restored one after the other.
RollBackContainer(s) ==
    /\ pc = "containers" /\ s \in done \cap Containers /\ InPlace(s)
    /\ surface' = [surface EXCEPT ![s] = Recorded(s)]
    /\ done' = done \ {s}
    /\ UNCHANGED <<dirs, current, saved, host, pc, plan, todo, at, pre, deferred, reported, protect,
                   undo, keep, runs, writes, touched, history>>

\* In any other case the new subtree is removed first, and what was there is
\* put back after it.
TakeOut(s) ==
    /\ pc = "containers" /\ s \in done \cap Containers /\ ~InPlace(s)
    /\ pc' = "missing" /\ at' = s
    /\ surface' = [surface EXCEPT ![s].to = None]
    /\ UNCHANGED <<dirs, current, saved, host, plan, todo, pre, done, deferred, reported, protect,
                   undo, keep, runs, writes, touched, history>>

PutBack ==
    /\ pc = "missing"
    /\ pc' = "containers"
    /\ surface' = [surface EXCEPT ![at] = Recorded(at)]
    /\ done' = done \ {at}
    /\ UNCHANGED <<dirs, current, saved, host, plan, todo, at, pre, deferred, reported, protect,
                   undo, keep, runs, writes, touched, history>>

\* Every rewritten file is classified before any is restored: those changed
\* since are left alone and reported.  Then: what live entries ask of the link.
Classify ==
    LET Needs(f, S) == {f[s].new : s \in {t \in S : f[t].to = Current}} IN
    /\ pc = "containers" /\ done \cap Containers = {}
    /\ pc' = "repoint"
    /\ restorable' = done \ touched
    /\ reported' = reported \cup (done \cap touched)
    /\ unmet' = Needs(surface, Surfaces \ (Containers \cup restorable'))
    /\ needs' = unmet' \cup Needs(pre, restorable')
    /\ UNCHANGED <<disk, plan, todo, at, pre, done, deferred, protect, matches, keep, runs, writes, touched,
                   history>>

\* The link goes back if its former payload has what live entries name, and to
\* a payload that has it otherwise.
Fallbacks ==
    LET asked == TRUE \in (IF unmet = {} THEN needs ELSE unmet)
        named == UNION {Named(pre[s]) : s \in done \ restorable} IN
    IF \E v \in named : Satisfies(v, asked) THEN {v \in named : Satisfies(v, asked)}
    ELSE IF Satisfies(prev, asked) THEN {prev}
    ELSE IF Satisfies(doc.active, asked) THEN {doc.active} ELSE {target}

\* Mutant: the link always goes back.
RepointBack ==
    /\ pc = "repoint"
    /\ pc' = "restore"
    /\ matches' = TRUE /\ current' = prev
    /\ UNCHANGED <<dirs, saved, surface, host, plan, work, needs, unmet, restorable, keep, runs,
                   writes, touched, history>>

Repoint ==
    /\ pc = "repoint"
    /\ pc' = "restore"
    /\ matches' = (needs = {} \/ Satisfies(prev, TRUE \in needs))
    /\ IF matches' THEN current' = prev ELSE current' \in Fallbacks
    /\ UNCHANGED <<dirs, saved, surface, host, plan, work, needs, unmet, restorable, keep, runs,
                   writes, touched, history>>

\* Mutant: files are restored as they were, wherever the link points by now.
RestoreBytes(s) ==
    /\ pc = "restore" /\ s \in restorable
    /\ restorable' = restorable \ {s}
    /\ touched' = touched \ {s}
    /\ surface' = [surface EXCEPT ![s] = pre[s]]
    /\ UNCHANGED <<dirs, current, saved, host, pc, plan, todo, at, pre, done, deferred, reported,
                   protect, needs, unmet, matches, keep, runs, writes, history>>

\* An entry written for the former payload is pinned to it when the link could
\* not go back, or is reported.
Restore(s) ==
    LET former == IF prev \in dirs THEN prev ELSE doc.active
        pinned == pre[s].to = Current /\ ~matches /\ Satisfies(former, pre[s].new) IN
    /\ pc = "restore" /\ s \in restorable
    /\ restorable' = restorable \ {s}
    /\ touched' = touched \ {s}
    /\ surface' = [surface EXCEPT ![s] = IF pinned THEN [pre[s] EXCEPT !.to = former] ELSE pre[s]]
    /\ reported' = IF pre[s].to = Current /\ ~matches /\ ~pinned THEN reported \cup {s} ELSE reported
    /\ UNCHANGED <<dirs, current, saved, host, pc, plan, todo, at, pre, done, deferred, protect,
                   needs, unmet, matches, keep, runs, writes, history>>

RolledBack ==
    /\ pc = "restore" /\ restorable = {}
    /\ pc' = "idle" /\ Forget
    /\ UNCHANGED <<disk, runs, writes, edits, raced, strays, lost, torn>>

-----------------------------------------------------------------------------
(* Going on: wired.json is written from what was read at the beginning,    *)
(* and payloads nobody uses are collected.                                 *)

Save ==
    /\ pc = "save"
    /\ pc' = "scan"
    /\ IF done = {} /\ <<prev, doc.active>> = <<target, target>>
       THEN UNCHANGED saved
       ELSE wires' = doc.rows /\ active' = target
    /\ torn' = (torn /\ deferred \cap Containers # {})
    /\ lost' = lost \cap deferred
    /\ UNCHANGED <<dirs, current, surface, host, records, runs, writes, touched, edits, raced, strays, wrote>>

Newest == {v \in dirs : Cardinality({w \in dirs : w > v}) < 2}

ScanConfigs ==
    /\ pc = "scan"
    /\ pc' = "servers"
    /\ keep' = Newest \cup ({current, prev, active} \cap Versions) \cup protect
                \cup ({wires[s] : s \in Surfaces} \cap Versions)
                \cup UNION {Named(surface[s]) : s \in Surfaces}
    /\ UNCHANGED <<disk, plan, work, undo, runs, writes, touched, history>>

\* Mutant: leases are not looked at.
ScanNoServers ==
    /\ pc = "servers"
    /\ pc' = "prune"
    /\ UNCHANGED <<disk, records, runs, writes, touched, history>>

\* Leases and open files of live servers.
ScanServers ==
    /\ pc = "servers"
    /\ pc' = "prune"
    /\ keep' = keep \cup ({host[s].code : s \in Surfaces} \cap Versions)
    /\ UNCHANGED <<disk, plan, work, undo, runs, writes, touched, history>>

Prune ==
    /\ pc = "prune"
    /\ pc' = "idle" /\ Forget
    /\ dirs' = dirs \cap keep
    /\ UNCHANGED <<current, saved, surface, host, runs, writes, edits, raced, strays, lost, torn>>

\* The process dies: the disk stays as it is.
Crash ==
    /\ pc # "idle"
    /\ pc' = "idle" /\ Forget
    /\ torn' = (torn \/ pc \in {"aside", "missing", "restore"})
    /\ UNCHANGED <<disk, runs, writes, edits, raced, strays, lost>>

-----------------------------------------------------------------------------

Cutover ==
    \/ Flip \/ Check \/ Replace \/ Readback \/ Conflict \/ SwapIn \/ SwapFails \/ Fails \/ Verify
    \/ \E s \in Surfaces : Skip(s) \/ Defer(s) \/ Stage(s) \/ SwapLinks(s) \/ SwapAside(s)
    \/ \E s \in Surfaces : RollBackContainer(s) \/ TakeOut(s) \/ Restore(s)
    \/ PutBack \/ Classify \/ Repoint \/ RolledBack
    \/ Save \/ ScanConfigs \/ ScanServers \/ Prune

Next ==
    \/ Cutover \/ Crash
    \/ \E v \in Versions : Begin(v) \/ Install(v) \/ \E s \in Surfaces : UseVersion(s, v)
    \/ \E s \in Surfaces : HostStarts(s) \/ HostEdits(s) \/ HostExits(s)

Spec == Init /\ [][Next]_vars

-----------------------------------------------------------------------------

\* Every variable has its type.
TypeOK ==
    /\ dirs \subseteq Versions /\ current \in Targets
    /\ wires \in [Surfaces -> Targets] /\ active \in Targets
    /\ surface \in [Surfaces -> Entries] /\ host \in [Surfaces -> Running]
    /\ pc \in Steps /\ runs \in 0 .. MaxRuns /\ writes \in 0 .. MaxWrites
    /\ target \in Targets /\ prev \in Targets /\ running \subseteq Surfaces
    /\ doc \in [rows : [Surfaces -> Targets], active : Targets]
    /\ todo \in Seq(Surfaces) /\ at \in Surfaces \cup {None} /\ pre \in [Surfaces -> Entries]
    /\ done \subseteq Surfaces /\ deferred \subseteq Surfaces /\ reported \subseteq Surfaces
    /\ protect \subseteq Versions /\ keep \subseteq Versions
    /\ needs \subseteq BOOLEAN /\ unmet \subseteq BOOLEAN /\ matches \in BOOLEAN
    /\ restorable \subseteq Surfaces /\ touched \subseteq Surfaces
    /\ edits \in [Surfaces -> 0 .. MaxWrites]
    /\ raced \subseteq Surfaces /\ strays \subseteq Surfaces /\ wrote \subseteq Surfaces
    /\ lost \subseteq Surfaces
    /\ torn \in BOOLEAN

\* A cutover never undoes an edit a host made to its own config, unless the
\* edit fell between the comparison of (st_ino, st_mtime_ns, sha256) and the
\* write this comparison allowed, when it converges or when it rolls back.
EditsSurvive == \A s \in Surfaces : surface[s].rev = edits[s] \/ s \in raced

\* Between commands, whatever succeeded, failed or died, every surface whose host
\* stayed out of the cutovers launches a payload that is on disk and has the files
\* the surface names (containers excepted whose subtrees have no record).
LaunchesWork == pc = "idle" /\ ~torn => \A s \in Surfaces : Works(s) \/ s \in strays \cup lost

\* The payload a live server runs from is not collected, unless its host started
\* or wrote its config during a cutover.
ServersKeepTheirCode ==
    \A s \in Surfaces :
        \/ Off(s) \/ host[s].code \in dirs \/ s \in strays
        \/ host[s].as = "copy"

\* When a rollback has ended, every surface the cutover rewrote launches what it
\* launched before, or is reported, or was written by its host meanwhile;
\* containers excepted whose subtrees have no record.
RollbackRestores ==
    [][RolledBack => \A s \in wrote :
          \/ s \in reported \cup touched \cup lost
          \/ Launch(surface[s], current) = Launch(pre[s], prev)]_vars
=============================================================================
