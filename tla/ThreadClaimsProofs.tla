-------------------------- MODULE ThreadClaimsProofs --------------------------
(* Theorems about ThreadClaims, for any number of workers, keys, tokens,      *)
(* generations and revisions, however many handlers fail or die, and for     *)
(* whatever deletions do not happen.  Each names the one fault it excludes.   *)
EXTENDS ThreadClaims, TLAPS

\* An envelope is known by its token, and by its name.
OneEnvelope ==
    /\ \A s \in secrets : s.tok <= minted
    /\ \A s, t \in secrets : s.tok = t.tok \/ (s.gen = t.gen /\ s.key = t.key) => s = t

\* A claim is of the slice's owner, and its envelope, if there, has its name.
ClaimInv ==
    /\ slice \in past
    /\ Claimed(slice) =>
        /\ slice.owner # None
        /\ slice.claim.tok <= minted
        /\ \A s \in secrets : s.tok = slice.claim.tok => s.gen = slice.gen /\ s.key = slice.claim.key

\* What is left of a revoked claim is of an earlier generation.
RevokedInv ==
    "Drop" \notin Faults =>
        /\ \A t \in revoked : t <= minted
        /\ \A s \in secrets : s.tok \in revoked => s.gen < slice.gen

\* The envelope of the claim is there.
UsableInv ==
    "Blind" \notin Faults =>
        (Claimed(slice) => \E s \in secrets :
            s.gen = slice.gen /\ s.key = slice.claim.key /\ s.tok = slice.claim.tok
            /\ s.worker = slice.owner)

\* A receipt of a scar stands for a scar that has landed.
ScarInv ==
    "LostScar" \notin Faults =>
        \A r \in receipts : r.kind = "scar" => <<r.worker, r.gen, r.key>> \in scars

LandedInv == \A r \in receipts : r.status = "committed" => r.slice \in past

LastInv ==
    last # None => \E r \in receipts :
        /\ r.worker = last.worker /\ r.gen = slice.gen /\ r.key = last.key
        /\ r.tok = last.tok /\ r.slice = slice /\ r.rev <= rev

JournalInv == "KeyReuse" \notin Faults => JournalKeepsUp

IInv ==
    /\ TypeOK
    /\ OneEnvelope
    /\ ClaimInv
    /\ RevokedInv
    /\ UsableInv
    /\ ScarInv
    /\ LandedInv
    /\ LastInv
    /\ JournalInv

-----------------------------------------------------------------------------
(* The operators.                                                            *)

LEMMA SliceParts ==
    ASSUME NEW sl \in Slices
    PROVE  /\ sl.status \in Statuses /\ sl.owner \in Workers \cup {None} /\ sl.gen \in Nat
           /\ sl.claim \in Claims /\ sl.mark \in UpdateKeys \cup {None}
  BY DEF Slices

LEMMA FreshSlice == Fresh \in Slices /\ Absent \in Slices /\ ~Claimed(Fresh) /\ ~Claimed(Absent)
<1>1. Fresh \in Slices /\ Fresh.claim = NoClaim /\ Fresh.gen = 0
  BY DEF Fresh, Slices, Statuses, Open, Claims
<1>2. Absent \in Slices /\ Absent.claim = NoClaim /\ Absent.gen = 0
  BY <1>1 DEF Absent, Fresh, Slices, Statuses, Open, Claims
<1> QED
  BY <1>1, <1>2 DEF Claimed

LEMMA InvalidatedSlice ==
    ASSUME NEW sl \in Slices
    PROVE  /\ Invalidated(sl) \in Slices /\ ~Claimed(Invalidated(sl))
           /\ Invalidated(sl).gen = sl.gen + 1
<1>1. sl.gen + 1 \in Nat /\ NoClaim \in Claims
  BY SliceParts DEF Claims
<1> QED
  BY <1>1, Zenon DEF Invalidated, Slices, Claimed

LEMMA FloorRises ==
    ASSUME NEW p \in Slices, slice \in Slices, rev \in Nat
    PROVE  Floor(p) \in Nat /\ Floor(p) > slice.gen
<1> DEFINE S == {rev + 1, slice.gen + 1, p.gen + 1}
<1>1. rev \in Nat /\ slice.gen \in Nat /\ p.gen \in Nat
  BY SliceParts
<1>2. \E g \in S : \A h \in S : h <= g
  BY <1>1
<1>3. Floor(p) \in S /\ \A h \in S : h <= Floor(p)
  BY <1>2, Zenon DEF Floor
<1> QED
  BY <1>1, <1>3

\* Deletions are of what they name, and may leave some of it.
LEMMA DeleteOnlyNamed ==
    ASSUME NEW staged, NEW names, Delete(staged, names)
    PROVE  /\ secrets' \subseteq staged
           /\ \A s \in staged : <<s.gen, s.key>> \notin names => s \in secrets'
  BY Zenon DEF Delete

LEMMA PruneOnlyNamed ==
    ASSUME NEW gens, Prune(gens)
    PROVE  /\ receipts' \subseteq receipts
           /\ \A r \in receipts : r.gen \notin gens => r \in receipts'
  BY Zenon DEF Prune

LEMMA WriteParts ==
    ASSUME TypeOK, ClaimInv, NEW new \in Slices, NEW o \in Outcomes, Write(new, o)
    PROVE  /\ rev' \in Nat /\ rev' = IF o \in Wrote THEN rev + 1 ELSE rev
           /\ slice' \in Slices /\ slice' = IF o \in Wrote THEN new ELSE slice
           /\ past' \subseteq Slices /\ past \subseteq past' /\ slice' \in past'
<1>1. /\ rev \in Nat /\ slice \in Slices /\ past \subseteq Slices /\ slice \in past
  BY Zenon DEF TypeOK, ClaimInv
<1> QED
  BY <1>1 DEF Write

LEMMA JournalParts ==
    ASSUME TypeOK, JournalInv, NEW new, NEW o \in Outcomes, Write(new, o),
           NEW keys \in SUBSET (Workers \X (ClaimKeys \cup UpdateKeys)), Journal(keys, o),
           keys = {} \/ ~ keys \subseteq jkeys \/ "KeyReuse" \in Faults
    PROVE  /\ jrev' \in Nat /\ acked' \in Nat /\ JournalInv'
           /\ jkeys' \subseteq Workers \X (ClaimKeys \cup UpdateKeys)
<1>1. rev \in Nat /\ jrev \in Nat /\ acked \in Nat
      /\ jkeys \subseteq Workers \X (ClaimKeys \cup UpdateKeys)
  BY Zenon DEF TypeOK
<1>2. rev' = IF o \in Wrote THEN rev + 1 ELSE rev
  BY Zenon DEF Write
<1>3. "ok" \in Wrote
  BY DEF Wrote
<1> QED
  BY <1>1, <1>2, <1>3 DEF Journal, JournalInv, JournalKeepsUp

-----------------------------------------------------------------------------
(* A slice that somebody other than its worker writes.                        *)

LEMMA ReviseStep ==
    ASSUME IInv, NEW new \in Slices, NEW names,
           NEW drops \in SUBSET Wrote, NEW prunes \in SUBSET Wrote,
           ~Claimed(new),
           "Drop" \notin Faults => new.gen >= slice.gen,
           "Drop" \notin Faults /\ Claimed(slice) => new.gen > slice.gen,
           Revise(new, names, drops, prunes)
    PROVE  IInv'
<1>1. PICK o \in Outcomes :
        /\ Write(new, o)
        /\ Journal({}, o)
        /\ IF o \in drops THEN Delete(secrets, names) ELSE UNCHANGED secrets
        /\ IF o \in prunes /\ new.gen > slice.gen THEN Prune({slice.gen}) ELSE UNCHANGED receipts
        /\ revoked' = IF o \in Wrote /\ Claimed(slice) /\ ~Claimed(new)
                      THEN revoked \cup {slice.claim.tok} ELSE revoked
        /\ last' = IF o \in Wrote THEN None ELSE last
        /\ UNCHANGED <<minted, lapsed, told, scars>>
  BY Zenon DEF Revise
<1>2. /\ rev' \in Nat /\ rev' = IF o \in Wrote THEN rev + 1 ELSE rev
      /\ slice' \in Slices /\ slice' = IF o \in Wrote THEN new ELSE slice
      /\ past' \subseteq Slices /\ past \subseteq past' /\ slice' \in past'
  BY <1>1, WriteParts DEF IInv
<1>3. /\ jrev' \in Nat /\ acked' \in Nat /\ JournalInv'
      /\ jkeys' \subseteq Workers \X (ClaimKeys \cup UpdateKeys)
  BY <1>1, JournalParts DEF IInv
<1>4. secrets' \subseteq secrets /\ (o \notin Wrote => secrets' = secrets)
  BY <1>1, DeleteOnlyNamed
<1>5. receipts' \subseteq receipts /\ (o \notin Wrote => receipts' = receipts)
  BY <1>1, PruneOnlyNamed
<1>6. minted' = minted /\ lapsed' = lapsed /\ told' = told /\ scars' = scars
  BY <1>1
<1>7. slice \in Slices /\ rev \in Nat /\ minted \in Nat /\ secrets \subseteq Envelopes
      /\ receipts \subseteq Receipts /\ revoked \subseteq Nat
      /\ last \in [worker : Workers, key : UpdateKeys, tok : Nat] \cup {None}
  BY Zenon DEF IInv, TypeOK
<1>8. /\ Claimed(slice) => slice.claim.tok \in Nat
      /\ slice.gen \in Nat /\ new.gen \in Nat
      /\ \A s \in secrets : s.gen \in Nat /\ s.tok \in Nat
  BY <1>7, SliceParts DEF Claims, Claimed, Envelopes
<1>9. TypeOK'
  <2>1. revoked' \subseteq Nat
    BY <1>1, <1>7, <1>8
  <2>2. last' \in [worker : Workers, key : UpdateKeys, tok : Nat] \cup {None}
    BY <1>1, <1>7
  <2> QED
    BY <1>2, <1>3, <1>4, <1>5, <1>6, <1>7, <2>1, <2>2, Zenon DEF IInv, TypeOK
<1>10. OneEnvelope'
  BY <1>4, <1>6 DEF IInv, OneEnvelope
<1>11. ClaimInv'
  <2>1. CASE o \in Wrote
    BY <2>1, <1>2 DEF ClaimInv, Claimed
  <2>2. CASE o \notin Wrote
    BY <2>2, <1>2, <1>4, <1>6 DEF IInv, ClaimInv, Claimed
  <2> QED
    BY <2>1, <2>2
<1>12. RevokedInv'
  <2> SUFFICES ASSUME "Drop" \notin Faults
               PROVE  /\ \A t \in revoked' : t <= minted'
                      /\ \A s \in secrets' : s.tok \in revoked' => s.gen < slice'.gen
    BY DEF RevokedInv
  <2>1. /\ \A t \in revoked : t <= minted
        /\ \A s \in secrets : s.tok \in revoked => s.gen < slice.gen
        /\ Claimed(slice) => slice.claim.tok <= minted
               /\ \A s \in secrets : s.tok = slice.claim.tok => s.gen = slice.gen
    BY DEF IInv, RevokedInv, ClaimInv
  <2>2. CASE o \in Wrote
    BY <2>1, <2>2, <1>1, <1>2, <1>4, <1>6, <1>7, <1>8
  <2>3. CASE o \notin Wrote
    BY <2>1, <2>3, <1>1, <1>2, <1>4, <1>6
  <2> QED
    BY <2>2, <2>3
<1>13. UsableInv'
  <2>1. CASE o \in Wrote
    BY <2>1, <1>2 DEF UsableInv, Claimed
  <2>2. CASE o \notin Wrote
    BY <2>2, <1>2, <1>4 DEF IInv, UsableInv, Claimed
  <2> QED
    BY <2>1, <2>2
<1>14. ScarInv'
  BY <1>5, <1>6 DEF IInv, ScarInv
<1>15. LandedInv'
  BY <1>2, <1>5 DEF IInv, LandedInv
<1>16. LastInv'
  BY <1>1, <1>2, <1>5 DEF IInv, LastInv
<1> QED
  BY <1>3, <1>9, <1>10, <1>11, <1>12, <1>13, <1>14, <1>15, <1>16 DEF IInv

LEMMA AssignStep == ASSUME IInv, NEW w \in Workers, Assign(w) PROVE IInv'
<1> DEFINE new == [slice EXCEPT !.owner = w, !.claim = NoClaim,
                                !.gen = IF slice.owner = None THEN @ ELSE @ + 1]
<1>1. slice \in Slices /\ (Claimed(slice) => slice.owner # None)
  BY Zenon DEF IInv, TypeOK, ClaimInv
<1>2. (IF slice.owner = None THEN slice.gen ELSE slice.gen + 1) \in Nat /\ NoClaim \in Claims
  BY <1>1, SliceParts DEF Claims
<1>3. /\ new \in Slices /\ new.claim = NoClaim
      /\ new.gen = IF slice.owner = None THEN slice.gen ELSE slice.gen + 1
  BY <1>1, <1>2, Zenon DEF Slices
<1>4. Revise(new, Name(slice), Wrote \ {"cut"}, Wrote \ {"cut"})
  BY Zenon DEF Assign
<1>5. slice.gen \in Nat
  BY <1>1, SliceParts
<1> HIDE DEF new
<1> QED
  BY <1>1, <1>3, <1>4, <1>5, ReviseStep DEF Claimed

LEMMA TypedWrote == Typed \subseteq Wrote /\ Carried \subseteq Wrote
  BY DEF Typed, Carried, Wrote

LEMMA OrchestrateStep ==
    ASSUME IInv, NEW to \in Statuses \ {"absent"}, Orchestrate(to)
    PROVE  IInv'
<1> DEFINE moved == [slice EXCEPT !.status = to, !.mark = IF to = "done" THEN None ELSE @]
           new == IF Claimed(slice) THEN Invalidated(moved) ELSE moved
<1>1. slice \in Slices /\ slice.gen \in Nat
  BY SliceParts DEF IInv, TypeOK
<1>2. (IF to = "done" THEN None ELSE slice.mark) \in UpdateKeys \cup {None} /\ to \in Statuses
  BY <1>1, SliceParts
<1>3. moved \in Slices /\ moved.gen = slice.gen /\ moved.claim = slice.claim
  BY <1>1, <1>2, Zenon DEF Slices
<1>4. Revise(new, Name(slice), Typed, Typed)
  BY Zenon DEF Orchestrate
<1> HIDE DEF moved
<1>5. /\ new \in Slices /\ ~Claimed(new) /\ new.gen >= slice.gen
      /\ Claimed(slice) => new.gen > slice.gen
  BY <1>1, <1>3, InvalidatedSlice DEF Claimed
<1> HIDE DEF new
<1> QED
  BY <1>4, <1>5, TypedWrote, ReviseStep

LEMMA SupersedeStep == ASSUME IInv, Supersede PROVE IInv'
<1> DEFINE sl == [slice EXCEPT !.status = "superseded"]
<1>1. slice \in Slices /\ slice.gen \in Nat
  BY SliceParts DEF IInv, TypeOK
<1>2. "superseded" \in Statuses
  BY DEF Statuses
<1>3. sl \in Slices /\ sl.gen = slice.gen
  BY <1>1, <1>2, Zenon DEF Slices
<1>4. Revise(Invalidated(sl), Name(slice), Typed, Carried)
  BY Zenon DEF Supersede
<1> HIDE DEF sl
<1> QED
  BY <1>1, <1>3, <1>4, InvalidatedSlice, TypedWrote, ReviseStep

LEMMA RedefineStep == ASSUME IInv, Redefine PROVE IInv'
<1>1. slice \in Slices /\ slice.gen \in Nat
  BY SliceParts DEF IInv, TypeOK
<1> QED
  BY <1>1, InvalidatedSlice, TypedWrote, ReviseStep DEF Redefine

LEMMA AddStep == ASSUME IInv, Add PROVE IInv'
<1>1. slice \in Slices /\ slice.gen \in Nat /\ slice \in past
  BY SliceParts DEF IInv, TypeOK, ClaimInv
<1>2. Revise(Fresh, {}, Typed, Carried) /\ (past = {Absent} \/ "Drop" \in Faults)
  BY Zenon DEF Add
<1>3. Fresh.gen = 0 /\ Absent.gen = 0
  BY DEF Fresh, Absent
<1>4. "Drop" \notin Faults => ~Claimed(slice) /\ slice.gen = 0
  BY <1>1, <1>2, <1>3, FreshSlice
<1> QED
  BY <1>1, <1>2, <1>3, <1>4, FreshSlice, TypedWrote, ReviseStep

LEMMA RestoreStep == ASSUME IInv, NEW p \in past \cup {Absent}, Restore(p) PROVE IInv'
<1> DEFINE new == [p EXCEPT !.gen = Floor(p), !.claim = NoClaim]
           prunes == IF "absent" \in {slice.status, p.status} THEN {} ELSE Carried
<1>1. slice \in Slices /\ slice.gen \in Nat /\ rev \in Nat /\ p \in Slices
  BY SliceParts, FreshSlice DEF IInv, TypeOK
<1>2. Floor(p) \in Nat /\ Floor(p) > slice.gen /\ NoClaim \in Claims
  BY <1>1, FloorRises DEF Claims
<1>3. new \in Slices /\ new.gen = Floor(p) /\ new.claim = NoClaim
  BY <1>1, <1>2, Zenon DEF Slices
<1>4. Revise(new, Name(slice) \cup Name(p), Typed, prunes)
  BY Zenon DEF Restore
<1>5. prunes \subseteq Wrote
  BY TypedWrote
<1> HIDE DEF new, prunes
<1> QED
  BY <1>1, <1>2, <1>3, <1>4, <1>5, TypedWrote, ReviseStep DEF Claimed

LEMMA ExpireStep == ASSUME IInv, Expire PROVE IInv'
<1>1. slice \in Slices /\ slice.gen \in Nat
  BY SliceParts DEF IInv, TypeOK
<1> QED
  BY <1>1, InvalidatedSlice, TypedWrote, ReviseStep DEF Expire

-----------------------------------------------------------------------------
(* The other handlers.                                                       *)

LEMMA ElsewhereStep == ASSUME IInv, Elsewhere PROVE IInv'
<1>1. PICK o \in Outcomes :
        /\ Write(slice, o)
        /\ Journal({}, o)
        /\ UNCHANGED <<secrets, receipts, minted, lapsed, told, revoked, last, scars>>
  BY Zenon DEF Elsewhere
<1>2. slice \in Slices
  BY Zenon DEF IInv, TypeOK
<1>3. /\ rev' \in Nat /\ rev' = IF o \in Wrote THEN rev + 1 ELSE rev
      /\ slice' = slice /\ past' \subseteq Slices /\ past \subseteq past'
  BY <1>1, <1>2, WriteParts DEF IInv
<1>4. /\ jrev' \in Nat /\ acked' \in Nat /\ JournalInv'
      /\ jkeys' \subseteq Workers \X (ClaimKeys \cup UpdateKeys)
  BY <1>1, JournalParts DEF IInv
<1>5. TypeOK'
  BY <1>1, <1>3, <1>4, Zenon DEF IInv, TypeOK
<1>6. OneEnvelope' /\ ClaimInv' /\ RevokedInv' /\ UsableInv' /\ ScarInv' /\ LandedInv'
  BY <1>1, <1>3 DEF IInv, OneEnvelope, ClaimInv, RevokedInv, UsableInv, ScarInv, LandedInv, Claimed
<1>7. LastInv'
  <2>1. rev <= rev' /\ \A r \in receipts : r.rev \in Nat
    BY <1>3 DEF IInv, TypeOK, Receipts
  <2> QED
    BY <1>1, <1>3, <2>1 DEF IInv, TypeOK, LastInv
<1> QED
  BY <1>4, <1>5, <1>6, <1>7 DEF IInv

LEMMA LapseStep == ASSUME IInv, NEW t \in 1 .. minted, Lapse(t) PROVE IInv'
<1>1. /\ lapsed' = lapsed \cup {t}
      /\ UNCHANGED <<rev, slice, past, secrets, receipts, jrev, jkeys, minted, told,
                     revoked, last, scars, acked>>
  BY Zenon DEF Lapse
<1>2. lapsed' \subseteq Nat
  BY <1>1 DEF IInv, TypeOK
<1>3. TypeOK'
  BY <1>1, <1>2, Zenon DEF IInv, TypeOK
<1> QED
  BY <1>1, <1>3 DEF IInv, OneEnvelope, ClaimInv, RevokedInv, UsableInv, ScarInv, LandedInv,
                    LastInv, JournalInv, JournalKeepsUp, Claimed

LEMMA ReplayStep ==
    ASSUME IInv, NEW w \in Workers, NEW k \in ClaimKeys, Replay(w, k)
    PROVE  IInv'
<1>1. PICK s \in At(Name(slice)) : told' = told \cup {<<w, s.tok>>}
  BY Zenon DEF Replay
<1>2. /\ jrev' = rev /\ jkeys' = jkeys \cup {<<w, k>>}
      /\ UNCHANGED <<rev, slice, past, secrets, receipts, minted, lapsed, revoked, last,
                     scars, acked>>
  BY Zenon DEF Replay
<1>3. told' \subseteq Workers \X Nat
  BY <1>1 DEF IInv, TypeOK, At, Envelopes
<1>4. jkeys' \subseteq Workers \X (ClaimKeys \cup UpdateKeys) /\ jrev' \in Nat
  BY <1>2 DEF IInv, TypeOK
<1>5. TypeOK'
  BY <1>2, <1>3, <1>4, Zenon DEF IInv, TypeOK
<1>6. JournalInv'
  BY <1>2 DEF IInv, TypeOK, JournalInv, JournalKeepsUp
<1> QED
  BY <1>2, <1>5, <1>6 DEF IInv, OneEnvelope, ClaimInv, RevokedInv, UsableInv, ScarInv,
                          LandedInv, LastInv, Claimed

\* The envelope a claim gets: the one of that name, or a new one.
LEMMA EnvelopeParts ==
    ASSUME TypeOK, OneEnvelope, NEW w \in Workers, NEW k \in ClaimKeys, NEW g \in Nat
    PROVE  LET e == Envelope(w, k, g)
           IN  /\ e \in Envelopes /\ e.gen = g /\ e.key = k
               /\ e \in secrets \/ (e.tok = minted + 1 /\ e.worker = w)
               /\ e \notin secrets => \A s \in secrets : ~(s.gen = g /\ s.key = k)
<1> DEFINE e == Envelope(w, k, g)
<1>1. minted \in Nat /\ rev \in Nat /\ secrets \subseteq Envelopes
  BY Zenon DEF TypeOK
<1>2. CASE \E s \in secrets : s.gen = g /\ s.key = k
  <2>1. e = CHOOSE s \in secrets : s.gen = g /\ s.key = k
    BY <1>2, Zenon DEF Envelope
  <2>2. e \in secrets /\ e.gen = g /\ e.key = k
    BY <1>2, <2>1, Zenon
  <2> QED
    BY <1>1, <2>2
<1>3. CASE ~ \E s \in secrets : s.gen = g /\ s.key = k
  <2>1. e = [gen |-> g, key |-> k, worker |-> w, tok |-> minted + 1, rev |-> rev + 1]
    BY <1>3, Zenon DEF Envelope
  <2>2. /\ e \in Envelopes /\ e.gen = g /\ e.key = k
        /\ e.tok = minted + 1 /\ e.worker = w
    <3> HIDE DEF e
    <3> QED
      BY <1>1, <2>1 DEF Envelopes
  <2> QED
    BY <1>3, <2>2, Zenon
<1> QED
  BY <1>2, <1>3

LEMMA ClaimStep ==
    ASSUME IInv, NEW w \in Workers, NEW k \in ClaimKeys, Claim(w, k)
    PROVE  IInv'
<1>1. /\ slice.owner = w /\ ~Claimed(slice)
      /\ <<w, k>> \notin jkeys \/ "KeyReuse" \in Faults
      /\ UNCHANGED <<lapsed, revoked, scars>>
  BY Zenon DEF Claim
<1>2. PICK g \in {slice.gen} \cup {s.gen + 1 : s \in secrets}, o \in Outcomes :
        LET e     == Envelope(w, k, g)
            stale == {<<h, k>> : h \in slice.gen .. g - 1}
            own   == {<<g, k>>}
        IN  /\ g >= slice.gen
            /\ \A s \in secrets : <<s.gen, s.key>> \in stale \cup own => s.worker = w
            /\ o = "late" /\ ~Recognised(e, o) => "Blind" \in Faults
            /\ Write([slice EXCEPT !.gen = g, !.claim = [key |-> k, tok |-> e.tok]], o)
            /\ Journal({<<w, k>>}, o)
            /\ \/ o \in {"never", "cut"} /\ secrets' = secrets \cup {e}
               \/ o \notin {"never", "cut"} /\ Recognised(e, o)
                  /\ Delete(secrets \cup {e}, stale)
               \/ o \notin {"never", "cut"} /\ ~Recognised(e, o)
                  /\ Delete(secrets \cup {e}, stale \cup own)
            /\ IF Recognised(e, o) THEN Prune(slice.gen .. g - 1) ELSE UNCHANGED receipts
            /\ minted' = IF e \in secrets THEN minted ELSE minted + 1
            /\ told' = IF o = "ok" THEN told \cup {<<w, e.tok>>} ELSE told
            /\ last' = IF o \in Wrote THEN None ELSE last
  BY Zenon DEF Claim
<1>3. /\ slice \in Slices /\ slice.gen \in Nat /\ rev \in Nat /\ minted \in Nat
      /\ secrets \subseteq Envelopes /\ receipts \subseteq Receipts /\ told \subseteq Workers \X Nat
      /\ last \in [worker : Workers, key : UpdateKeys, tok : Nat] \cup {None}
  BY SliceParts DEF IInv, TypeOK
<1>4. g \in Nat
  BY <1>3 DEF Envelopes
<1> DEFINE e     == Envelope(w, k, g)
           stale == {<<h, k>> : h \in slice.gen .. g - 1}
           own   == {<<g, k>>}
           new   == [slice EXCEPT !.gen = g, !.claim = [key |-> k, tok |-> e.tok]]
<1>5. /\ e \in Envelopes /\ e.gen = g /\ e.key = k
      /\ e \in secrets \/ (e.tok = minted + 1 /\ e.worker = w)
      /\ e \notin secrets => \A s \in secrets : ~(s.gen = g /\ s.key = k)
  BY <1>4, EnvelopeParts DEF IInv
<1>6. /\ g >= slice.gen
      /\ \A s \in secrets : <<s.gen, s.key>> \in stale \cup own => s.worker = w
      /\ o = "late" /\ ~Recognised(e, o) => "Blind" \in Faults
      /\ Write(new, o)
      /\ Journal({<<w, k>>}, o)
      /\ \/ o \in {"never", "cut"} /\ secrets' = secrets \cup {e}
         \/ o \notin {"never", "cut"} /\ Recognised(e, o) /\ Delete(secrets \cup {e}, stale)
         \/ o \notin {"never", "cut"} /\ ~Recognised(e, o) /\ Delete(secrets \cup {e}, stale \cup own)
      /\ IF Recognised(e, o) THEN Prune(slice.gen .. g - 1) ELSE UNCHANGED receipts
      /\ minted' = IF e \in secrets THEN minted ELSE minted + 1
      /\ told' = IF o = "ok" THEN told \cup {<<w, e.tok>>} ELSE told
      /\ last' = IF o \in Wrote THEN None ELSE last
  BY <1>2, Zenon
<1> HIDE DEF e
<1>7. e.tok \in Nat /\ e.worker \in Workers
  BY <1>5 DEF Envelopes
<1>8. [key |-> k, tok |-> e.tok] \in Claims
  BY <1>7 DEF Claims
<1>9. /\ new \in Slices /\ new.gen = g /\ new.claim = [key |-> k, tok |-> e.tok]
      /\ new.owner = slice.owner
  BY <1>3, <1>4, <1>8, Zenon DEF Slices
<1> HIDE DEF new
<1>10. /\ rev' \in Nat /\ slice' \in Slices /\ slice' = IF o \in Wrote THEN new ELSE slice
       /\ past' \subseteq Slices /\ past \subseteq past' /\ slice' \in past'
       /\ rev' = IF o \in Wrote THEN rev + 1 ELSE rev
  BY <1>6, <1>9, WriteParts DEF IInv
<1>11. /\ jrev' \in Nat /\ acked' \in Nat /\ JournalInv'
       /\ jkeys' \subseteq Workers \X (ClaimKeys \cup UpdateKeys)
  BY <1>1, <1>6, JournalParts DEF IInv
<1>12. secrets' \subseteq secrets \cup {e}
  BY <1>6, DeleteOnlyNamed
<1>13. /\ receipts' \subseteq receipts
       /\ o \notin Wrote => receipts' = receipts
  BY <1>6, PruneOnlyNamed, TypedWrote DEF Recognised, Wrote
<1>14. minted' \in Nat /\ minted <= minted' /\ e.tok <= minted'
  BY <1>3, <1>5, <1>6 DEF IInv, OneEnvelope
<1>15. TypeOK'
  <2>1. secrets' \subseteq Envelopes /\ receipts' \subseteq Receipts
    BY <1>3, <1>5, <1>12, <1>13
  <2>2. told' \subseteq Workers \X Nat
    BY <1>3, <1>6, <1>7
  <2>3. last' \in [worker : Workers, key : UpdateKeys, tok : Nat] \cup {None}
    BY <1>3, <1>6
  <2> QED
    BY <1>1, <1>10, <1>11, <1>14, <2>1, <2>2, <2>3, Zenon DEF IInv, TypeOK
<1>16. OneEnvelope'
  <2>1. /\ \A s \in secrets : s.tok \in Nat /\ s.tok <= minted
        /\ \A s, t \in secrets : s.tok = t.tok \/ (s.gen = t.gen /\ s.key = t.key) => s = t
    BY <1>3 DEF IInv, OneEnvelope, Envelopes
  <2>2. \A s \in secrets' : s.tok <= minted'
    BY <1>3, <1>12, <1>14, <2>1
  <2>3. \A s, t \in secrets \cup {e} : s.tok = t.tok \/ (s.gen = t.gen /\ s.key = t.key) => s = t
    <3>1. CASE e \in secrets
      BY <3>1, <2>1
    <3>2. CASE e \notin secrets
      BY <3>2, <1>3, <1>5, <2>1
    <3> QED
      BY <3>1, <3>2
  <2> QED
    BY <1>12, <2>2, <2>3 DEF OneEnvelope
<1>17. ClaimInv'
  <2>1. CASE o \in Wrote
    <3>1. slice'.claim.tok = e.tok /\ slice'.claim.key = k /\ slice'.gen = g /\ slice'.owner = w
      BY <2>1, <1>1, <1>9, <1>10
    <3>2. \A s \in secrets' : s.tok = e.tok => s.gen = g /\ s.key = k
      <4>1. \A s \in secrets : s.tok \in Nat /\ s.tok <= minted
        BY <1>3 DEF IInv, OneEnvelope, Envelopes
      <4>2. \A s \in secrets : s.tok = e.tok => s = e
        BY <1>3, <1>5, <4>1 DEF IInv, OneEnvelope
      <4> QED
        BY <1>5, <1>12, <4>2
    <3>3. w # None
      BY ThreadClaimsAssumption
    <3> QED
      BY <1>10, <1>14, <3>1, <3>2, <3>3 DEF ClaimInv
  <2>2. CASE o \notin Wrote
    BY <2>2, <1>1, <1>10 DEF ClaimInv, Claimed
  <2> QED
    BY <2>1, <2>2
<1>18. RevokedInv'
  <2> SUFFICES ASSUME "Drop" \notin Faults
               PROVE  /\ \A t \in revoked' : t <= minted'
                      /\ \A s \in secrets' : s.tok \in revoked' => s.gen < slice'.gen
    BY DEF RevokedInv
  <2>1. /\ \A t \in revoked : t \in Nat /\ t <= minted
        /\ \A s \in secrets : s.gen \in Nat /\ (s.tok \in revoked => s.gen < slice.gen)
    BY <1>3 DEF IInv, TypeOK, RevokedInv, Envelopes
  <2>2. \A t \in revoked' : t <= minted'
    BY <1>1, <1>3, <1>14, <2>1
  <2>3. e.tok \notin revoked
    BY <1>3, <1>4, <1>5, <1>6, <2>1
  <2>4. slice'.gen \in Nat /\ slice'.gen >= slice.gen
    BY <1>3, <1>4, <1>6, <1>9, <1>10
  <2> QED
    BY <1>1, <1>3, <1>12, <2>1, <2>2, <2>3, <2>4
<1>19. UsableInv'
  <2> SUFFICES ASSUME "Blind" \notin Faults, Claimed(slice')
               PROVE  \E s \in secrets' : s.gen = slice'.gen /\ s.key = slice'.claim.key
                          /\ s.tok = slice'.claim.tok /\ s.worker = slice'.owner
    BY DEF UsableInv, Claimed
  <2>1. o \in Wrote
    BY <1>1, <1>10 DEF Claimed
  <2>2. slice'.claim.tok = e.tok /\ slice'.claim.key = k /\ slice'.gen = g /\ slice'.owner = w
    BY <2>1, <1>1, <1>9, <1>10
  <2>3. e.worker = w
    BY <1>5, <1>6
  <2>4. e \in secrets'
    <3>1. <<e.gen, e.key>> \notin stale
      BY <1>3, <1>4, <1>5
    <3>2. CASE Recognised(e, o)
      <4>1. secrets' = secrets \cup {e} \/ Delete(secrets \cup {e}, stale)
        BY <3>2, <1>6, Zenon
      <4> HIDE DEF stale
      <4> QED
        BY <3>1, <4>1, DeleteOnlyNamed
    <3>3. CASE ~Recognised(e, o)
      <4>1. o = "cut"
        BY <3>3, <2>1, <1>6 DEF Recognised, Wrote, Typed
      <4> QED
        BY <4>1, <1>6
    <3> QED
      BY <3>2, <3>3
  <2> QED
    BY <1>5, <2>2, <2>3, <2>4
<1>20. ScarInv' /\ LandedInv'
  BY <1>1, <1>10, <1>13 DEF IInv, ScarInv, LandedInv
<1>21. LastInv'
  BY <1>6, <1>10, <1>13 DEF IInv, LastInv
<1> QED
  BY <1>11, <1>15, <1>16, <1>17, <1>18, <1>19, <1>20, <1>21 DEF IInv

-----------------------------------------------------------------------------
(* The worker's updates.                                                     *)

LEMMA RetryStep ==
    ASSUME IInv, NEW w \in Workers, NEW u \in UpdateKeys, NEW kind \in Kinds,
           NEW t \in 1 .. minted, Retry(w, u, kind, t)
    PROVE  IInv'
<1>1. PICK r \in ReceiptOf(w, u) :
        /\ \/ r.status = "committed" /\ Authoritative(r)
           \/ r.status = "pending" /\ (Claimed(slice) => Live) /\ LooksCommitted(r)
        /\ receipts' = (receipts \ {r}) \cup {[r EXCEPT !.status = "committed"]}
  BY Zenon DEF Retry
<1>2. /\ jrev' = rev
      /\ UNCHANGED <<rev, slice, past, secrets, jkeys, minted, lapsed, told, revoked, last,
                     scars, acked>>
  BY Zenon DEF Retry
<1> DEFINE c == [r EXCEPT !.status = "committed"]
<1>3. r \in Receipts /\ r \in receipts
  BY DEF ReceiptOf, IInv, TypeOK
<1>4. /\ c \in Receipts
      /\ c.worker = r.worker /\ c.gen = r.gen /\ c.key = r.key /\ c.kind = r.kind
      /\ c.tok = r.tok /\ c.rev = r.rev /\ c.slice = r.slice /\ c.status = "committed"
  BY <1>3 DEF Receipts
<1>5. receipts' = (receipts \ {r}) \cup {c}
  BY <1>1
<1> HIDE DEF c
<1>6. r.slice \in past
  BY <1>1, <1>3 DEF IInv, LandedInv, ClaimInv, LooksCommitted
<1>7. TypeOK'
  <2>1. receipts' \subseteq Receipts
    BY <1>4, <1>5 DEF IInv, TypeOK
  <2> QED
    BY <1>2, <2>1, Zenon DEF IInv, TypeOK
<1>8. OneEnvelope' /\ ClaimInv' /\ RevokedInv' /\ UsableInv'
  BY <1>2 DEF IInv, OneEnvelope, ClaimInv, RevokedInv, UsableInv, Claimed
<1>9. ScarInv' /\ LandedInv'
  BY <1>2, <1>3, <1>4, <1>5, <1>6 DEF IInv, ScarInv, LandedInv
<1>10. LastInv'
  BY <1>2, <1>4, <1>5 DEF IInv, LastInv
<1>11. JournalInv'
  BY <1>2 DEF IInv, TypeOK, JournalInv, JournalKeepsUp
<1> QED
  BY <1>7, <1>8, <1>9, <1>10, <1>11 DEF IInv

LEMMA AppliedSlice ==
    ASSUME slice \in Slices, NEW u \in UpdateKeys, NEW kind \in Kinds
    PROVE  /\ Applied(u, kind) \in Slices /\ Applied(u, kind).gen = slice.gen
           /\ Applied(u, kind).owner = slice.owner
           /\ IF kind = "complete" THEN Applied(u, kind).claim = NoClaim
                                   ELSE Applied(u, kind).claim = slice.claim
<1>1. /\ "in_progress" \in Statuses /\ "blocked" \in Statuses /\ "done" \in Statuses
      /\ NoClaim \in Claims /\ u \in UpdateKeys \cup {None}
  BY DEF Statuses, Open, Claims
<1>2. CASE kind = "start"
  <2>1. Applied(u, kind) = [slice EXCEPT !.status = "in_progress"]
    BY <1>2 DEF Applied
  <2> QED
    BY <1>1, <1>2, <2>1, Zenon DEF Slices
<1>3. CASE kind = "progress"
  <2>1. Applied(u, kind) = [slice EXCEPT !.status = "in_progress", !.mark = u]
    BY <1>3 DEF Applied
  <2> QED
    BY <1>1, <1>3, <2>1, Zenon DEF Slices
<1>4. CASE kind = "block"
  <2>1. Applied(u, kind) = [slice EXCEPT !.status = "blocked", !.mark = u]
    BY <1>4 DEF Applied
  <2> QED
    BY <1>1, <1>4, <2>1, Zenon DEF Slices
<1>5. CASE kind = "complete"
  <2>1. Applied(u, kind) = [slice EXCEPT !.status = "done", !.mark = u, !.claim = NoClaim]
    BY <1>5 DEF Applied
  <2> QED
    BY <1>1, <1>5, <2>1, Zenon DEF Slices
<1>6. CASE kind = "scar"
  BY <1>6 DEF Applied
<1> QED
  BY <1>2, <1>3, <1>4, <1>5, <1>6, ThreadClaimsAssumption DEF AllKinds

LEMMA PerformStep ==
    ASSUME IInv, NEW w \in Workers, NEW u \in UpdateKeys, NEW kind \in Kinds,
           NEW t \in 1 .. minted, Perform(w, u, kind, t)
    PROVE  IInv'
<1> DEFINE new       == Applied(u, kind)
           pending   == [worker |-> w, gen |-> slice.gen, key |-> u, kind |-> kind, tok |-> t,
                         ckey |-> slice.claim.key, status |-> "pending", rev |-> rev + 1,
                         slice |-> new]
           committed == [pending EXCEPT !.status = "committed"]
           others    == receipts \ ReceiptOf(w, u)
<1>1. /\ Verified(w, t)
      /\ \A r \in ReceiptOf(w, u) :
             r.kind = kind /\ r.tok = t /\ r.status = "pending" /\ ~LooksCommitted(r)
      /\ <<w, u>> \notin jkeys \/ "KeyReuse" \in Faults
      /\ UNCHANGED <<minted, lapsed, told, revoked>>
  BY Zenon DEF Perform
<1>2. PICK o \in Outcomes :
        /\ kind = "scar" /\ o \notin Wrote => "LostScar" \in Faults
        /\ Write(new, o)
        /\ Journal({<<w, u>>}, o)
        /\ \/ o # "ok" /\ receipts' = others \cup {pending}
           \/ o \in Wrote \ {"cut"} /\ receipts' = others \cup {committed}
        /\ IF kind = "complete" /\ o \in Wrote \ {"cut"}
           THEN Delete(secrets, Name(slice)) ELSE UNCHANGED secrets
        /\ last' = IF o \in Wrote THEN [worker |-> w, key |-> u, tok |-> t] ELSE last
        /\ scars' = IF kind = "scar" /\ o \in Wrote
                    THEN scars \cup {<<w, slice.gen, u>>} ELSE scars
  BY Zenon DEF Perform
<1>3. /\ slice \in Slices /\ slice.gen \in Nat /\ slice.claim \in Claims
      /\ rev \in Nat /\ minted \in Nat /\ t \in Nat
      /\ secrets \subseteq Envelopes /\ receipts \subseteq Receipts
      /\ last \in [worker : Workers, key : UpdateKeys, tok : Nat] \cup {None}
      /\ scars \subseteq Workers \X Nat \X UpdateKeys
  BY SliceParts DEF IInv, TypeOK
<1>4. Claimed(slice) /\ slice.claim.key \in ClaimKeys
  BY <1>1, <1>3 DEF Verified, Live, Claimed, Claims
<1>5. /\ new \in Slices /\ new.gen = slice.gen /\ new.owner = slice.owner
      /\ IF kind = "complete" THEN new.claim = NoClaim ELSE new.claim = slice.claim
  BY <1>3, AppliedSlice
<1> HIDE DEF new
<1>6. /\ pending \in Receipts /\ committed \in Receipts
      /\ \A r \in {pending, committed} :
            /\ r.worker = w /\ r.gen = slice.gen /\ r.key = u /\ r.kind = kind
            /\ r.tok = t /\ r.rev = rev + 1 /\ r.slice = new
      /\ pending.status = "pending"
  BY <1>3, <1>4, <1>5 DEF Receipts
<1>7. PICK mine \in {pending, committed} :
        /\ receipts' = others \cup {mine}
        /\ mine.status = "committed" => o \in Wrote
  BY <1>2, <1>6
<1> HIDE DEF pending, committed
<1>8. /\ rev' \in Nat /\ rev' = IF o \in Wrote THEN rev + 1 ELSE rev
      /\ slice' \in Slices /\ slice' = IF o \in Wrote THEN new ELSE slice
      /\ past' \subseteq Slices /\ past \subseteq past' /\ slice' \in past'
  BY <1>2, <1>5, WriteParts DEF IInv
<1>9. /\ jrev' \in Nat /\ acked' \in Nat /\ JournalInv'
      /\ jkeys' \subseteq Workers \X (ClaimKeys \cup UpdateKeys)
  BY <1>1, <1>2, JournalParts DEF IInv
<1>10. /\ secrets' \subseteq secrets
       /\ kind # "complete" \/ o \notin Wrote => secrets' = secrets
  BY <1>2, DeleteOnlyNamed
<1>11. TypeOK'
  <2>1. receipts' \subseteq Receipts
    BY <1>3, <1>6, <1>7
  <2>2. last' \in [worker : Workers, key : UpdateKeys, tok : Nat] \cup {None}
    BY <1>2, <1>3
  <2>3. scars' \subseteq Workers \X Nat \X UpdateKeys
    BY <1>2, <1>3
  <2>4. secrets' \subseteq Envelopes
    BY <1>3, <1>10
  <2> QED
    BY <1>1, <1>8, <1>9, <2>1, <2>2, <2>3, <2>4, Zenon DEF IInv, TypeOK
<1>12. OneEnvelope'
  BY <1>1, <1>10 DEF IInv, OneEnvelope
<1>13. slice'.gen = slice.gen /\ slice'.owner = slice.owner
       /\ (Claimed(slice') => slice'.claim = slice.claim)
       /\ (Claimed(slice') => secrets' = secrets)
  BY <1>5, <1>8, <1>10 DEF Claimed
<1>14. ClaimInv'
  BY <1>1, <1>4, <1>8, <1>10, <1>13 DEF IInv, ClaimInv, Claimed
<1>15. RevokedInv'
  BY <1>1, <1>10, <1>13 DEF IInv, RevokedInv
<1>16. UsableInv'
  BY <1>4, <1>13 DEF IInv, UsableInv, Claimed
<1>17. ScarInv'
  <2> SUFFICES ASSUME "LostScar" \notin Faults, NEW r \in receipts', r.kind = "scar"
               PROVE  <<r.worker, r.gen, r.key>> \in scars'
    BY DEF ScarInv
  <2>1. CASE r = mine
    BY <2>1, <1>2, <1>6
  <2>2. CASE r \in receipts
    BY <2>2, <1>2 DEF IInv, ScarInv
  <2> QED
    BY <1>7, <2>1, <2>2
<1>18. LandedInv'
  <2> SUFFICES ASSUME NEW r \in receipts', r.status = "committed"
               PROVE  r.slice \in past'
    BY DEF LandedInv
  <2>1. CASE r = mine
    BY <2>1, <1>6, <1>7, <1>8
  <2>2. CASE r \in receipts
    BY <2>2, <1>8 DEF IInv, LandedInv
  <2> QED
    BY <1>7, <2>1, <2>2
<1>19. LastInv'
  <2>1. CASE o \in Wrote
    <3>1. /\ last'.worker = w /\ last'.key = u /\ last'.tok = t
      BY <2>1, <1>2
    <3>2. mine \in receipts' /\ mine.slice = slice' /\ mine.rev <= rev'
      BY <2>1, <1>3, <1>6, <1>7, <1>8
    <3> QED
      BY <1>6, <1>13, <3>1, <3>2 DEF LastInv
  <2>2. CASE o \notin Wrote
    <3>1. last' = last /\ slice' = slice /\ rev' = rev
      BY <2>2, <1>2, <1>8
    <3>2. ASSUME NEW r \in receipts, r.slice = slice, r.rev <= rev
          PROVE  r \in receipts'
      BY <3>2, <1>1, <1>3, <1>7 DEF LooksCommitted, Receipts
    <3> QED
      BY <3>1, <3>2 DEF IInv, LastInv
  <2> QED
    BY <2>1, <2>2
<1> QED
  BY <1>9, <1>11, <1>12, <1>14, <1>15, <1>16, <1>17, <1>18, <1>19 DEF IInv

-----------------------------------------------------------------------------
(* The invariant, and what follows from it.                                  *)

LEMMA Initially == Init => IInv
<1> SUFFICES ASSUME Init PROVE IInv
  OBVIOUS
<1>1. slice \in Slices /\ ~Claimed(slice)
  BY FreshSlice DEF Init
<1>2. TypeOK
  BY <1>1 DEF Init, TypeOK
<1> QED
  BY <1>1, <1>2 DEF Init, IInv, OneEnvelope, ClaimInv, RevokedInv, UsableInv, ScarInv, LandedInv,
                    LastInv, JournalInv, JournalKeepsUp

LEMMA Stuttering == IInv /\ UNCHANGED vars => IInv'
<1> SUFFICES ASSUME IInv, UNCHANGED vars PROVE IInv'
  OBVIOUS
<1>1. UNCHANGED <<rev, slice, past, secrets, receipts, jrev, jkeys, minted, lapsed, told,
                  revoked, last, scars, acked>>
  BY DEF vars
<1>2. TypeOK'
  BY <1>1, Zenon DEF IInv, TypeOK
<1> QED
  BY <1>1, <1>2 DEF IInv, OneEnvelope, ClaimInv, RevokedInv, UsableInv, ScarInv, LandedInv,
                    LastInv, JournalInv, JournalKeepsUp, Claimed

LEMMA Invariant == Spec => []IInv
<1>1. IInv /\ Next => IInv'
  <2> SUFFICES ASSUME IInv, Next PROVE IInv'
    OBVIOUS
  <2>1. CASE \E w \in Workers : Assign(w)
    BY <2>1, AssignStep
  <2>2. CASE \E to \in Statuses \ {"absent"} : Orchestrate(to)
    BY <2>2, OrchestrateStep
  <2>3. CASE Supersede \/ Redefine \/ Add
    BY <2>3, SupersedeStep, RedefineStep, AddStep
  <2>4. CASE \E p \in past \cup {Absent} : Restore(p)
    BY <2>4, RestoreStep
  <2>5. CASE Elsewhere
    BY <2>5, ElsewhereStep
  <2>6. CASE \E t \in 1 .. minted : Lapse(t)
    BY <2>6, LapseStep
  <2>7. CASE Expire
    BY <2>7, ExpireStep
  <2>8. CASE \E w \in Workers, k \in ClaimKeys : Claim(w, k) \/ Replay(w, k)
    BY <2>8, ClaimStep, ReplayStep
  <2>9. CASE \E w \in Workers, u \in UpdateKeys, kind \in Kinds, t \in 1 .. minted :
               Retry(w, u, kind, t) \/ Perform(w, u, kind, t)
    BY <2>9, RetryStep, PerformStep
  <2> QED
    BY <2>1, <2>2, <2>3, <2>4, <2>5, <2>6, <2>7, <2>8, <2>9, Zenon DEF Next
<1> QED
  BY <1>1, Initially, Stuttering, PTL DEF Spec

\* Every store keeps its type, whatever fails.
THEOREM ClaimsTypeCorrect == Spec => []TypeOK
<1>1. IInv => TypeOK
  BY DEF IInv
<1> QED
  BY <1>1, Invariant, PTL

\* A revoked token authorises nothing again, though its envelope may never be
\* deleted, as long as no slice is added a second time.
THEOREM RevokedForGood == "Drop" \notin Faults => (Spec => []RevokedStaysRevoked)
<1> SUFFICES ASSUME "Drop" \notin Faults PROVE Spec => []RevokedStaysRevoked
  OBVIOUS
<1>1. IInv => RevokedStaysRevoked
  <2> SUFFICES ASSUME IInv, NEW w \in Workers, NEW t \in revoked, Verified(w, t)
               PROVE  FALSE
    BY DEF RevokedStaysRevoked
  <2>1. Claimed(slice) /\ \E s \in secrets : s.gen = slice.gen /\ s.tok = t
    BY DEF Verified, Live, At, Name
  <2>2. slice.gen \in Nat
    BY SliceParts DEF IInv, TypeOK
  <2> QED
    BY <2>1, <2>2 DEF IInv, RevokedInv
<1> QED
  BY <1>1, Invariant, PTL

\* A live claim can be used by its worker, as long as a failed write that
\* landed is recognised by its reread.
THEOREM ClaimUsable == "Blind" \notin Faults => (Spec => []LiveClaimCanBeUsed)
<1> SUFFICES ASSUME "Blind" \notin Faults PROVE Spec => []LiveClaimCanBeUsed
  OBVIOUS
<1>1. IInv => LiveClaimCanBeUsed
  <2> SUFFICES ASSUME IInv, Live
               PROVE  \E w \in Workers : Verified(w, slice.claim.tok)
    BY DEF LiveClaimCanBeUsed
  <2>1. PICK s \in secrets : s.gen = slice.gen /\ s.key = slice.claim.key
                 /\ s.tok = slice.claim.tok /\ s.worker = slice.owner
    BY DEF IInv, UsableInv, Live
  <2>2. slice.owner \in Workers
    BY <2>1 DEF IInv, TypeOK, Envelopes
  <2>3. s \in At(Name(slice))
    BY <2>1 DEF At, Name, Live
  <2> QED
    BY <2>1, <2>2, <2>3 DEF Verified
<1> QED
  BY <1>1, Invariant, PTL

\* Receipts tell the truth, as long as no scar's write fails or dies.
THEOREM ReceiptsTrue == "LostScar" \notin Faults => (Spec => []ReceiptsTellTheTruth)
<1> SUFFICES ASSUME "LostScar" \notin Faults PROVE Spec => []ReceiptsTellTheTruth
  OBVIOUS
<1>1. IInv => ReceiptsTellTheTruth
  BY DEF IInv, ScarInv, LandedInv, LastInv, ReceiptsTellTheTruth, ReceiptOf
<1> QED
  BY <1>1, Invariant, PTL

\* The journal is neither ahead of the note nor behind what a caller was told,
\* as long as no key is used again in a later generation.
THEOREM JournalAligned == "KeyReuse" \notin Faults => (Spec => []JournalKeepsUp)
<1> SUFFICES ASSUME "KeyReuse" \notin Faults PROVE Spec => []JournalKeepsUp
  OBVIOUS
<1>1. IInv => JournalKeepsUp
  BY DEF IInv, JournalInv
<1> QED
  BY <1>1, Invariant, PTL

=============================================================================
