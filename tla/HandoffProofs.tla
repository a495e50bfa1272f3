----------------------------- MODULE HandoffProofs -----------------------------
(***************************************************************************)
(* Proofs about Handoff, for any number of acks and rounds:                *)
(*   - the state is well formed;                                           *)
(*   - a lease sent once has one outcome, provided no ack is made before   *)
(*     the send has returned (EarlyAck);                                   *)
(*   - what is owed is shown, provided the upsert of a later round does    *)
(*     not fail (ResendFails);                                             *)
(*   - the files follow the row, whatever fails;                           *)
(*   - what is settled does not return, whatever fails.                    *)
(***************************************************************************)
EXTENDS Handoff, TLAPS

\* A send under way has begun a round, and an ack about to write has read a
\* packet of one.
Holding ==
    /\ pc["send"] # "idle" => sent \in Rounds
    /\ \A a \in Acks : pc[a] = "write" => ack[a].at \in Rounds

-----------------------------------------------------------------------------
(* Type correctness *)

LEMMA InitTypeOK == Init => TypeOK /\ Holding
<1> SUFFICES ASSUME Init PROVE TypeOK /\ Holding
  OBVIOUS
<1>1. ack \in [Acks -> Progress]
  BY Zenon DEF Init, NoAck, Progress
<1>2. list \in Lists
  BY Zenon DEF Init, NoList, Lists
<1>3. row \in Rows \cup {None} /\ told \subseteq Acks /\ dirs \in {{"outbox"}, Boxes}
  BY DEF Init
<1>4. packet \in [Packets -> {None, "open"} \cup Acks]
  BY DEF Init
<1>5. {sent, expired} \subseteq 0 .. MaxSends
  BY HandoffAssumption DEF Init
<1>6. pc \in [Acks \cup Requests -> Steps]
  BY DEF Init, Steps
<1>7. {delivered, touched, settled, split} \subseteq BOOLEAN
  BY DEF Init
<1>8. Holding
  <2>1. \A r \in Acks \cup Requests : pc[r] \in {"rows", "idle"}
    BY DEF Init
  <2>2. pc["send"] = "idle"
    BY DEF Init, Requests
  <2> QED
    BY <2>1, <2>2 DEF Holding
<1> QED
  BY <1>1, <1>2, <1>3, <1>4, <1>5, <1>6, <1>7, <1>8 DEF TypeOK

\* What a request knows of its own progress stays of its type.
LEMMA StepAckTyped == TypeOK /\ Holding /\ [Next]_vars => ack' \in [Acks -> Progress]
<1> SUFFICES ASSUME TypeOK, Holding, [Next]_vars PROVE ack' \in [Acks -> Progress]
  OBVIOUS
<1> DEFINE Typed == ack' \in [Acks -> Progress]
<1>a. ack \in [Acks -> Progress]
  BY Zenon DEF TypeOK
<1>b. NoAck \in Progress
  BY Zenon DEF NoAck, Progress
<1>c. dirs \in SUBSET Boxes
  BY DEF TypeOK, Boxes
<1>d. \A b \in Acks : /\ ack[b].todo \in SUBSET Boxes
                      /\ ack[b].files \in SUBSET Rounds
                      /\ ack[b].inbox \in SUBSET Rounds
  BY <1>a, Zenon DEF Progress
<1>e. delivered \in BOOLEAN
  BY DEF TypeOK
<1>1. CASE SendOutbox
  <2>1. \A a \in Acks : [ack[a] EXCEPT !.fresh = FALSE] \in Progress
    BY <1>a, Zenon DEF Progress
  <2> QED
    BY <1>1, <2>1, Zenon DEF SendOutbox
<1>2. ASSUME NEW a \in Acks, AckStart(a) PROVE Typed
  <2>1. [NoAck EXCEPT !.fresh = delivered] \in Progress
    BY <1>b, <1>e, Zenon DEF Progress
  <2> QED
    BY <1>2, <1>a, <2>1, Zenon DEF AckStart
<1>3. ASSUME NEW a \in Acks, NEW b \in BOOLEAN, Sweep(a, b) PROVE Typed
  BY <1>3, <1>a, <1>c, ZenonT(60) DEF Sweep, Progress
<1>4. ASSUME NEW a \in Acks, Update(a) \/ UpdateFails(a) PROVE Typed
  BY <1>3, <1>4, <1>a, Zenon DEF Update, UpdateFails
<1>5. ASSUME NEW a \in Acks, AckStatus(a) \/ AckStatusFails(a) PROVE Typed
  BY <1>3, <1>5, <1>a, <1>b, Zenon DEF AckStatus, AckStatusFails
<1>6. ASSUME NEW a \in Acks, EnterDirectory(a) PROVE Typed
  <2> DEFINE entry(d) == {r \in Rounds : packet[<<r, d>>] # None}
  <2>1. PICK d \in ack[a].todo :
          ack' = [ack EXCEPT ![a].todo = @ \ {d}, ![a].dir = d, ![a].files = entry(d)]
    BY <1>6, Zenon DEF EnterDirectory
  <2>2. ack[a].todo \ {d} \in SUBSET Boxes /\ d \in Boxes \cup {None}
    BY <1>d, <2>1, Zenon
  <2>3. entry(d) \in SUBSET Rounds
    BY Zenon
  <2> DEFINE left == ack[a].todo \ {d}
  <2>4. ack' = [ack EXCEPT ![a].todo = left, ![a].dir = d, ![a].files = entry(d)]
    BY <2>1, Zenon
  <2>5. left \in SUBSET Boxes
    BY <2>2, Zenon
  <2> HIDE DEF entry, left
  <2> DEFINE at(p) == [p EXCEPT !.todo = left, !.dir = d, !.files = entry(d)]
  <2>6. ack' = [ack EXCEPT ![a] = at(ack[a])]
    BY <1>a, <2>4, Zenon
  <2>7. at(ack[a]) \in Progress
    BY <1>a, <2>2, <2>3, <2>5, Zenon DEF Progress
  <2> QED
    BY <1>a, <2>6, <2>7, Zenon
<1>7. ASSUME NEW a \in Acks, LeaveDirectory(a) PROVE Typed
  BY <1>7, <1>a, ZenonT(60) DEF LeaveDirectory, NextDirectory, Progress
<1>8. ASSUME NEW a \in Acks, ReadPacket(a) PROVE Typed
  <2>1. PICK r \in ToChange(a) : ack' = [ack EXCEPT ![a].files = @ \ {r}, ![a].at = r]
    BY <1>8, Zenon DEF ReadPacket
  <2>2. ack[a].files \ {r} \in SUBSET Rounds /\ r \in Rounds
    BY <1>d, <2>1, Zenon DEF ToChange
  <2> QED
    BY <1>a, <2>1, <2>2, ZenonT(60) DEF Progress
<1>9. ASSUME NEW a \in Acks, WritePacket(a) PROVE Typed
  <2> DEFINE inbox == IF ack[a].dir = "inbox" THEN ack[a].inbox \cup {ack[a].at} ELSE ack[a].inbox
  <2>1. ack' = [ack EXCEPT ![a].changed = TRUE, ![a].at = None, ![a].inbox = inbox]
    BY <1>9, Zenon DEF WritePacket, Write
  <2>2. ack[a].at \in Rounds
    BY <1>9, Zenon DEF WritePacket, Write, Holding
  <2>3. inbox \in SUBSET Rounds
    BY <1>d, <2>2, Zenon
  <2> HIDE DEF inbox
  <2> QED
    BY <1>a, <2>1, <2>3, ZenonT(60) DEF Progress
<1>10. ASSUME NEW a \in Acks, WriteFails(a) \/ Swept(a) \/ AckReturns(a) PROVE Typed
  BY <1>10, <1>a, <1>b, Zenon DEF WriteFails, Swept, AckReturns
<1>11. ASSUME NEW a \in Acks, Archive(a) PROVE Typed
  <2>1. PICK r \in ack[a].inbox : ack' = [ack EXCEPT ![a].inbox = @ \ {r}]
    BY <1>11, Zenon DEF Archive
  <2>2. ack[a].inbox \ {r} \in SUBSET Rounds
    BY <1>d, Zenon
  <2> QED
    BY <1>a, <2>1, <2>2, ZenonT(60) DEF Progress
<1>12. CASE Crash
  BY <1>12, <1>b, Zenon DEF Crash
<1>13. CASE UNCHANGED ack
  BY <1>13, <1>a, Zenon
<1>14. SendInbox \/ Store \/ StoreFails \/ SendReturns \/ SendFails \/ ListRows \/ ListKnown
         \/ ListAnswer \/ AwaitRow \/ AwaitFiles \/ Expire \/ UNCHANGED vars => UNCHANGED ack
  BY Zenon DEF SendInbox, Store, StoreFails, SendReturns, SendFails, ListRows, ListKnown,
     ListAnswer, AwaitRow, AwaitFiles, Expire, vars
<1> QED
  BY <1>1, <1>2, <1>4, <1>5, <1>6, <1>7, <1>8, <1>9, <1>10, <1>11, <1>12, <1>13, <1>14, Zenon
     DEF Next, AckStep

LEMMA StepListTyped == TypeOK /\ [Next]_vars => list' \in Lists
<1> SUFFICES ASSUME TypeOK, [Next]_vars PROVE list' \in Lists
  OBVIOUS
<1>a. list \in Lists
  BY Zenon DEF TypeOK
<1>b. NoList \in Lists
  BY Zenon DEF NoList, Lists
<1>1. CASE SendOutbox
  BY <1>1, <1>a, Zenon DEF SendOutbox, Lists
<1>2. CASE ListRows
  <2> DEFINE rows(up) == IF ~up THEN "failed" ELSE IF RowPending THEN "pending" ELSE "none"
             owed     == Owed
  <2>1. PICK up \in BOOLEAN :
          list' = [NoList EXCEPT !.rows = rows(up), !.owed = owed, !.settled = settled]
    BY <1>2, Zenon DEF ListRows
  <2>2. rows(up) \in {None, "pending", "none", "failed"} /\ owed \in BOOLEAN
    BY Zenon DEF Owed
  <2>3. settled \in BOOLEAN
    BY DEF TypeOK
  <2> HIDE DEF rows, owed
  <2> QED
    BY <1>b, <2>1, <2>2, <2>3, Zenon DEF Lists
<1>3. CASE ListKnown
  <2> DEFINE known(up) == list.rows = "pending" \/ (up /\ row # None)
             kept(up)  == list.settled /\ up
  <2>1. PICK up \in BOOLEAN : list' = [list EXCEPT !.known = known(up), !.settled = kept(up)]
    BY <1>3, Zenon DEF ListKnown
  <2>2. known(up) \in BOOLEAN /\ kept(up) \in BOOLEAN
    BY Zenon
  <2> HIDE DEF known, kept
  <2> QED
    BY <1>a, <2>1, <2>2, Zenon DEF Lists
<1>4. CASE ListAnswer \/ Crash
  BY <1>4, <1>b, Zenon DEF ListAnswer, Crash
<1>5. CASE UNCHANGED list
  BY <1>5, <1>a, Zenon
<1>6. SendInbox \/ Store \/ StoreFails \/ SendReturns \/ SendFails \/ AwaitRow \/ AwaitFiles
        \/ Expire \/ UNCHANGED vars => UNCHANGED list
  BY Zenon DEF SendInbox, Store, StoreFails, SendReturns, SendFails, AwaitRow, AwaitFiles,
     Expire, vars
<1>7. ASSUME NEW a \in Acks, AckStep(a) PROVE UNCHANGED list
  BY <1>7, Zenon DEF AckStep, AckStart, Update, UpdateFails, AckStatus, AckStatusFails,
     EnterDirectory, LeaveDirectory, NextDirectory, ReadPacket, WritePacket, Write, WriteFails,
     Swept, Archive, AckReturns, history
<1> QED
  BY <1>1, <1>2, <1>3, <1>4, <1>5, <1>6, <1>7, Zenon DEF Next

LEMMA StepRowTyped == TypeOK /\ Holding /\ [Next]_vars => row' \in Rows \cup {None}
<1> SUFFICES ASSUME TypeOK, Holding, [Next]_vars PROVE row' \in Rows \cup {None}
  OBVIOUS
<1>a. row \in Rows \cup {None}
  BY Zenon DEF TypeOK
<1>1. CASE Store
  <2>1. sent \in Rounds /\ row' = [round |-> sent, status |-> "pending"]
    BY <1>1, Zenon DEF Store, Holding
  <2> QED
    BY <2>1, Zenon DEF Rows
<1>2. ASSUME NEW a \in Acks, Update(a), RowPending PROVE row' \in Rows
  <2>1. row \in Rows /\ row' = [row EXCEPT !.status = a]
    BY <1>2, <1>a, Zenon DEF Update, RowPending
  <2> QED
    BY <2>1, Zenon DEF Rows
<1>3. ASSUME NEW a \in Acks, Update(a), ~RowPending PROVE UNCHANGED row
  BY <1>3, Zenon DEF Update
<1>4. ASSUME NEW a \in Acks, AckStep(a), ~Update(a) PROVE UNCHANGED row
  BY <1>4, Zenon DEF AckStep, AckStart, UpdateFails, AckStatus, AckStatusFails,
     EnterDirectory, LeaveDirectory, NextDirectory, ReadPacket, WritePacket, Write, WriteFails,
     Swept, Archive, AckReturns, lease
<1>5. SendOutbox \/ SendInbox \/ StoreFails \/ SendReturns \/ SendFails \/ ListRows \/ ListKnown
        \/ ListAnswer \/ AwaitRow \/ AwaitFiles \/ Expire \/ Crash \/ UNCHANGED vars
        => UNCHANGED row
  BY Zenon DEF SendOutbox, SendInbox, StoreFails, SendReturns, SendFails, ListRows, ListKnown,
     ListAnswer, AwaitRow, AwaitFiles, Expire, Crash, vars, lease
<1>6. UNCHANGED row => row' \in Rows \cup {None}
  BY <1>a, Zenon
<1> QED
  BY <1>1, <1>2, <1>3, <1>4, <1>5, <1>6, Zenon DEF Next

LEMMA StepPacketTyped ==
    TypeOK /\ [Next]_vars => packet' \in [Packets -> {None, "open"} \cup Acks]
<1> SUFFICES ASSUME TypeOK, [Next]_vars PROVE packet' \in [Packets -> {None, "open"} \cup Acks]
  OBVIOUS
<1>a. packet \in [Packets -> {None, "open"} \cup Acks]
  BY Zenon DEF TypeOK
<1> DEFINE Typed     == packet' \in [Packets -> {None, "open"} \cup Acks]
           Put(k, s) == packet' = [packet EXCEPT ![k] = s]
<1>b. ASSUME NEW k, NEW s \in {None, "open"} \cup Acks, Put(k, s) PROVE Typed
  BY <1>a, <1>b, Zenon
<1>c. \A k : (Put(k, "open") => Typed) /\ (Put(k, None) => Typed)
  BY <1>b
<1>d. \A k : \A a \in Acks : Put(k, a) => Typed
  BY <1>b
<1>e. SendOutbox => Put(<<sent + 1, "outbox">>, "open")
  BY Zenon DEF SendOutbox
<1>f. SendInbox => Put(<<sent, "inbox">>, "open")
  BY Zenon DEF SendInbox
<1>g. \A a : WritePacket(a) => Put(<<ack[a].at, ack[a].dir>>, a)
  BY Zenon DEF WritePacket, Write
<1>h. \A a : Archive(a) => (\E r : Put(<<r, "inbox">>, None)) \/ UNCHANGED packet
  BY Zenon DEF Archive
<1> HIDE DEF Put, Typed
<1>6. UNCHANGED packet => Typed
  BY <1>a, Zenon DEF Typed
<1>1. SendOutbox \/ SendInbox => Typed
  BY <1>c, <1>e, <1>f, Zenon
<1>2. ASSUME NEW a \in Acks, WritePacket(a) PROVE Typed
  BY <1>2, <1>d, <1>g, Zenon
<1>3. ASSUME NEW a \in Acks, Archive(a) PROVE Typed
  BY <1>3, <1>c, <1>h, <1>6, Zenon
<1>4. ASSUME NEW a \in Acks, AckStep(a), ~WritePacket(a), ~Archive(a) PROVE UNCHANGED packet
  BY <1>4, Zenon DEF AckStep, AckStart, Update, UpdateFails, AckStatus, AckStatusFails,
     EnterDirectory, LeaveDirectory, NextDirectory, ReadPacket, WriteFails, Swept,
     AckReturns, lease
<1>5. Store \/ StoreFails \/ SendReturns \/ SendFails \/ ListRows \/ ListKnown \/ ListAnswer
        \/ AwaitRow \/ AwaitFiles \/ Expire \/ Crash \/ UNCHANGED vars => UNCHANGED packet
  BY Zenon DEF Store, StoreFails, SendReturns, SendFails, ListRows, ListKnown, ListAnswer,
     AwaitRow, AwaitFiles, Expire, Crash, vars, lease
<1>7. Typed
  BY <1>1, <1>2, <1>3, <1>4, <1>5, <1>6, Zenon DEF Next
<1> QED
  BY <1>7 DEF Typed

\* The step an action of an ack leads to.
LEMMA AckGoes ==
    ASSUME NEW a \in Acks, AckStep(a)
    PROVE  \/ UNCHANGED pc
           \/ \E step \in Steps : pc' = [pc EXCEPT ![a] = step]
<1> DEFINE Goes == \E step \in Steps : pc' = [pc EXCEPT ![a] = step]
<1>1. {"update", "sweep", "status", "done", "dead", "read", "write", "archive"} \subseteq Steps
  BY DEF Steps
<1>2. \A step : Goto(a, step) /\ step \in Steps => Goes
  BY Zenon DEF Goto
<1> HIDE DEF Goes
<1>3. AckStart(a) \/ UpdateFails(a) \/ AckStatusFails(a) \/ AckStatus(a) \/ Update(a) => Goes
  BY <1>1, <1>2, Zenon DEF AckStart, Update, UpdateFails, AckStatus, AckStatusFails, Sweep
<1>4. EnterDirectory(a) \/ LeaveDirectory(a) \/ ReadPacket(a) \/ WritePacket(a) => Goes
  BY <1>1, <1>2, Zenon DEF EnterDirectory, LeaveDirectory, NextDirectory, ReadPacket,
     WritePacket, Write
<1>5. WriteFails(a) \/ Swept(a) \/ AckReturns(a) => Goes
  BY <1>1, <1>2, Zenon DEF WriteFails, Swept, AckReturns
<1>6. Archive(a) => UNCHANGED pc
  BY Zenon DEF Archive
<1> QED
  BY <1>3, <1>4, <1>5, <1>6, Zenon DEF AckStep, Goes

\* An ack changes nobody's progress but its own, and only reading a packet
\* leads to writing it.
LEMMA AckKeepsOthers ==
    ASSUME ack \in [Acks -> Progress],
           NEW a \in Acks, AckStep(a), NEW b \in Acks, b # a
    PROVE  ack'[b] = ack[b]
<1>1. CASE UNCHANGED ack
  BY <1>1
<1>2. CASE \/ AckStart(a) \/ UpdateFails(a) \/ AckStatusFails(a) \/ AckStatus(a) \/ Update(a)
           \/ LeaveDirectory(a) \/ WritePacket(a) \/ WriteFails(a) \/ Swept(a)
           \/ AckReturns(a)
  BY <1>2, Zenon DEF AckStart, Update, UpdateFails, AckStatus, AckStatusFails, Sweep,
     LeaveDirectory, NextDirectory, WritePacket, Write, WriteFails, Swept, AckReturns
<1>3. CASE EnterDirectory(a)
  BY <1>3, Zenon DEF EnterDirectory
<1>4. CASE ReadPacket(a)
  BY <1>4, Zenon DEF ReadPacket
<1>5. CASE Archive(a)
  BY <1>5, Zenon DEF Archive
<1> QED
  BY <1>1, <1>2, <1>3, <1>4, <1>5, Zenon DEF AckStep

LEMMA AckWrites ==
    ASSUME NEW a \in Acks, AckStep(a), ~ReadPacket(a), ~Archive(a)
    PROVE  \E step \in Steps \ {"write"} : pc' = [pc EXCEPT ![a] = step]
<1> DEFINE Goes == \E step \in Steps \ {"write"} : pc' = [pc EXCEPT ![a] = step]
<1>1. {"update", "sweep", "status", "done", "dead", "read", "archive"} \subseteq Steps \ {"write"}
  BY DEF Steps
<1>2. \A step : Goto(a, step) /\ step \in Steps \ {"write"} => Goes
  BY Zenon DEF Goto
<1> HIDE DEF Goes
<1>3. AckStart(a) \/ UpdateFails(a) \/ AckStatusFails(a) \/ AckStatus(a) \/ Update(a) => Goes
  BY <1>1, <1>2, Zenon DEF AckStart, Update, UpdateFails, AckStatus, AckStatusFails, Sweep
<1>4. EnterDirectory(a) \/ LeaveDirectory(a) \/ WritePacket(a) => Goes
  BY <1>1, <1>2, Zenon DEF EnterDirectory, LeaveDirectory, NextDirectory, WritePacket, Write
<1>5. WriteFails(a) \/ Swept(a) \/ AckReturns(a) => Goes
  BY <1>1, <1>2, Zenon DEF WriteFails, Swept, AckReturns
<1> QED
  BY <1>3, <1>4, <1>5, Zenon DEF AckStep, Goes

LEMMA StepPcTyped == TypeOK /\ [Next]_vars => pc' \in [Acks \cup Requests -> Steps]
<1> SUFFICES ASSUME TypeOK, [Next]_vars PROVE pc' \in [Acks \cup Requests -> Steps]
  OBVIOUS
<1>a. pc \in [Acks \cup Requests -> Steps]
  BY Zenon DEF TypeOK
<1>b. \A r : \A step \in Steps : [pc EXCEPT ![r] = step] \in [Acks \cup Requests -> Steps]
  BY <1>a, Zenon
<1>c. {"idle", "inbox", "store", "page", "done", "dead", "rows", "known", "files"} \subseteq Steps
  BY DEF Steps
<1>1. ASSUME NEW a \in Acks, AckStep(a) PROVE pc' \in [Acks \cup Requests -> Steps]
  BY <1>1, <1>a, <1>b, AckGoes, Zenon
<1>2. /\ SendOutbox => Goto("send", "inbox")
      /\ SendInbox => Goto("send", "store")
      /\ Store \/ StoreFails => Goto("send", "page")
      /\ SendReturns \/ SendFails => Goto("send", "idle")
  BY Zenon DEF SendOutbox, SendInbox, Store, StoreFails, SendReturns, SendFails
<1>3. /\ ListRows => Goto("list", "known")
      /\ ListKnown => Goto("list", "files")
      /\ ListAnswer => Goto("list", "rows")
  BY Zenon DEF ListRows, ListKnown, ListAnswer
<1>6. \A r : \A step \in Steps : Goto(r, step) => pc' \in [Acks \cup Requests -> Steps]
  BY <1>b, Zenon DEF Goto
<1>7. SendOutbox \/ SendInbox \/ Store \/ StoreFails \/ SendReturns \/ SendFails
         \/ ListRows \/ ListKnown \/ ListAnswer => pc' \in [Acks \cup Requests -> Steps]
  BY <1>2, <1>3, <1>6, <1>c
<1>4. CASE Crash
  <2>1. DOMAIN pc = Acks \cup Requests
    BY <1>a, Zenon
  <2>2. pc' = [r \in Acks \cup Requests |->
                  IF r = "list" THEN "rows" ELSE IF r = "send" \/ pc[r] = "idle" THEN "idle"
                  ELSE IF pc[r] = "done" THEN "done" ELSE "dead"]
    BY <1>4, <2>1, Zenon DEF Crash
  <2> QED
    BY <2>2, <1>c
<1>5. AwaitRow \/ AwaitFiles \/ Expire \/ UNCHANGED vars => UNCHANGED pc
  BY Zenon DEF AwaitRow, AwaitFiles, Expire, vars
<1> QED
  BY <1>a, <1>1, <1>4, <1>5, <1>7, Zenon DEF Next

LEMMA StepRestTyped ==
    TypeOK /\ [Next]_vars => /\ dirs' \in {{"outbox"}, Boxes}
                             /\ {sent', expired'} \subseteq 0 .. MaxSends
                             /\ told' \subseteq Acks
                             /\ {delivered', touched', settled', split'} \subseteq BOOLEAN
<1> SUFFICES ASSUME TypeOK, [Next]_vars
             PROVE  /\ dirs' \in {{"outbox"}, Boxes}
                    /\ {sent', expired'} \subseteq 0 .. MaxSends
                    /\ told' \subseteq Acks
                    /\ {delivered', touched', settled', split'} \subseteq BOOLEAN
  OBVIOUS
<1> DEFINE Told  == told' \subseteq Acks
           Flags == {delivered', touched', settled', split'} \subseteq BOOLEAN
           Same  == UNCHANGED <<dirs, sent, expired>>
<1>a. /\ dirs \in {{"outbox"}, Boxes} /\ sent \in 0 .. MaxSends /\ expired \in 0 .. MaxSends
      /\ told \in SUBSET Acks
      /\ delivered \in BOOLEAN /\ touched \in BOOLEAN /\ settled \in BOOLEAN /\ split \in BOOLEAN
  BY DEF TypeOK
<1>b. UNCHANGED told => Told
  BY <1>a
<1>c. \A a \in Acks : Tell(a) => Told
  BY <1>a DEF Tell
<1>1. CASE SendOutbox
  <2>1. /\ sent < MaxSends /\ sent' = sent + 1 /\ told' = {} /\ UNCHANGED <<dirs, expired, split>>
        /\ delivered' = FALSE /\ settled' = FALSE /\ touched' = Acking
    BY <1>1, Zenon DEF SendOutbox
  <2>2. sent' \in 0 .. MaxSends
    BY <1>a, <2>1, HandoffAssumption
  <2>3. Acking \in BOOLEAN
    BY Zenon DEF Acking
  <2> QED
    BY <1>a, <2>1, <2>2, <2>3
<1>2. CASE SendReturns
  BY <1>2, <1>a DEF SendReturns, lease
<1>3. CASE Expire
  BY <1>3, <1>a, HandoffAssumption DEF Expire, history
<1>4. CASE AwaitRow
  <2>1. row.status \in Acks
    <3>1. row \in Rows /\ row.status # "pending"
      BY <1>4, Zenon DEF AwaitRow, TypeOK
    <3> QED
      BY <3>1 DEF Rows
  <2>2. Tell(row.status) /\ UNCHANGED <<dirs, sent, expired, delivered, touched, settled, split>>
    BY <1>4, Zenon DEF AwaitRow, lease
  <2> QED
    BY <1>a, <1>c, <2>1, <2>2
<1>5. CASE AwaitFiles
  <2>1. PICK k \in Visible : packet[k] # "open" /\ Tell(packet[k])
    BY <1>5, Zenon DEF AwaitFiles
  <2>2. packet[k] \in Acks
    BY <2>1 DEF Visible, TypeOK
  <2>3. UNCHANGED <<dirs, sent, expired, delivered, touched, settled, split>>
    BY <1>5, Zenon DEF AwaitFiles, lease
  <2> QED
    BY <1>a, <1>c, <2>1, <2>2, <2>3
<1>6. SendInbox \/ Store \/ StoreFails \/ SendFails \/ ListRows \/ ListKnown \/ ListAnswer \/ Crash
        \/ UNCHANGED vars
        => Same /\ UNCHANGED history
  BY Zenon DEF SendInbox, Store, StoreFails, SendFails, ListRows, ListKnown, ListAnswer, Crash,
     vars, lease
<1>7. ASSUME NEW a \in Acks, AckStep(a) PROVE Same /\ Told /\ Flags
  <2>1. Same
    BY <1>7, Zenon DEF AckStep, AckStart, Update, UpdateFails, AckStatus, AckStatusFails,
       EnterDirectory, LeaveDirectory, NextDirectory, ReadPacket, WritePacket, Write, WriteFails,
       Swept, Archive, AckReturns, lease
  <2>2. CASE AckStart(a)
    <3>1. touched' = TRUE /\ UNCHANGED <<delivered, settled, told, split>>
      BY <2>2, Zenon DEF AckStart
    <3> QED
      BY <2>1, <3>1, <1>a
  <2>3. CASE AckStatusFails(a)
    <3>1. split' = (split \/ row # None) /\ UNCHANGED <<delivered, touched, settled, told>>
      BY <2>3, Zenon DEF AckStatusFails
    <3> QED
      BY <2>1, <3>1, <1>a
  <2>4. CASE AckReturns(a)
    <3>1. /\ Tell(a) /\ UNCHANGED <<delivered, touched, split>>
          /\ settled' \in BOOLEAN
      BY <2>4, <1>a, Zenon DEF AckReturns
    <3> QED
      BY <2>1, <3>1, <1>a, <1>c
  <2>5. CASE ~AckStart(a) /\ ~AckStatusFails(a) /\ ~AckReturns(a)
    <3>1. UNCHANGED history
      BY <1>7, <2>5, Zenon DEF AckStep, Update, UpdateFails, AckStatus, EnterDirectory,
         LeaveDirectory, NextDirectory, ReadPacket, WritePacket, Write, WriteFails,
         Swept, Archive
    <3> QED
      BY <2>1, <3>1, <1>a DEF history
  <2> QED
    BY <2>2, <2>3, <2>4, <2>5
<1>8. Same /\ UNCHANGED history => Told /\ Flags
  BY <1>a DEF history
<1>9. Same => dirs' \in {{"outbox"}, Boxes} /\ {sent', expired'} \subseteq 0 .. MaxSends
  BY <1>a
<1> HIDE DEF Same
<1> QED
  BY <1>1, <1>2, <1>3, <1>4, <1>5, <1>6, <1>7, <1>8, <1>9 DEF Next

LEMMA StepHolding == TypeOK /\ Holding /\ [Next]_vars => Holding'
<1> SUFFICES ASSUME TypeOK, Holding, [Next]_vars PROVE Holding'
  OBVIOUS
<1>a. pc \in [Acks \cup Requests -> Steps]
  BY Zenon DEF TypeOK
<1>b. "send" \notin Acks /\ "list" \notin Acks /\ "send" \in Requests /\ "list" \in Requests
  BY HandoffAssumption DEF Requests
<1>c. MaxSends \in Nat /\ sent \in 0 .. MaxSends
  BY HandoffAssumption DEF TypeOK
<1> DEFINE Sends == pc'["send"] # "idle" => sent' \in Rounds
           Acks1 == \A a \in Acks : pc'[a] = "write" => ack'[a].at \in Rounds
<1>d. UNCHANGED <<sent, pc>> => Sends
  BY DEF Holding
<1>e. UNCHANGED <<pc, ack>> => Acks1
  BY DEF Holding
<1>1. CASE SendOutbox
  <2>1. sent < MaxSends /\ sent' = sent + 1 /\ pc' = [pc EXCEPT !["send"] = "inbox"]
    BY <1>1, Zenon DEF SendOutbox, Goto
  <2>2. \A a \in Acks : ack'[a].at = ack[a].at
    <3>1. ack' = [a \in Acks |-> [ack[a] EXCEPT !.fresh = FALSE]]
      BY <1>1, Zenon DEF SendOutbox
    <3>2. ack \in [Acks -> Progress]
      BY Zenon DEF TypeOK
    <3>3. \A a \in Acks : [ack[a] EXCEPT !.fresh = FALSE].at = ack[a].at
      BY <3>2, Zenon DEF Progress
    <3> QED
      BY <3>1, <3>3, Zenon
  <2>3. Sends
    BY <1>c, <2>1 DEF Rounds
  <2>4. Acks1
    BY <1>a, <1>b, <2>1, <2>2 DEF Holding
  <2> QED
    BY <2>3, <2>4 DEF Holding
<1>2. CASE SendInbox \/ Store \/ StoreFails \/ SendReturns \/ SendFails \/ ListRows \/ ListKnown
             \/ ListAnswer
  <2>1. /\ UNCHANGED <<sent, ack>>
        /\ \/ pc["send"] # "idle" /\ (Goto("send", "store") \/ Goto("send", "page"))
           \/ Goto("send", "idle")
           \/ Goto("list", "known") \/ Goto("list", "files") \/ Goto("list", "rows")
    BY <1>2, Zenon DEF SendInbox, Store, StoreFails, SendReturns, SendFails, ListRows, ListKnown,
       ListAnswer
  <2> QED
    BY <1>a, <1>b, <2>1 DEF Goto, Holding
<1>3. CASE Crash
  <2>1. \A r \in Acks \cup Requests : pc'[r] # "write" /\ (r = "send" => pc'[r] = "idle")
    <3>1. pc' = [r \in DOMAIN pc |->
                   IF r = "list" THEN "rows" ELSE IF r = "send" \/ pc[r] = "idle" THEN "idle"
                   ELSE IF pc[r] = "done" THEN "done" ELSE "dead"]
      BY <1>3, Zenon DEF Crash
    <3> QED
      BY <1>a, <3>1
  <2> QED
    BY <1>b, <2>1 DEF Holding
<1>4. CASE AwaitRow \/ AwaitFiles \/ Expire \/ UNCHANGED vars
  <2>1. UNCHANGED <<sent, pc, ack>>
    BY <1>4, Zenon DEF AwaitRow, AwaitFiles, Expire, vars
  <2> QED
    BY <2>1 DEF Holding
<1>5. ASSUME NEW a \in Acks, AckStep(a) PROVE Holding'
  <2>1. UNCHANGED sent
    BY <1>5, Zenon DEF AckStep, AckStart, Update, UpdateFails, AckStatus, AckStatusFails,
       EnterDirectory, LeaveDirectory, NextDirectory, ReadPacket, WritePacket, Write, WriteFails,
       Swept, Archive, AckReturns
  <2>2. pc'["send"] = pc["send"]
    BY <1>5, <1>a, <1>b, AckGoes
  <2>3. ASSUME NEW b \in Acks, b # a PROVE pc'[b] = pc[b] /\ ack'[b] = ack[b]
    <3>1. pc'[b] = pc[b]
      BY <1>5, <1>a, <2>3, AckGoes
    <3>2. ack'[b] = ack[b]
      BY <1>5, <2>3, AckKeepsOthers, Zenon DEF TypeOK
    <3> QED
      BY <3>1, <3>2
  <2>4. pc'[a] = "write" => ack'[a].at \in Rounds
    <3>1. CASE ReadPacket(a)
      <4>1. PICK r \in ToChange(a) : ack' = [ack EXCEPT ![a].files = @ \ {r}, ![a].at = r]
        BY <3>1, Zenon DEF ReadPacket
      <4>2. ack \in [Acks -> Progress]
        BY Zenon DEF TypeOK
      <4>3. r \in Rounds
        BY <4>1, <4>2, Zenon DEF ToChange, Progress
      <4>4. ack'[a].at = r
        BY <4>1, <4>2, Zenon DEF Progress
      <4> QED
        BY <4>3, <4>4
    <3>2. CASE ~ReadPacket(a)
      <4>1. \/ Archive(a)
            \/ \E step \in Steps \ {"write"} : pc' = [pc EXCEPT ![a] = step]
        BY <1>5, <3>2, AckWrites, Zenon
      <4>2. Archive(a) => pc'[a] = "archive"
        BY Zenon DEF Archive
      <4> QED
        BY <1>a, <4>1, <4>2
    <3> QED
      BY <3>1, <3>2
  <2> QED
    BY <2>1, <2>2, <2>3, <2>4 DEF Holding
<1> QED
  BY <1>1, <1>2, <1>3, <1>4, <1>5 DEF Next

LEMMA StepTypeOK == TypeOK /\ Holding /\ [Next]_vars => TypeOK' /\ Holding'
BY StepAckTyped, StepListTyped, StepRowTyped, StepPacketTyped, StepPcTyped, StepRestTyped,
   StepHolding DEF TypeOK

\* Whatever fails, and however requests interleave, every variable keeps its
\* type (the tables and packets of handoff.py).
THEOREM HandoffTypeCorrect == Spec => []TypeOK
<1> QED
  BY InitTypeOK, StepTypeOK, PTL DEF Spec

-----------------------------------------------------------------------------
(* One outcome *)

\* No packet is answered before its send has returned.
Timely == "EarlyAck" \notin Faults

First == sent = 0 \/ (sent = 1 /\ pc["send"] # "idle")

Sweeping == {"sweep", "read", "write", "archive"}

\* Until the first send has returned, no ack is under way and nobody has been
\* told anything.
Calm ==
    /\ First =>
          /\ \A a \in Acks : pc[a] \in {"idle", "done", "dead"}
          /\ told = {}
          /\ row = None \/ row.status = "pending"
          /\ \A k \in Packets : packet[k] \in {None, "open"}
    /\ sent = 0 => /\ row = None /\ pc["send"] = "idle"
                   /\ \A k \in Packets : packet[k] = None

\* The row decides: what anybody was told, what the packets say and what the
\* acks under way are about to write is its status.
Agreed ==
    row # None /\ sent = 1 /\ ~split =>
        /\ told \subseteq {row.status} \ {"pending"}
        /\ \A k \in Packets : packet[k] \in {None, "open", row.status}
        /\ \A a \in Acks : pc[a] \in Sweeping => row.status = a

IInv == TypeOK /\ Holding /\ Calm /\ Agreed

LEMMA InitIInv == Init => IInv
<1> SUFFICES ASSUME Init PROVE Calm /\ Agreed
  BY InitTypeOK DEF IInv
<1>1. row = None /\ told = {} /\ \A k \in Packets : packet[k] = None
  BY DEF Init
<1>2. \A r \in Acks \cup Requests : pc[r] = IF r = "list" THEN "rows" ELSE "idle"
  BY DEF Init
<1>3. "list" \notin Acks /\ "send" \in Requests
  BY HandoffAssumption DEF Requests
<1> QED
  BY <1>1, <1>2, <1>3 DEF Calm, Agreed

LEMMA SendAgrees ==
    IInv /\ (SendOutbox \/ SendInbox \/ Store \/ StoreFails \/ SendReturns \/ SendFails)
        => Calm' /\ Agreed'
<1> SUFFICES ASSUME IInv,
                    SendOutbox \/ SendInbox \/ Store \/ StoreFails \/ SendReturns \/ SendFails
             PROVE  Calm' /\ Agreed'
  OBVIOUS
<1>a. /\ pc \in [Acks \cup Requests -> Steps] /\ "send" \notin Acks /\ "send" \in Requests
      /\ packet \in [Packets -> {None, "open"} \cup Acks]
  BY HandoffAssumption, Zenon DEF IInv, TypeOK, Requests
<1>b. sent \in Nat /\ (sent = 0 => pc["send"] = "idle")
  BY HandoffAssumption DEF IInv, TypeOK, Calm
<1>c. /\ SendOutbox => Goto("send", "inbox")
      /\ SendInbox => pc["send"] # "idle" /\ Goto("send", "store")
      /\ Store \/ StoreFails => pc["send"] # "idle" /\ Goto("send", "page")
      /\ SendReturns \/ SendFails => pc["send"] # "idle" /\ Goto("send", "idle")
  BY Zenon DEF SendOutbox, SendInbox, Store, StoreFails, SendReturns, SendFails
<1>d. \A a \in Acks : pc'[a] = pc[a]
  BY <1>a, <1>c DEF Goto
<1>1. CASE SendOutbox
  <2>1. /\ sent' = sent + 1 /\ told' = {} /\ UNCHANGED row
        /\ packet' = [packet EXCEPT ![<<sent + 1, "outbox">>] = "open"]
    BY <1>1, Zenon DEF SendOutbox
  <2>2. \A k \in Packets : packet'[k] = "open" \/ packet'[k] = packet[k]
    BY <1>a, <2>1, Zenon
  <2> QED
    BY <1>b, <1>d, <2>1, <2>2 DEF IInv, Calm, Agreed, First
<1>2. CASE SendInbox
  <2>1. /\ UNCHANGED <<row, sent, told, split>>
        /\ packet' = [packet EXCEPT ![<<sent, "inbox">>] = "open"]
    BY <1>2, Zenon DEF SendInbox, history
  <2>2. \A k \in Packets : packet'[k] = "open" \/ packet'[k] = packet[k]
    BY <1>a, <2>1, Zenon
  <2> QED
    BY <1>2, <1>b, <1>c, <1>d, <2>1, <2>2 DEF IInv, Calm, Agreed, First
<1>3. CASE Store
  <2>1. UNCHANGED <<packet, sent, told, split>> /\ row' = [round |-> sent, status |-> "pending"]
    BY <1>3, Zenon DEF Store, history
  <2>2. row'.status = "pending"
    BY <2>1, Zenon
  <2>3. \A a \in Acks : a # "pending"
    BY HandoffAssumption
  <2> QED
    BY <1>3, <1>b, <1>c, <1>d, <2>1, <2>2, <2>3 DEF IInv, Calm, Agreed, First, Sweeping
<1>4. CASE StoreFails \/ SendReturns \/ SendFails
  <2>1. UNCHANGED <<packet, sent, told, split, row>>
    BY <1>4, Zenon DEF StoreFails, SendReturns, SendFails, history, lease
  <2> QED
    BY <1>4, <1>b, <1>c, <1>d, <2>1 DEF IInv, Calm, Agreed, First
<1> QED
  BY <1>1, <1>2, <1>3, <1>4

LEMMA AckAgrees ==
    ASSUME Timely, IInv, NEW a \in Acks, AckStep(a)
    PROVE  Calm' /\ Agreed'
<1>a. /\ pc \in [Acks \cup Requests -> Steps] /\ "send" \notin Acks /\ "send" \in Requests
      /\ packet \in [Packets -> {None, "open"} \cup Acks]
      /\ row \in Rows \cup {None}
      /\ a # "pending"
  BY HandoffAssumption, Zenon DEF IInv, TypeOK, Requests
<1>b. UNCHANGED sent /\ pc'["send"] = pc["send"]
  <2>1. UNCHANGED sent
    BY Zenon DEF AckStep, AckStart, Update, UpdateFails, AckStatus, AckStatusFails,
       EnterDirectory, LeaveDirectory, NextDirectory, ReadPacket, WritePacket, Write, WriteFails,
       Swept, Archive, AckReturns
  <2> QED
    BY <1>a, <2>1, AckGoes
<1>c. \A b \in Acks : b # a => pc'[b] = pc[b]
  BY <1>a, AckGoes
<1>1. CASE AckStart(a)
  <2>1. /\ UNCHANGED <<row, packet, told, split>>
        /\ pc["send"] = "idle"
        /\ Goto(a, "done") \/ (Goto(a, "update") /\ (row # None \/ Visible # {}))
    BY <1>1, Zenon DEF AckStart, Timely, lease
  <2>2. pc'[a] \in {"update", "done"}
    BY <1>a, <2>1 DEF Goto
  <2>3. sent = 0 => pc'[a] = "done"
    <3>1. sent = 0 => row = None /\ Visible = {}
      BY DEF IInv, Calm, Visible
    <3> QED
      BY <1>a, <2>1, <3>1 DEF Goto
  <2> QED
    BY <1>a, <1>b, <1>c, <2>1, <2>2, <2>3 DEF IInv, Calm, Agreed, First, Sweeping
<1>2. CASE Update(a)
  <2>1. CASE RowPending
    <3>1. /\ row # None /\ row.status = "pending" /\ row' = [row EXCEPT !.status = a]
          /\ pc[a] = "update" /\ pc' = [pc EXCEPT ![a] = "sweep"]
          /\ UNCHANGED <<packet, told, split>>
      BY <1>2, <2>1, Zenon DEF Update, RowPending, Sweep, Goto, history
    <3>2. row'.status = a
      BY <1>a, <3>1, Zenon DEF Rows
    <3>3. \A b \in Acks : b # "pending"
      BY HandoffAssumption
    <3>4. ~First
      BY <3>1 DEF IInv, Calm
    <3> QED
      BY <1>a, <1>b, <1>c, <3>1, <3>2, <3>3, <3>4 DEF IInv, Calm, Agreed, First, Sweeping
  <2>2. CASE ~RowPending
    <3>1. pc[a] = "update" /\ pc' = [pc EXCEPT ![a] = "status"]
          /\ UNCHANGED <<row, packet, told, split>>
      BY <1>2, <2>2, Zenon DEF Update, Goto, history
    <3> QED
      BY <1>a, <1>b, <1>c, <3>1 DEF IInv, Calm, Agreed, First, Sweeping
  <2> QED
    BY <2>1, <2>2
<1>3. CASE UpdateFails(a)
  <2>1. pc[a] = "update" /\ pc' = [pc EXCEPT ![a] = "status"] /\ UNCHANGED <<row, packet, told, split>>
    BY <1>3, Zenon DEF UpdateFails, Goto, history, lease
  <2> QED
    BY <1>a, <1>b, <1>c, <2>1 DEF IInv, Calm, Agreed, First, Sweeping
<1>4. CASE AckStatus(a)
  <2>1. /\ pc[a] = "status" /\ UNCHANGED <<row, packet, told, split>>
        /\ row # None => pc' = [pc EXCEPT ![a] = "done"]
    BY <1>4, Zenon DEF AckStatus, Goto, history, lease
  <2> QED
    BY <1>a, <1>b, <1>c, <2>1 DEF IInv, Calm, Agreed, First, Sweeping
<1>5. CASE AckStatusFails(a)
  <2>1. /\ pc[a] = "status" /\ UNCHANGED <<row, packet, told>>
        /\ split' = (split \/ row # None)
    BY <1>5, Zenon DEF AckStatusFails, lease
  <2> QED
    BY <1>a, <1>b, <1>c, <2>1 DEF IInv, Calm, Agreed, First, Sweeping
<1>6. CASE \/ EnterDirectory(a) \/ LeaveDirectory(a) \/ ReadPacket(a) \/ Swept(a)
           \/ WriteFails(a)
  <2>1. /\ pc[a] \in Sweeping /\ UNCHANGED <<row, packet, told, split>>
    BY <1>6, Zenon DEF EnterDirectory, LeaveDirectory, NextDirectory, ReadPacket, Swept,
       WriteFails, history, lease, Sweeping
  <2> QED
    BY <1>a, <1>b, <1>c, <2>1 DEF IInv, Calm, Agreed, First, Sweeping
<1>7. CASE WritePacket(a)
  <2>1. /\ pc[a] \in Sweeping /\ UNCHANGED <<row, told, split>>
        /\ packet' = [packet EXCEPT ![<<ack[a].at, ack[a].dir>>] = a]
    BY <1>7, Zenon DEF WritePacket, Write, history, Sweeping
  <2>2. \A k \in Packets : packet'[k] \in {packet[k], a}
    BY <1>a, <2>1, Zenon
  <2> QED
    BY <1>a, <1>b, <1>c, <2>1, <2>2 DEF IInv, Calm, Agreed, First, Sweeping
<1>8. CASE Archive(a)
  <2>1. /\ pc[a] \in Sweeping /\ UNCHANGED <<row, pc, told, split>>
        /\ (\E r : packet' = [packet EXCEPT ![<<r, "inbox">>] = None]) \/ UNCHANGED packet
    BY <1>8, Zenon DEF Archive, history, Sweeping
  <2>2. \A k \in Packets : packet'[k] \in {packet[k], None}
    BY <1>a, <2>1, Zenon
  <2> QED
    BY <1>a, <1>b, <2>1, <2>2 DEF IInv, Calm, Agreed, First, Sweeping
<1>9. CASE AckReturns(a)
  <2>1. /\ pc[a] \in Sweeping /\ pc' = [pc EXCEPT ![a] = "done"] /\ UNCHANGED <<row, packet, split>>
        /\ told' = IF sent = 1 THEN told \cup {a} ELSE told
    BY <1>9, Zenon DEF AckReturns, Goto, Tell, lease, Sweeping
  <2> QED
    BY <1>a, <1>b, <1>c, <2>1 DEF IInv, Calm, Agreed, First, Sweeping
<1> QED
  BY <1>1, <1>2, <1>3, <1>4, <1>5, <1>6, <1>7, <1>8, <1>9, Zenon DEF AckStep

LEMMA StepIInv == Timely /\ IInv /\ [Next]_vars => IInv'
<1> SUFFICES ASSUME Timely, IInv, [Next]_vars PROVE Calm' /\ Agreed'
  BY StepTypeOK DEF IInv
<1>a. /\ pc \in [Acks \cup Requests -> Steps]
      /\ "send" \notin Acks /\ "list" \notin Acks /\ {"send", "list"} \subseteq Requests
  BY HandoffAssumption, Zenon DEF IInv, TypeOK, Requests
<1>1. CASE ListRows \/ ListKnown \/ ListAnswer
  <2>1. /\ UNCHANGED <<row, packet, sent, told, split>>
        /\ Goto("list", "known") \/ Goto("list", "files") \/ Goto("list", "rows")
    BY <1>1, Zenon DEF ListRows, ListKnown, ListAnswer, history, lease
  <2>2. \A r \in Acks \cup {"send"} : pc'[r] = pc[r]
    BY <1>a, <2>1 DEF Goto
  <2> QED
    BY <1>a, <2>1, <2>2 DEF IInv, Calm, Agreed, First
<1>2. CASE AwaitRow
  <2>1. /\ UNCHANGED <<row, packet, sent, pc, split>> /\ row # None /\ row.status # "pending"
        /\ told' = IF sent = 1 THEN told \cup {row.status} ELSE told
    BY <1>2, Zenon DEF AwaitRow, Tell, lease
  <2> QED
    BY <2>1 DEF IInv, Calm, Agreed, First
<1>3. CASE AwaitFiles
  <2>1. PICK k \in Visible : packet[k] # "open" /\ Tell(packet[k])
    BY <1>3, Zenon DEF AwaitFiles
  <2>2. UNCHANGED <<row, packet, sent, pc, split>>
    BY <1>3, Zenon DEF AwaitFiles, lease
  <2>3. k \in Packets /\ packet[k] \notin {None, "open", "pending"}
    BY <2>1, HandoffAssumption DEF Visible, IInv, TypeOK
  <2> QED
    BY <2>1, <2>2, <2>3 DEF IInv, Calm, Agreed, First, Tell
<1>4. CASE Expire \/ UNCHANGED vars
  <2>1. UNCHANGED <<row, packet, sent, pc, told, split>>
    BY <1>4, Zenon DEF Expire, vars, history, lease
  <2> QED
    BY <2>1 DEF IInv, Calm, Agreed, First
<1>5. CASE Crash
  <2>1. UNCHANGED <<row, packet, sent, told, split>>
    BY <1>5, Zenon DEF Crash, history, lease
  <2>2. \A r \in Acks \cup Requests :
            /\ r \in Acks => pc'[r] \in {"idle", "done", "dead"}
            /\ r = "send" => pc'[r] = "idle"
    <3>1. pc' = [r \in DOMAIN pc |->
                   IF r = "list" THEN "rows" ELSE IF r = "send" \/ pc[r] = "idle" THEN "idle"
                   ELSE IF pc[r] = "done" THEN "done" ELSE "dead"]
      BY <1>5, Zenon DEF Crash
    <3> QED
      BY <1>a, <3>1
  <2> QED
    BY <1>a, <2>1, <2>2 DEF IInv, Calm, Agreed, First, Sweeping
<1> QED
  BY SendAgrees, AckAgrees, <1>1, <1>2, <1>3, <1>4, <1>5 DEF Next

\* Whatever else fails, and in whatever order acks, resends, lists, awaits and
\* deaths interleave, everybody who is told the outcome of a stored lease that
\* was sent once is told the same one (handle_ack_handoff, handle_await_handoff).
THEOREM OutcomeIsUnique == ASSUME Timely PROVE Spec => []OneOutcome
<1>1. IInv => OneOutcome
  BY DEF IInv, Agreed, OneOutcome
<1>2. Timely
  OBVIOUS
<1>3. IInv /\ [Next]_vars => IInv'
  BY <1>2, StepIInv
<1> QED
  BY InitIInv, <1>1, <1>3, PTL DEF Spec

-----------------------------------------------------------------------------
(* What an ack's steps do to its progress *)

LEMMA FreshStart ==
    ASSUME TypeOK, NEW a \in Acks, AckStart(a)
    PROVE  /\ pc[a] = "idle" /\ touched' = TRUE
           /\ \/ pc'[a] = "update" /\ ack'[a].dir = None /\ ack'[a].fresh = delivered
              \/ pc'[a] = "done" /\ ack' = ack
<1>1. /\ pc \in [Acks \cup Requests -> Steps] /\ ack \in [Acks -> Progress]
      /\ NoAck \in Progress
  BY Zenon DEF TypeOK, NoAck, Progress
<1>2. [NoAck EXCEPT !.fresh = delivered].fresh = delivered /\ [NoAck EXCEPT !.fresh = delivered].dir = None
  BY Zenon DEF NoAck
<1>3. /\ pc[a] = "idle" /\ touched' = TRUE
      /\ \/ Goto(a, "update") /\ ack' = [ack EXCEPT ![a] = [NoAck EXCEPT !.fresh = delivered]]
         \/ Goto(a, "done") /\ ack' = ack
  BY Zenon DEF AckStart
<1>4. \A step : Goto(a, step) => pc'[a] = step
  BY <1>1, Zenon DEF Goto
<1> QED
  BY <1>1, <1>2, <1>3, <1>4, Zenon

LEMMA SweepBegins ==
    ASSUME TypeOK, NEW a \in Acks, NEW b \in BOOLEAN, Sweep(a, b)
    PROVE  /\ pc'[a] = "sweep" /\ ack'[a].todo = dirs /\ ack'[a].dir = ack[a].dir
           /\ ack'[a].fresh = ack[a].fresh
<1>1. pc \in [Acks \cup Requests -> Steps] /\ ack \in [Acks -> Progress]
  BY Zenon DEF TypeOK
<1>2. pc'[a] = "sweep"
  BY <1>1, Zenon DEF Sweep, Goto
<1>3. ack' = [ack EXCEPT ![a].changed = b, ![a].todo = dirs]
  BY Zenon DEF Sweep
<1>4. ack'[a] = [ack[a] EXCEPT !.changed = b, !.todo = dirs]
  BY <1>1, <1>3, Zenon
<1>5. ack[a] \in Progress
  BY <1>1
<1> QED
  BY <1>2, <1>4, <1>5, Zenon DEF Progress

LEMMA DirectoryEntered ==
    ASSUME TypeOK, NEW a \in Acks, EnterDirectory(a)
    PROVE  \E d \in ack[a].todo :
              /\ pc[a] = "sweep" /\ pc'[a] = "read" /\ ack'[a].todo = ack[a].todo \ {d} /\ ack'[a].dir = d
              /\ ack'[a].files = {r \in Rounds : packet[<<r, d>>] # None} /\ ack'[a].fresh = ack[a].fresh
<1> DEFINE entry(d) == {r \in Rounds : packet[<<r, d>>] # None}
<1>1. pc \in [Acks \cup Requests -> Steps] /\ ack \in [Acks -> Progress]
  BY Zenon DEF TypeOK
<1>2. pc[a] = "sweep" /\ pc'[a] = "read"
  BY <1>1, Zenon DEF EnterDirectory, Goto
<1>3. PICK d \in ack[a].todo : ack' = [ack EXCEPT ![a].todo = @ \ {d}, ![a].dir = d, ![a].files = entry(d)]
  BY Zenon DEF EnterDirectory
<1> HIDE DEF entry
<1>4. ack'[a] = [ack[a] EXCEPT !.todo = @ \ {d}, !.dir = d, !.files = entry(d)]
  BY <1>1, <1>3, Zenon
<1>5. ack[a] \in Progress
  BY <1>1
<1>6. ack'[a].todo = ack[a].todo \ {d} /\ ack'[a].dir = d /\ ack'[a].files = entry(d) /\ ack'[a].fresh = ack[a].fresh
  BY <1>4, <1>5, Zenon DEF Progress
<1> QED
  BY <1>2, <1>3, <1>6 DEF entry

LEMMA PacketRead ==
    ASSUME TypeOK, NEW a \in Acks, ReadPacket(a)
    PROVE  \E r \in ToChange(a) :
              /\ pc[a] = "read" /\ pc'[a] = "write" /\ ack'[a].files = ack[a].files \ {r} /\ ack'[a].at = r
              /\ ack'[a].dir = ack[a].dir /\ ack'[a].todo = ack[a].todo /\ ack'[a].fresh = ack[a].fresh
<1>1. pc \in [Acks \cup Requests -> Steps] /\ ack \in [Acks -> Progress]
  BY Zenon DEF TypeOK
<1>2. pc[a] = "read" /\ pc'[a] = "write"
  BY <1>1, Zenon DEF ReadPacket, Goto
<1>3. PICK r \in ToChange(a) : ack' = [ack EXCEPT ![a].files = @ \ {r}, ![a].at = r]
  BY Zenon DEF ReadPacket
<1>4. ack'[a] = [ack[a] EXCEPT !.files = @ \ {r}, !.at = r]
  BY <1>1, <1>3, Zenon
<1>5. ack[a] \in Progress
  BY <1>1
<1>6. /\ ack'[a].files = ack[a].files \ {r} /\ ack'[a].at = r
      /\ ack'[a].dir = ack[a].dir /\ ack'[a].todo = ack[a].todo /\ ack'[a].fresh = ack[a].fresh
  BY <1>4, <1>5, Zenon DEF Progress
<1> QED
  BY <1>2, <1>3, <1>6

LEMMA DirectoryLeft ==
    ASSUME TypeOK, NEW a \in Acks, LeaveDirectory(a)
    PROVE  /\ pc[a] = "read" /\ pc'[a] = "sweep" /\ ToChange(a) = {} /\ ack'[a].dir = None
           /\ ack'[a].todo = ack[a].todo /\ ack'[a].fresh = ack[a].fresh
<1>1. pc \in [Acks \cup Requests -> Steps] /\ ack \in [Acks -> Progress]
  BY Zenon DEF TypeOK
<1>2. pc[a] = "read" /\ pc'[a] = "sweep" /\ ToChange(a) = {}
  BY <1>1, Zenon DEF LeaveDirectory, NextDirectory, Goto
<1>3. ack' = [ack EXCEPT ![a].files = {}, ![a].dir = None]
  BY Zenon DEF LeaveDirectory, NextDirectory
<1>4. ack'[a] = [ack[a] EXCEPT !.files = {}, !.dir = None]
  BY <1>1, <1>3, Zenon
<1>5. ack[a] \in Progress
  BY <1>1
<1>6. ack'[a].dir = None /\ ack'[a].todo = ack[a].todo /\ ack'[a].fresh = ack[a].fresh
  BY <1>4, <1>5, Zenon DEF Progress
<1> QED
  BY <1>2, <1>6

LEMMA PacketWritten ==
    ASSUME TypeOK, NEW a \in Acks, WritePacket(a)
    PROVE  /\ pc[a] = "write" /\ pc'[a] = "read" /\ packet' = [packet EXCEPT ![<<ack[a].at, ack[a].dir>>] = a]
           /\ ack'[a].dir = ack[a].dir /\ ack'[a].todo = ack[a].todo /\ ack'[a].files = ack[a].files
           /\ ack'[a].fresh = ack[a].fresh
<1> DEFINE inbox == IF ack[a].dir = "inbox" THEN ack[a].inbox \cup {ack[a].at} ELSE ack[a].inbox
<1>1. pc \in [Acks \cup Requests -> Steps] /\ ack \in [Acks -> Progress]
  BY Zenon DEF TypeOK
<1>2. pc[a] = "write" /\ pc'[a] = "read" /\ packet' = [packet EXCEPT ![<<ack[a].at, ack[a].dir>>] = a]
  BY <1>1, Zenon DEF WritePacket, Write, Goto
<1>3. ack' = [ack EXCEPT ![a].changed = TRUE, ![a].at = None, ![a].inbox = inbox]
  BY Zenon DEF WritePacket, Write
<1> HIDE DEF inbox
<1>4. ack'[a] = [ack[a] EXCEPT !.changed = TRUE, !.at = None, !.inbox = inbox]
  BY <1>1, <1>3, Zenon
<1>5. ack[a] \in Progress
  BY <1>1
<1>6. /\ ack'[a].dir = ack[a].dir /\ ack'[a].todo = ack[a].todo /\ ack'[a].files = ack[a].files
      /\ ack'[a].fresh = ack[a].fresh
  BY <1>4, <1>5, Zenon DEF Progress
<1> QED
  BY <1>2, <1>6

LEMMA Archived ==
    ASSUME TypeOK, NEW a \in Acks, Archive(a)
    PROVE  /\ pc[a] = "archive" /\ pc' = pc
           /\ (\E r : packet' = [packet EXCEPT ![<<r, "inbox">>] = None]) \/ packet' = packet
           /\ ack'[a].dir = ack[a].dir /\ ack'[a].todo = ack[a].todo /\ ack'[a].fresh = ack[a].fresh
<1>1. ack \in [Acks -> Progress]
  BY Zenon DEF TypeOK
<1>2. pc[a] = "archive" /\ pc' = pc /\ ((\E r : packet' = [packet EXCEPT ![<<r, "inbox">>] = None]) \/ packet' = packet)
  BY Zenon DEF Archive
<1>3. PICK r \in ack[a].inbox : ack' = [ack EXCEPT ![a].inbox = @ \ {r}]
  BY Zenon DEF Archive
<1>4. ack'[a] = [ack[a] EXCEPT !.inbox = @ \ {r}]
  BY <1>1, <1>3, Zenon
<1>5. ack[a] \in Progress
  BY <1>1
<1>6. ack'[a].dir = ack[a].dir /\ ack'[a].todo = ack[a].todo /\ ack'[a].fresh = ack[a].fresh
  BY <1>4, <1>5, Zenon DEF Progress
<1> QED
  BY <1>2, <1>6

\* An ack that is over, or gives up.
LEMMA AckEnds ==
    ASSUME TypeOK, NEW a \in Acks
    PROVE  /\ NoAck.fresh = FALSE
           /\ Swept(a) => /\ pc[a] = "sweep" /\ ack[a].todo = {}
                          /\ \/ pc'[a] = "archive" /\ ack[a].changed /\ ack' = ack
                             \/ pc'[a] = "done" /\ ~ack[a].changed /\ ack'[a] = NoAck
           /\ WriteFails(a) => pc[a] = "write" /\ pc'[a] = "dead" /\ ack'[a] = NoAck
           /\ AckReturns(a) => pc[a] = "archive" /\ pc'[a] = "done" /\ ack'[a] = NoAck
           /\ UpdateFails(a) => pc[a] = "update" /\ pc'[a] = "status" /\ ack' = ack
           /\ AckStatus(a) => /\ pc[a] = "status"
                              /\ \/ row # None /\ pc'[a] = "done" /\ ack'[a] = NoAck
                                 \/ row = None /\ Sweep(a, FALSE)
           /\ AckStatusFails(a) => pc[a] = "status" /\ Sweep(a, FALSE) /\ split' = (split \/ row # None)
           /\ Update(a) => /\ pc[a] = "update"
                           /\ \/ RowPending /\ row' = [row EXCEPT !.status = a] /\ Sweep(a, TRUE)
                              \/ pc'[a] = "status" /\ row' = row /\ ack' = ack
<1>1. pc \in [Acks \cup Requests -> Steps] /\ ack \in [Acks -> Progress]
  BY Zenon DEF TypeOK
<1>2. \A step : Goto(a, step) => pc'[a] = step
  BY <1>1, Zenon DEF Goto
<1>3. ack' = [ack EXCEPT ![a] = NoAck] => ack'[a] = NoAck
  BY <1>1, Zenon
<1>4. NoAck.fresh = FALSE
  BY Zenon DEF NoAck
<1>5. Swept(a) => /\ pc[a] = "sweep" /\ ack[a].todo = {}
                  /\ \/ pc'[a] = "archive" /\ ack[a].changed /\ ack' = ack
                     \/ pc'[a] = "done" /\ ~ack[a].changed /\ ack'[a] = NoAck
  BY <1>2, <1>3, Zenon DEF Swept
<1>6. WriteFails(a) => pc[a] = "write" /\ pc'[a] = "dead" /\ ack'[a] = NoAck
  BY <1>2, <1>3, Zenon DEF WriteFails
<1>7. AckReturns(a) => pc[a] = "archive" /\ pc'[a] = "done" /\ ack'[a] = NoAck
  BY <1>2, <1>3, Zenon DEF AckReturns
<1>8. UpdateFails(a) => pc[a] = "update" /\ pc'[a] = "status" /\ ack' = ack
  BY <1>2, Zenon DEF UpdateFails
<1>9. AckStatus(a) => /\ pc[a] = "status"
                      /\ \/ row # None /\ pc'[a] = "done" /\ ack'[a] = NoAck
                         \/ row = None /\ Sweep(a, FALSE)
  BY <1>2, <1>3, Zenon DEF AckStatus
<1>10. AckStatusFails(a) => pc[a] = "status" /\ Sweep(a, FALSE) /\ split' = (split \/ row # None)
  BY Zenon DEF AckStatusFails
<1>11. Update(a) => /\ pc[a] = "update"
                    /\ \/ RowPending /\ row' = [row EXCEPT !.status = a] /\ Sweep(a, TRUE)
                       \/ pc'[a] = "status" /\ row' = row /\ ack' = ack
  BY <1>2, Zenon DEF Update
<1> QED
  BY <1>4, <1>5, <1>6, <1>7, <1>8, <1>9, <1>10, <1>11

-----------------------------------------------------------------------------
(* What the other steps leave alone *)

\* The steps of a send move the send alone.
SendStep == SendOutbox \/ SendInbox \/ Store \/ StoreFails \/ SendReturns \/ SendFails

\* The steps that read, and the passing of time.
ReadStep == ListRows \/ ListKnown \/ ListAnswer \/ AwaitRow \/ AwaitFiles \/ Expire

LEMMA Names ==
    /\ "send" \notin Acks /\ "list" \notin Acks /\ "send" \in Requests /\ "list" \in Requests
    /\ "open" \notin Acks /\ "pending" \notin Acks /\ None \notin Acks
    /\ \A d \in Boxes : d # None
    /\ "open" # None /\ "none" # None /\ "failed" # None /\ "pending" # None
BY HandoffAssumption DEF Requests

LEMMA NoAckIs == NoAck.dir = None /\ NoAck.fresh = FALSE /\ NoAck.todo = {}
BY Zenon DEF NoAck

LEMMA NoListIs == NoList.rows = None /\ ~NoList.known /\ ~NoList.owed /\ ~NoList.settled
BY Zenon DEF NoList

LEMMA SendMoves ==
    ASSUME TypeOK, SendStep
    PROVE  /\ \A a \in Acks : pc'[a] = pc[a]
           /\ pc'["list"] = pc["list"]
           /\ SendOutbox => pc["send"] = "idle" /\ pc'["send"] = "inbox"
           /\ SendInbox => pc["send"] = "inbox" /\ pc'["send"] = "store"
           /\ Store \/ StoreFails => pc["send"] = "store" /\ pc'["send"] = "page"
           /\ SendReturns => pc["send"] = "page" /\ pc'["send"] = "idle"
           /\ SendFails => pc["send"] \in {"inbox", "page"} /\ pc'["send"] = "idle"
<1>1. pc \in [Acks \cup Requests -> Steps]
  BY Zenon DEF TypeOK
<1>2. \A step : Goto("send", step) => /\ \A a \in Acks : pc'[a] = pc[a]
                                      /\ pc'["list"] = pc["list"] /\ pc'["send"] = step
  BY <1>1, Names DEF Goto
<1>3. /\ SendOutbox => pc["send"] = "idle" /\ Goto("send", "inbox")
      /\ SendInbox => pc["send"] = "inbox" /\ Goto("send", "store")
      /\ Store \/ StoreFails => pc["send"] = "store" /\ Goto("send", "page")
      /\ SendReturns => pc["send"] = "page" /\ Goto("send", "idle")
      /\ SendFails => pc["send"] \in {"inbox", "page"} /\ Goto("send", "idle")
  BY Zenon DEF SendOutbox, SendInbox, Store, StoreFails, SendReturns, SendFails
<1> QED
  BY <1>2, <1>3, Zenon DEF SendStep

LEMMA ReadMoves ==
    ASSUME TypeOK, ReadStep
    PROVE  /\ \A a \in Acks : pc'[a] = pc[a]
           /\ pc'["send"] = pc["send"]
           /\ UNCHANGED <<row, packet, dirs, sent, ack, delivered, touched, settled, split>>
           /\ expired' = expired \/ expired' = expired + 1
           /\ ListRows \/ ListKnown \/ ListAnswer \/ (UNCHANGED list /\ pc' = pc)
<1>1. pc \in [Acks \cup Requests -> Steps]
  BY Zenon DEF TypeOK
<1>2. \A step : Goto("list", step) => /\ \A a \in Acks : pc'[a] = pc[a]
                                      /\ pc'["send"] = pc["send"]
  BY <1>1, Names DEF Goto
<1>3. ListRows \/ ListKnown \/ ListAnswer => \E step : Goto("list", step)
  BY Zenon DEF ListRows, ListKnown, ListAnswer
<1>4. AwaitRow \/ AwaitFiles \/ Expire => UNCHANGED <<pc, list>>
  BY Zenon DEF AwaitRow, AwaitFiles, Expire
<1>5. UNCHANGED <<row, packet, dirs, sent, ack, delivered, touched, settled, split>>
  BY Zenon DEF ReadStep, ListRows, ListKnown, ListAnswer, AwaitRow, AwaitFiles, Expire, lease, history
<1>6. expired' = expired \/ expired' = expired + 1
  BY Zenon DEF ReadStep, ListRows, ListKnown, ListAnswer, AwaitRow, AwaitFiles, Expire, lease
<1>7. UNCHANGED pc => (\A a \in Acks : pc'[a] = pc[a]) /\ pc'["send"] = pc["send"]
  OBVIOUS
<1> QED
  BY <1>2, <1>3, <1>4, <1>5, <1>6, <1>7, Zenon DEF ReadStep

LEMMA CrashMoves ==
    ASSUME TypeOK, Crash
    PROVE  /\ \A a \in Acks : /\ pc'[a] = IF pc[a] = "idle" THEN "idle"
                                          ELSE IF pc[a] = "done" THEN "done" ELSE "dead"
                              /\ ack'[a] = NoAck
           /\ pc'["send"] = "idle" /\ pc'["list"] = "rows" /\ list' = NoList
           /\ UNCHANGED <<row, packet, dirs, expired, sent, delivered, touched, settled, split>>
<1>1. pc \in [Acks \cup Requests -> Steps] /\ DOMAIN pc = Acks \cup Requests
  BY Zenon DEF TypeOK
<1>2. pc' = [r \in Acks \cup Requests |->
                 IF r = "list" THEN "rows" ELSE IF r = "send" \/ pc[r] = "idle" THEN "idle"
                 ELSE IF pc[r] = "done" THEN "done" ELSE "dead"]
  BY <1>1, Zenon DEF Crash
<1>3. \A a \in Acks : pc'[a] = IF pc[a] = "idle" THEN "idle"
                               ELSE IF pc[a] = "done" THEN "done" ELSE "dead"
  BY <1>2, Names
<1>4. pc'["send"] = "idle" /\ pc'["list"] = "rows"
  BY <1>2, Names
<1>5. (\A a \in Acks : ack'[a] = NoAck) /\ list' = NoList
  BY Zenon DEF Crash
<1>6. UNCHANGED <<row, packet, dirs, expired, sent, delivered, touched, settled, split>>
  BY Zenon DEF Crash, lease, history
<1> QED
  BY <1>3, <1>4, <1>5, <1>6

LEMMA AckMoves ==
    ASSUME TypeOK, NEW a \in Acks, AckStep(a)
    PROVE  /\ UNCHANGED <<dirs, expired, sent, list, delivered>>
           /\ pc'["send"] = pc["send"] /\ pc'["list"] = pc["list"]
           /\ \A b \in Acks : b # a => pc'[b] = pc[b] /\ ack'[b] = ack[b]
           /\ pc[a] \notin {"done", "dead"}
           /\ \/ AckStart(a)
              \/ pc[a] # "idle" /\ touched' = touched
           /\ \/ row' = row
              \/ Update(a) /\ RowPending /\ row' = [row EXCEPT !.status = a]
           /\ split => split'
           /\ AckReturns(a) \/ settled' = settled
           /\ settled => settled'
<1>1. pc \in [Acks \cup Requests -> Steps] /\ ack \in [Acks -> Progress]
  BY Zenon DEF TypeOK
<1>2. UNCHANGED <<dirs, expired, sent, list, delivered>>
  BY Zenon DEF AckStep, AckStart, Update, UpdateFails, AckStatus, AckStatusFails,
     EnterDirectory, LeaveDirectory, NextDirectory, ReadPacket, WritePacket, Write, WriteFails,
     Swept, Archive, AckReturns, lease, history
<1>3. pc'["send"] = pc["send"] /\ pc'["list"] = pc["list"] /\ \A b \in Acks : b # a => pc'[b] = pc[b]
  BY <1>1, AckGoes, Names
<1>4. \A b \in Acks : b # a => ack'[b] = ack[b]
  BY <1>1, AckKeepsOthers
<1>5. pc[a] \in {"idle", "update", "status", "sweep", "read", "write", "archive"}
  BY Zenon DEF AckStep, AckStart, Update, UpdateFails, AckStatus, AckStatusFails,
     EnterDirectory, LeaveDirectory, ReadPacket, WritePacket, Write, WriteFails,
     Swept, Archive, AckReturns
<1>6. AckStart(a) \/ (pc[a] # "idle" /\ touched' = touched)
  <2>1. ~AckStart(a) => touched' = touched
    BY Zenon DEF AckStep, Update, UpdateFails, AckStatus, AckStatusFails,
       EnterDirectory, LeaveDirectory, NextDirectory, ReadPacket, WritePacket, Write, WriteFails,
       Swept, Archive, AckReturns, history
  <2>2. ~AckStart(a) => pc[a] \in {"update", "status", "sweep", "read", "write", "archive"}
    BY Zenon DEF AckStep, Update, UpdateFails, AckStatus, AckStatusFails,
       EnterDirectory, LeaveDirectory, ReadPacket, WritePacket, Write, WriteFails,
       Swept, Archive, AckReturns
  <2> QED
    BY <2>1, <2>2
<1>7. row' = row \/ (Update(a) /\ RowPending /\ row' = [row EXCEPT !.status = a])
  BY Zenon DEF AckStep, AckStart, Update, UpdateFails, AckStatus, AckStatusFails,
     EnterDirectory, LeaveDirectory, NextDirectory, ReadPacket, WritePacket, Write, WriteFails,
     Swept, Archive, AckReturns, lease
<1>8. (split => split') /\ (AckReturns(a) \/ settled' = settled) /\ (settled => settled')
  <2>1. CASE AckStatusFails(a)
    BY <2>1, Zenon DEF AckStatusFails
  <2>2. CASE AckReturns(a)
    BY <2>2, Zenon DEF AckReturns
  <2>3. CASE ~AckStatusFails(a) /\ ~AckReturns(a)
    <3>1. UNCHANGED <<split, settled>>
      BY <2>3, Zenon DEF AckStep, AckStart, Update, UpdateFails, AckStatus, EnterDirectory,
         LeaveDirectory, NextDirectory, ReadPacket, WritePacket, Write, WriteFails, Swept,
         Archive, history
    <3> QED
      BY <3>1
  <2> QED
    BY <2>1, <2>2, <2>3
<1> QED
  BY <1>2, <1>3, <1>4, <1>5, <1>6, <1>7, <1>8

LEMMA NextSplit ==
    ASSUME [Next]_vars
    PROVE  SendStep \/ (\E a \in Acks : AckStep(a)) \/ ReadStep \/ Crash \/ UNCHANGED vars
BY Zenon DEF Next, SendStep, ReadStep

\* Only a send opens a packet, and only the one it publishes.
LEMMA PacketMoves ==
    ASSUME TypeOK, [Next]_vars, NEW k \in Packets, packet'[k] = "open", packet[k] # "open"
    PROVE  \/ SendOutbox /\ k = <<sent + 1, "outbox">>
           \/ SendInbox /\ k = <<sent, "inbox">>
<1>a. packet \in [Packets -> {None, "open"} \cup Acks]
  BY Zenon DEF TypeOK
<1> DEFINE Put(j, s) == packet' = [packet EXCEPT ![j] = s]
<1>b. \A j, s : Put(j, s) => k = j /\ s = "open"
  BY <1>a
<1>e. SendOutbox => Put(<<sent + 1, "outbox">>, "open")
  BY Zenon DEF SendOutbox
<1>f. SendInbox => Put(<<sent, "inbox">>, "open")
  BY Zenon DEF SendInbox
<1>g. \A a : WritePacket(a) => Put(<<ack[a].at, ack[a].dir>>, a)
  BY Zenon DEF WritePacket, Write
<1>h. \A a : Archive(a) => (\E r : Put(<<r, "inbox">>, None)) \/ UNCHANGED packet
  BY Zenon DEF Archive
<1> HIDE DEF Put
<1>2. ASSUME NEW a \in Acks, WritePacket(a) PROVE FALSE
  BY <1>2, <1>b, <1>g, Names, Zenon
<1>3. ASSUME NEW a \in Acks, Archive(a) PROVE FALSE
  BY <1>3, <1>b, <1>h, Names, Zenon
<1>4. ASSUME NEW a \in Acks, AckStep(a), ~WritePacket(a), ~Archive(a) PROVE UNCHANGED packet
  BY <1>4, Zenon DEF AckStep, AckStart, Update, UpdateFails, AckStatus, AckStatusFails,
     EnterDirectory, LeaveDirectory, NextDirectory, ReadPacket, WriteFails, Swept,
     AckReturns, lease
<1>5. Store \/ StoreFails \/ SendReturns \/ SendFails \/ ReadStep \/ Crash \/ UNCHANGED vars => UNCHANGED packet
  BY Zenon DEF Store, StoreFails, SendReturns, SendFails, ReadStep, ListRows, ListKnown, ListAnswer,
     AwaitRow, AwaitFiles, Expire, Crash, vars, lease
<1>6. SendOutbox \/ SendInbox
  BY <1>2, <1>3, <1>4, <1>5, NextSplit, Zenon DEF SendStep
<1> QED
  BY <1>6, <1>b, <1>e, <1>f, Zenon

-----------------------------------------------------------------------------
(* What is owed is shown *)

\* An upsert of a later round does not fail.
Restored == "ResendFails" \notin Faults

\* Nobody has begun to answer a round as long as no ack is under way since.
Quiet == ~touched => ~Acking

\* A round counts as delivered only between its send and the next.
Delivery ==
    /\ delivered => pc["send"] = "idle"
    /\ sent = 0 => ~delivered

\* An unanswered round is open in the inbox from its second packet on, ...
OpenInbox ==
    ~touched /\ (pc["send"] \in {"store", "page"} \/ delivered) => packet[<<sent, "inbox">>] = "open"

\* ... and its row waits or was never stored.
RowWaits ==
    ~touched /\ (pc["send"] = "page" \/ delivered)
        => row = None \/ row = [round |-> sent, status |-> "pending"]

\* A list that found no pending row for a round it owes knows no id either.
ListOwes ==
    list.owed => /\ delivered /\ list.rows # None
                 /\ ~touched /\ list.rows = "none" => row = None /\ ~list.known

Shown == Quiet /\ Delivery /\ OpenInbox /\ RowWaits /\ ListOwes

LEMMA InitShown == Init => Shown
<1> SUFFICES ASSUME Init PROVE Shown
  OBVIOUS
<1>1. /\ \A a \in Acks : pc[a] = "idle"
      /\ pc["send"] = "idle"
  BY Names DEF Init, Requests
<1>2. ~delivered /\ list = NoList
  BY DEF Init
<1> QED
  BY <1>1, <1>2, NoListIs DEF Shown, Quiet, Acking, Delivery, OpenInbox, RowWaits, ListOwes

\* While a round is unanswered no ack takes a step but its first.
LEMMA UntouchedAck ==
    ASSUME TypeOK, Quiet, NEW a \in Acks, AckStep(a)
    PROVE  touched' = TRUE
<1>1. pc[a] \notin {"done", "dead"} /\ (AckStart(a) \/ (pc[a] # "idle" /\ touched' = touched))
  BY AckMoves
<1>2. AckStart(a) => touched' = TRUE
  BY Zenon DEF AckStart
<1>3. touched \in BOOLEAN
  BY DEF TypeOK
<1> QED
  BY <1>1, <1>2, <1>3 DEF Quiet, Acking

LEMMA SendShown == Restored /\ TypeOK /\ Holding /\ Shown /\ SendStep => Shown'
<1> SUFFICES ASSUME Restored, TypeOK, Holding, Shown, SendStep PROVE Shown'
  OBVIOUS
<1>a. /\ \A a \in Acks : pc'[a] = pc[a]
      /\ SendOutbox => pc["send"] = "idle" /\ pc'["send"] = "inbox"
      /\ SendInbox => pc["send"] = "inbox" /\ pc'["send"] = "store"
      /\ Store \/ StoreFails => pc["send"] = "store" /\ pc'["send"] = "page"
      /\ SendReturns => pc["send"] = "page" /\ pc'["send"] = "idle"
      /\ SendFails => pc["send"] \in {"inbox", "page"} /\ pc'["send"] = "idle"
  BY SendMoves
<1>b. Acking' <=> Acking
  BY <1>a DEF Acking
<1>c. sent \in Nat /\ (pc["send"] # "idle" => sent \in Rounds /\ sent # 0)
  BY HandoffAssumption DEF Holding, Rounds, TypeOK
<1>1. CASE SendOutbox
  <2>1. touched' = Acking /\ delivered' = FALSE /\ sent' = sent + 1
    BY <1>1, Zenon DEF SendOutbox
  <2>2. list'.owed = FALSE
    <3>1. list \in Lists /\ list' = [list EXCEPT !.owed = FALSE, !.settled = FALSE]
      BY <1>1, Zenon DEF SendOutbox, TypeOK
    <3> QED
      BY <3>1, Zenon DEF Lists
  <2>3. pc'["send"] = "inbox" /\ sent' # 0
    BY <1>1, <1>a, <1>c, <2>1
  <2> QED
    BY <1>b, <2>1, <2>2, <2>3 DEF Shown, Quiet, Delivery, OpenInbox, RowWaits, ListOwes
<1>2. CASE SendInbox \/ Store \/ StoreFails \/ SendReturns \/ SendFails
  <2>1. UNCHANGED <<touched, sent, list>> /\ (delivered' = delivered \/ SendReturns)
    BY <1>2, Zenon DEF SendInbox, Store, StoreFails, SendReturns, SendFails, history
  <2>2. ~delivered /\ ~list.owed /\ sent # 0
    BY <1>2, <1>a, <1>c DEF Shown, Delivery, ListOwes
  <2>3. SendInbox => packet'[<<sent, "inbox">>] = "open" /\ row' = row /\ delivered' = delivered
    <3>1. packet \in [Packets -> {None, "open"} \cup Acks]
      BY Zenon DEF TypeOK
    <3>2. SendInbox => /\ packet' = [packet EXCEPT ![<<sent, "inbox">>] = "open"]
                       /\ row' = row /\ delivered' = delivered
      BY Zenon DEF SendInbox, history
    <3>3. SendInbox => <<sent, "inbox">> \in Packets
      BY <1>a, <1>c DEF Packets, Boxes
    <3> QED
      BY <3>1, <3>2, <3>3, <2>2
  <2>4. Store => packet' = packet /\ row' = [round |-> sent, status |-> "pending"] /\ delivered' = delivered
    BY <2>2, Zenon DEF Store, history
  <2>5. StoreFails => packet' = packet /\ row' = row /\ row = None /\ delivered' = delivered
    BY <2>2, Zenon DEF StoreFails, lease, history, Restored
  <2>6. SendReturns \/ SendFails => packet' = packet /\ row' = row /\ (SendFails => delivered' = delivered)
    BY <2>2, Zenon DEF SendReturns, SendFails, lease, history
  <2>7. Quiet'
    BY <1>b, <2>1 DEF Shown, Quiet
  <2>8. Delivery'
    BY <1>2, <1>a, <2>1, <2>2 DEF Delivery
  <2>9. OpenInbox'
    BY <1>2, <1>a, <2>1, <2>2, <2>3, <2>4, <2>5, <2>6 DEF Shown, OpenInbox
  <2>10. RowWaits'
    BY <1>2, <1>a, <2>1, <2>2, <2>3, <2>4, <2>5, <2>6 DEF Shown, RowWaits
  <2>11. ListOwes'
    BY <2>1, <2>2 DEF ListOwes
  <2> QED
    BY <2>7, <2>8, <2>9, <2>10, <2>11 DEF Shown
<1> QED
  BY <1>1, <1>2, Zenon DEF SendStep

LEMMA ListShown == TypeOK /\ Shown /\ ReadStep => ListOwes'
<1> SUFFICES ASSUME TypeOK, Shown, ReadStep PROVE ListOwes'
  OBVIOUS
<1>a. list \in Lists /\ NoList \in Lists
  BY Zenon DEF TypeOK, NoList, Lists
<1>b. UNCHANGED <<row, touched, delivered>>
  BY ReadMoves
<1>c. expired \in Nat /\ sent \in Nat
  BY HandoffAssumption DEF TypeOK
<1>1. CASE ListRows
  <2> DEFINE rows(up) == IF ~up THEN "failed" ELSE IF RowPending THEN "pending" ELSE "none"
             owed     == Owed
  <2>1. PICK up \in BOOLEAN :
          list' = [NoList EXCEPT !.rows = rows(up), !.owed = owed, !.settled = settled]
    BY <1>1, Zenon DEF ListRows
  <2> HIDE DEF rows, owed
  <2>2. list'.rows = rows(up) /\ list'.owed = owed /\ list'.known = NoList.known
    BY <1>a, <2>1, Zenon DEF Lists
  <2>3. rows(up) # None /\ (rows(up) = "none" => ~RowPending)
    BY Names DEF rows
  <2>4. owed => delivered /\ ~touched /\ sent > expired
    BY DEF owed, Owed
  <2>5. owed /\ ~RowPending => row = None
    BY <1>c, <2>4 DEF Shown, RowWaits, RowPending
  <2> QED
    BY <1>b, <2>2, <2>3, <2>4, <2>5, NoListIs DEF ListOwes
<1>2. CASE ListKnown
  <2> DEFINE known(up) == list.rows = "pending" \/ (up /\ row # None)
             kept(up)  == list.settled /\ up
  <2>1. PICK up \in BOOLEAN : list' = [list EXCEPT !.known = known(up), !.settled = kept(up)]
    BY <1>2, Zenon DEF ListKnown
  <2> HIDE DEF known, kept
  <2>2. list'.rows = list.rows /\ list'.owed = list.owed /\ list'.known = known(up)
    BY <1>a, <2>1, Zenon DEF Lists
  <2>3. list.rows = "none" /\ row = None => ~known(up)
    BY DEF known
  <2> QED
    BY <1>b, <2>2, <2>3 DEF Shown, ListOwes
<1>3. CASE ListAnswer
  <2>1. list' = NoList
    BY <1>3, Zenon DEF ListAnswer
  <2> QED
    BY <2>1, NoListIs DEF ListOwes
<1>4. CASE UNCHANGED list
  BY <1>4, <1>b DEF Shown, ListOwes
<1> QED
  BY <1>1, <1>2, <1>3, <1>4, ReadMoves

LEMMA StepShown == Restored /\ TypeOK /\ Holding /\ Shown /\ [Next]_vars => Shown'
<1> SUFFICES ASSUME Restored, TypeOK, Holding, Shown, [Next]_vars PROVE Shown'
  OBVIOUS
<1>1. CASE SendStep
  BY <1>1, SendShown
<1>2. ASSUME NEW a \in Acks, AckStep(a) PROVE Shown'
  <2>1. touched' = TRUE
    BY <1>2, UntouchedAck DEF Shown
  <2>2. UNCHANGED <<sent, list, delivered>> /\ pc'["send"] = pc["send"]
    BY <1>2, AckMoves
  <2> QED
    BY <2>1, <2>2 DEF Shown, Quiet, Delivery, OpenInbox, RowWaits, ListOwes
<1>3. CASE ReadStep
  <2>1. /\ \A a \in Acks : pc'[a] = pc[a]
        /\ pc'["send"] = pc["send"]
        /\ UNCHANGED <<row, packet, sent, delivered, touched>>
    BY <1>3, ReadMoves
  <2>2. ListOwes'
    BY <1>3, ListShown
  <2> QED
    BY <2>1, <2>2 DEF Shown, Quiet, Acking, Delivery, OpenInbox, RowWaits
<1>4. CASE Crash
  <2>1. /\ \A a \in Acks : pc'[a] \in {"idle", "done", "dead"}
        /\ pc'["send"] = "idle" /\ list' = NoList
        /\ UNCHANGED <<row, packet, sent, delivered, touched>>
    BY <1>4, CrashMoves
  <2> QED
    BY <2>1, NoListIs DEF Shown, Quiet, Acking, Delivery, OpenInbox, RowWaits, ListOwes
<1>5. CASE UNCHANGED vars
  <2>1. UNCHANGED <<row, packet, sent, pc, list, delivered, touched>>
    BY <1>5, Zenon DEF vars, lease, history
  <2> QED
    BY <2>1 DEF Shown, Quiet, Acking, Delivery, OpenInbox, RowWaits, ListOwes
<1> QED
  BY <1>1, <1>2, <1>3, <1>4, <1>5, NextSplit

\* As long as the upsert of a later round does not fail, and whatever else does,
\* a delivered handoff nobody has begun to answer is not missing from an answer
\* that claims to be complete (handle_list_pending_handoffs).
THEOREM OwedIsShown == ASSUME Restored PROVE Spec => NothingOwedIsHidden
<1>1. Init => TypeOK /\ Holding /\ Shown
  BY InitTypeOK, InitShown
<1>2. TypeOK /\ Holding /\ Shown /\ [Next]_vars => (TypeOK /\ Holding /\ Shown)'
  BY Restored, StepTypeOK, StepShown
<1>3. ASSUME TypeOK, Holding, Shown, ListAnswer, Answer = "empty", list.owed, Owed PROVE FALSE
  <2>1. delivered /\ ~touched /\ sent > expired
    BY <1>3 DEF Owed
  <2>2. sent \in Rounds
    BY <1>3, <2>1, HandoffAssumption DEF Shown, Delivery, TypeOK, Rounds
  <2>3. packet[<<sent, "inbox">>] = "open"
    BY <1>3, <2>1 DEF Shown, OpenInbox
  <2>4. OnFile
    BY <2>1, <2>2, <2>3 DEF OnFile
  <2>5. list.rows # "pending" /\ list.rows # "failed" /\ list.known
    BY <1>3, <2>4 DEF Answer
  <2>6. list.rows = "none"
    <3>1. list \in Lists
      BY <1>3, Zenon DEF TypeOK
    <3>2. list.rows \in {None, "pending", "none", "failed"}
      BY <3>1, Zenon DEF Lists
    <3> QED
      BY <1>3, <2>5, <3>2 DEF Shown, ListOwes
  <2> QED
    BY <1>3, <2>1, <2>5, <2>6 DEF Shown, ListOwes
<1>4. TypeOK /\ Holding /\ Shown /\ [Next]_vars
        => [ListAnswer => ~(Answer = "empty" /\ list.owed /\ Owed)]_vars
  BY <1>3
<1> QED
  BY <1>1, <1>2, <1>4, PTL DEF Spec, NothingOwedIsHidden

-----------------------------------------------------------------------------
(* The files follow the row *)

\* An ack has still to write the packet of round r in directory d.
Left(a, d, r) == ack[a].dir = d /\ (r \in ack[a].files \/ (pc[a] = "write" /\ ack[a].at = r))

\* Of a directory it will not enter again, an ack has every packet at hand that
\* is open and has not expired.
Cleared(a, d) ==
    \/ d \in ack[a].todo
    \/ \A r \in Rounds : packet[<<r, d>>] = "open" /\ r > expired => Left(a, d, r)

\* No packet of the directory is open but expired ones.
Clean(d) == \A r \in Rounds : packet[<<r, d>>] = "open" => ~(r > expired)

\* Outside its directories an ack is in none, and it archives after the last.
Place ==
    \A a \in Acks : /\ pc[a] \in {"update", "status", "sweep", "archive"} => ack[a].dir = None
                    /\ pc[a] = "archive" => ack[a].todo = {}

\* The row is of a round that was begun, and of an earlier one than the send
\* that is about to store.
RowRound ==
    /\ row # None => row.round <= sent
    /\ pc["send"] \in {"inbox", "store"} /\ row # None => row.round < sent

\* Ack a is dead, has every directory cleared on its way, or has left them clean.
SweptBy(a) ==
    \/ pc[a] = "dead"
    \/ pc[a] \in Sweeping /\ \A d \in dirs : Cleared(a, d)
    \/ pc[a] = "done" /\ \A d \in dirs : Clean(d)

RowSwept == \A a \in Acks : row # None /\ row.status = a /\ row.round = sent => SweptBy(a)

LEMMA InitPlace == Init => Place /\ RowRound /\ RowSwept
<1> SUFFICES ASSUME Init PROVE Place /\ RowRound /\ RowSwept
  OBVIOUS
<1>1. row = None /\ \A a \in Acks : pc[a] = "idle"
  BY Names DEF Init
<1> QED
  BY <1>1 DEF Place, RowRound, RowSwept

LEMMA StepPlace == TypeOK /\ Place /\ [Next]_vars => Place'
<1> SUFFICES ASSUME TypeOK, Place, [Next]_vars PROVE Place'
  OBVIOUS
<1> DEFINE At(a) == /\ pc'[a] \in {"update", "status", "sweep", "archive"} => ack'[a].dir = None
                    /\ pc'[a] = "archive" => ack'[a].todo = {}
<1>1. CASE SendStep
  <2>1. \A a \in Acks : pc'[a] = pc[a]
    BY <1>1, SendMoves
  <2>2. \A a \in Acks : ack'[a].dir = ack[a].dir /\ ack'[a].todo = ack[a].todo
    <3>1. CASE SendOutbox
      <4>1. ack' = [a \in Acks |-> [ack[a] EXCEPT !.fresh = FALSE]] /\ ack \in [Acks -> Progress]
        BY <3>1, Zenon DEF SendOutbox, TypeOK
      <4> QED
        BY <4>1, Zenon DEF Progress
    <3>2. CASE ~SendOutbox
      BY <1>1, <3>2, Zenon DEF SendStep, SendInbox, Store, StoreFails, SendReturns, SendFails
    <3> QED
      BY <3>1, <3>2
  <2> QED
    BY <2>1, <2>2 DEF Place
<1>2. ASSUME NEW b \in Acks, AckStep(b) PROVE \A a \in Acks : At(a)
  <2>1. \A a \in Acks : a # b => pc'[a] = pc[a] /\ ack'[a] = ack[a]
    BY <1>2, AckMoves
  <2>2. At(b)
    <3>a. /\ pc[b] \in {"update", "status", "sweep", "archive"} => ack[b].dir = None
          /\ pc[b] = "archive" => ack[b].todo = {}
      BY DEF Place
    <3>1. CASE AckStart(b)
      BY <3>1, FreshStart
    <3>2. CASE Update(b) \/ UpdateFails(b) \/ AckStatus(b) \/ AckStatusFails(b)
      <4>1. \/ pc'[b] \in {"status", "done"} /\ pc[b] = "update" /\ ack' = ack
            \/ pc'[b] = "done"
            \/ pc[b] \in {"update", "status"} /\ \E c \in BOOLEAN : Sweep(b, c)
        BY <3>2, AckEnds
      <4>2. \A c \in BOOLEAN : Sweep(b, c) => pc'[b] = "sweep" /\ ack'[b].dir = ack[b].dir
        BY SweepBegins
      <4> QED
        BY <3>a, <4>1, <4>2
    <3>3. CASE EnterDirectory(b) \/ ReadPacket(b) \/ WritePacket(b)
      <4>1. pc'[b] \in {"read", "write"}
        BY <3>3, DirectoryEntered, PacketRead, PacketWritten
      <4> QED
        BY <4>1
    <3>4. CASE LeaveDirectory(b)
      BY <3>4, DirectoryLeft
    <3>5. CASE WriteFails(b) \/ Swept(b) \/ AckReturns(b)
      <4>1. \/ pc'[b] \in {"dead", "done"}
            \/ pc[b] = "sweep" /\ ack[b].todo = {} /\ ack' = ack
        BY <3>5, AckEnds
      <4> QED
        BY <3>a, <4>1
    <3>6. CASE Archive(b)
      <4>1. pc[b] = "archive" /\ pc' = pc /\ ack'[b].dir = ack[b].dir /\ ack'[b].todo = ack[b].todo
        BY <3>6, Archived
      <4> QED
        BY <3>a, <4>1
    <3> QED
      BY <1>2, <3>1, <3>2, <3>3, <3>4, <3>5, <3>6, Zenon DEF AckStep
  <2> QED
    BY <2>1, <2>2 DEF Place
<1>3. CASE ReadStep
  <2>1. (\A a \in Acks : pc'[a] = pc[a]) /\ ack' = ack
    BY <1>3, ReadMoves
  <2> QED
    BY <2>1 DEF Place
<1>4. CASE Crash
  <2>1. \A a \in Acks : pc'[a] \in {"idle", "done", "dead"}
    BY <1>4, CrashMoves
  <2> QED
    BY <2>1 DEF Place
<1>5. CASE UNCHANGED vars
  <2>1. UNCHANGED <<pc, ack>>
    BY <1>5, Zenon DEF vars
  <2> QED
    BY <2>1 DEF Place
<1>6. (\A a \in Acks : At(a)) => Place'
  BY Zenon DEF Place
<1> HIDE DEF At
<1> QED
  BY <1>1, <1>2, <1>3, <1>4, <1>5, <1>6, NextSplit

LEMMA StepRowRound == TypeOK /\ RowRound /\ [Next]_vars => RowRound'
<1> SUFFICES ASSUME TypeOK, RowRound, [Next]_vars PROVE RowRound'
  OBVIOUS
<1>a. sent \in Nat /\ row \in Rows \cup {None} /\ (row # None => row.round \in Nat)
  <2>1. sent \in Nat /\ row \in Rows \cup {None}
    BY HandoffAssumption DEF TypeOK
  <2>2. row \in Rows => row.round \in Rounds
    BY DEF Rows
  <2> QED
    BY <2>1, <2>2 DEF Rounds
<1>1. CASE SendStep
  <2>a. /\ SendOutbox => pc["send"] = "idle" /\ pc'["send"] = "inbox"
        /\ SendInbox => pc["send"] = "inbox" /\ pc'["send"] = "store"
        /\ Store \/ StoreFails => pc["send"] = "store" /\ pc'["send"] = "page"
        /\ SendReturns => pc["send"] = "page" /\ pc'["send"] = "idle"
        /\ SendFails => pc["send"] \in {"inbox", "page"} /\ pc'["send"] = "idle"
    BY <1>1, SendMoves
  <2>1. SendOutbox => row' = row /\ sent' = sent + 1
    BY Zenon DEF SendOutbox
  <2>2. Store => row' = [round |-> sent, status |-> "pending"] /\ sent' = sent
    BY Zenon DEF Store
  <2>3. SendInbox \/ StoreFails \/ SendReturns \/ SendFails => row' = row /\ sent' = sent
    BY Zenon DEF SendInbox, StoreFails, SendReturns, SendFails, lease
  <2>4. CASE SendOutbox
    BY <1>a, <2>a, <2>1, <2>4 DEF RowRound
  <2>5. CASE Store
    BY <1>a, <2>a, <2>2, <2>5 DEF RowRound
  <2>6. CASE SendInbox \/ StoreFails \/ SendReturns \/ SendFails
    BY <1>a, <2>a, <2>3, <2>6 DEF RowRound
  <2> QED
    BY <1>1, <2>4, <2>5, <2>6, Zenon DEF SendStep
<1>2. ASSUME NEW a \in Acks, AckStep(a) PROVE RowRound'
  <2>1. sent' = sent /\ pc'["send"] = pc["send"]
    BY <1>2, AckMoves
  <2>2. row' = row \/ (row # None /\ row' # None /\ row'.round = row.round)
    <3>1. row' = row \/ (RowPending /\ row' = [row EXCEPT !.status = a])
      BY <1>2, AckMoves
    <3>2. row \in Rows => [row EXCEPT !.status = a] \in Rows
      BY Zenon DEF Rows
    <3>3. row \in Rows => [row EXCEPT !.status = a].round = row.round
      BY Zenon DEF Rows
    <3>4. None \notin Rows
      BY HandoffAssumption
    <3> QED
      BY <1>a, <3>1, <3>2, <3>3, <3>4 DEF RowPending
  <2> QED
    BY <2>1, <2>2 DEF RowRound
<1>3. CASE ReadStep
  <2>1. UNCHANGED <<row, sent>> /\ pc'["send"] = pc["send"]
    BY <1>3, ReadMoves
  <2> QED
    BY <2>1 DEF RowRound
<1>4. CASE Crash
  <2>1. UNCHANGED <<row, sent>> /\ pc'["send"] = "idle"
    BY <1>4, CrashMoves
  <2> QED
    BY <2>1 DEF RowRound
<1>5. CASE UNCHANGED vars
  <2>1. UNCHANGED <<row, sent, pc>>
    BY <1>5, Zenon DEF vars, lease
  <2> QED
    BY <2>1 DEF RowRound
<1> QED
  BY <1>1, <1>2, <1>3, <1>4, <1>5, NextSplit

\* No step but the send that publishes it opens a packet again.
LEMMA CleanKept ==
    ASSUME TypeOK, [Next]_vars, ~SendOutbox, ~SendInbox, NEW d \in Boxes, Clean(d)
    PROVE  Clean(d)'
<1>1. \A r \in Rounds : <<r, d>> \in Packets
  BY DEF Packets
<1>2. \A r \in Rounds : packet'[<<r, d>>] = "open" => packet[<<r, d>>] = "open"
  BY <1>1, PacketMoves
<1>3. expired \in Int /\ (expired' = expired \/ expired' = expired + 1)
  <2>1. (\E a \in Acks : AckStep(a)) => expired' = expired
    BY AckMoves
  <2>2. SendStep => expired' = expired
    BY Zenon DEF SendStep, SendOutbox, SendInbox, Store, StoreFails, SendReturns, SendFails, lease
  <2>3. Crash => expired' = expired
    BY CrashMoves
  <2>4. UNCHANGED vars => expired' = expired
    BY Zenon DEF vars, lease
  <2>5. expired \in Int
    BY HandoffAssumption DEF TypeOK
  <2> QED
    BY <2>1, <2>2, <2>3, <2>4, <2>5, ReadMoves, NextSplit
<1>4. \A r \in Rounds : r > expired' => r > expired
  BY <1>3 DEF Rounds
<1> QED
  BY <1>2, <1>4 DEF Clean

\* The same for the directory of an ack that neither moves nor enters another.
LEMMA ClearedStays ==
    ASSUME TypeOK, [Next]_vars, ~SendOutbox, ~SendInbox, NEW d \in Boxes, NEW a \in Acks,
           pc'[a] = pc[a], ack'[a] = ack[a], expired' \in {expired, expired + 1}, Cleared(a, d)
    PROVE  Cleared(a, d)'
<1>1. \A r \in Rounds : <<r, d>> \in Packets
  BY DEF Packets
<1>2. \A r \in Rounds : packet'[<<r, d>>] = "open" => packet[<<r, d>>] = "open"
  BY <1>1, PacketMoves
<1>3. expired \in Int
  BY HandoffAssumption DEF TypeOK
<1>4. \A r \in Rounds : r > expired' => r > expired
  BY <1>3 DEF Rounds
<1> QED
  BY <1>2, <1>4 DEF Cleared, Left

\* An ack between two directories, or after the last, has nothing at hand.
LEMMA NothingLeft ==
    ASSUME Place, NEW a \in Acks, pc[a] \in {"sweep", "archive"}, ack[a].todo = {},
           NEW d \in Boxes, Cleared(a, d)
    PROVE  Clean(d)
<1>1. ack[a].dir = None /\ d # None
  BY Names DEF Place
<1> QED
  BY <1>1 DEF Cleared, Left, Clean

\* An ack that begins to sweep has every directory before it.
LEMMA SweepClears ==
    ASSUME TypeOK, NEW a \in Acks, NEW b \in BOOLEAN, Sweep(a, b), dirs' = dirs
    PROVE  pc'[a] = "sweep" /\ \A d \in dirs' : Cleared(a, d)'
<1>1. pc'[a] = "sweep" /\ ack'[a].todo = dirs
  BY SweepBegins
<1> QED
  BY <1>1 DEF Cleared

\* The step of an ack is none of a send.
LEMMA AckAlone ==
    ASSUME TypeOK, NEW a \in Acks, AckStep(a)
    PROVE  [Next]_vars /\ ~SendStep
<1>1. [Next]_vars
  BY Zenon DEF Next
<1>2. sent' = sent /\ pc'["send"] = pc["send"] /\ sent \in Nat
  BY AckMoves, HandoffAssumption DEF TypeOK
<1>3. SendOutbox => sent' = sent + 1
  BY Zenon DEF SendOutbox
<1>4. SendStep => SendOutbox \/ pc'["send"] # pc["send"]
  BY SendMoves DEF SendStep
<1> QED
  BY <1>1, <1>2, <1>3, <1>4

\* An ack on its way goes on, dies, or ends having swept or archived.
LEMMA SweepLeads ==
    ASSUME TypeOK, NEW a \in Acks, AckStep(a), pc[a] \in Sweeping
    PROVE  /\ pc'[a] \in Sweeping \cup {"done", "dead"}
           /\ pc'[a] = "done" => Swept(a) \/ AckReturns(a)
<1>1. /\ EnterDirectory(a) => pc'[a] = "read"
      /\ ReadPacket(a) => pc'[a] = "write"
      /\ LeaveDirectory(a) => pc'[a] = "sweep"
      /\ WritePacket(a) => pc'[a] = "read"
      /\ WriteFails(a) => pc'[a] = "dead"
      /\ Swept(a) => pc'[a] \in {"archive", "done"}
      /\ AckReturns(a) => pc'[a] = "done"
      /\ Archive(a) => pc[a] = "archive" /\ pc' = pc
  BY DirectoryEntered, PacketRead, DirectoryLeft, PacketWritten, AckEnds, Archived
<1>2. AckStart(a) \/ Update(a) \/ UpdateFails(a) \/ AckStatus(a) \/ AckStatusFails(a)
        => pc[a] \in {"idle", "update", "status"}
  BY Zenon DEF AckStart, Update, UpdateFails, AckStatus, AckStatusFails
<1> QED
  BY <1>1, <1>2 DEF AckStep, Sweeping

\* An ack on its way through the directories loses no packet.
LEMMA SweepKeeps ==
    ASSUME TypeOK, Place, NEW a \in Acks, AckStep(a), NEW d \in Boxes, Cleared(a, d),
           pc[a] \in Sweeping, pc'[a] \in Sweeping
    PROVE  Cleared(a, d)'
<1>a. \A r \in Rounds : <<r, d>> \in Packets
  BY DEF Packets
<1>b. [Next]_vars /\ ~SendOutbox /\ ~SendInbox
  BY AckAlone, Zenon DEF SendStep
<1>c. \A r \in Rounds : packet'[<<r, d>>] = "open" => packet[<<r, d>>] = "open"
  BY <1>a, <1>b, PacketMoves
<1>d. expired' = expired
  BY AckMoves
<1>e. d # None /\ (pc[a] \in {"sweep", "archive"} => ack[a].dir = None)
  BY Names DEF Place
<1> DEFINE Open(r) == packet[<<r, d>>] = "open" /\ r > expired
<1>f. \A r \in Rounds : packet'[<<r, d>>] = "open" /\ r > expired' => Open(r)
  BY <1>c, <1>d
<1>g. d \in ack[a].todo \/ \A r \in Rounds : Open(r) => Left(a, d, r)
  BY DEF Cleared
<1>1. CASE EnterDirectory(a)
  <2>1. PICK e \in ack[a].todo :
           /\ pc[a] = "sweep" /\ pc'[a] = "read" /\ ack'[a].todo = ack[a].todo \ {e} /\ ack'[a].dir = e
           /\ ack'[a].files = {r \in Rounds : packet[<<r, e>>] # None}
    BY <1>1, DirectoryEntered
  <2>2. CASE d = e
    <3>1. \A r \in Rounds : Open(r) => r \in ack'[a].files
      BY <2>1, <2>2, Names
    <3> QED
      BY <1>f, <2>1, <2>2, <3>1 DEF Cleared, Left
  <2>3. CASE d # e
    BY <1>e, <1>f, <1>g, <2>1, <2>3 DEF Cleared, Left
  <2> QED
    BY <2>2, <2>3
<1>2. CASE ReadPacket(a)
  <2>1. PICK r \in ToChange(a) :
           /\ pc[a] = "read" /\ pc'[a] = "write" /\ ack'[a].files = ack[a].files \ {r} /\ ack'[a].at = r
           /\ ack'[a].dir = ack[a].dir /\ ack'[a].todo = ack[a].todo
    BY <1>2, PacketRead
  <2> QED
    BY <1>f, <1>g, <2>1 DEF Cleared, Left
<1>3. CASE LeaveDirectory(a)
  <2>1. /\ pc[a] = "read" /\ pc'[a] = "sweep" /\ ToChange(a) = {}
        /\ ack'[a].todo = ack[a].todo
    BY <1>3, DirectoryLeft
  <2>2. \A r \in Rounds : Open(r) => ~Left(a, d, r)
    BY <2>1 DEF Left, ToChange
  <2> QED
    BY <1>f, <1>g, <2>1, <2>2 DEF Cleared
<1>4. CASE WritePacket(a)
  <2>1. /\ pc[a] = "write" /\ pc'[a] = "read"
        /\ packet' = [packet EXCEPT ![<<ack[a].at, ack[a].dir>>] = a]
        /\ ack'[a].dir = ack[a].dir /\ ack'[a].todo = ack[a].todo /\ ack'[a].files = ack[a].files
    BY <1>4, PacketWritten
  <2>2. packet \in [Packets -> {None, "open"} \cup Acks]
    BY Zenon DEF TypeOK
  <2>3. \A r \in Rounds : ack[a].dir = d /\ ack[a].at = r => packet'[<<r, d>>] # "open"
    BY <1>a, <2>1, <2>2, Names
  <2> QED
    BY <1>f, <1>g, <2>1, <2>3 DEF Cleared, Left
<1>5. CASE Archive(a)
  <2>1. pc[a] = "archive" /\ ack'[a].todo = ack[a].todo
    BY <1>5, Archived
  <2> QED
    BY <1>e, <1>f, <1>g, <2>1 DEF Cleared, Left
<1>6. CASE Swept(a)
  <2>1. pc[a] = "sweep" /\ pc'[a] = "archive" /\ ack' = ack
    BY <1>6, AckEnds DEF Sweeping
  <2> QED
    BY <1>e, <1>f, <1>g, <2>1 DEF Cleared, Left
<1>7. CASE WriteFails(a) \/ AckReturns(a)
  <2>1. pc'[a] \in {"dead", "done"}
    BY <1>7, AckEnds
  <2> QED
    BY <2>1 DEF Sweeping
<1>8. CASE AckStart(a) \/ Update(a) \/ UpdateFails(a) \/ AckStatus(a) \/ AckStatusFails(a)
  <2>1. pc[a] \in {"idle", "update", "status"}
    BY <1>8, Zenon DEF AckStart, Update, UpdateFails, AckStatus, AckStatusFails
  <2> QED
    BY <2>1 DEF Sweeping
<1> QED
  BY <1>1, <1>2, <1>3, <1>4, <1>5, <1>6, <1>7, <1>8, Zenon DEF AckStep

\* An ack on its way dies, ends with every directory clean, or goes on.
LEMMA SweepGoes ==
    ASSUME TypeOK, Place, NEW a \in Acks, AckStep(a), pc[a] \in Sweeping, SweptBy(a)
    PROVE  SweptBy(a)'
<1>0. \A d \in dirs : Cleared(a, d)
  BY DEF SweptBy, Sweeping
<1>a. dirs' = dirs /\ dirs \subseteq Boxes
  BY AckMoves DEF TypeOK, Boxes
<1>1. CASE pc'[a] \in Sweeping
  BY <1>0, <1>1, <1>a, SweepKeeps DEF SweptBy
<1>2. CASE pc'[a] = "done"
  <2>1. Swept(a) \/ AckReturns(a)
    BY <1>2, SweepLeads
  <2>2. pc[a] \in {"sweep", "archive"} /\ ack[a].todo = {}
    BY <2>1, AckEnds DEF Place
  <2>3. [Next]_vars /\ ~SendOutbox /\ ~SendInbox
    BY AckAlone, Zenon DEF SendStep
  <2>4. \A d \in dirs : Clean(d)
    BY <1>0, <1>a, <2>2, NothingLeft
  <2> QED
    BY <1>2, <1>a, <2>3, <2>4, CleanKept DEF SweptBy
<1>3. CASE pc'[a] = "dead"
  BY <1>3 DEF SweptBy
<1> QED
  BY <1>1, <1>2, <1>3, SweepLeads

\* A step that leaves an ack and the packets alone leaves them swept.
LEMMA SweptStays ==
    ASSUME TypeOK, [Next]_vars, ~SendOutbox, ~SendInbox, dirs' = dirs,
           expired' \in {expired, expired + 1}, NEW a \in Acks, pc'[a] = pc[a],
           ack'[a] = ack[a] \/ pc[a] = "done", SweptBy(a)
    PROVE  SweptBy(a)'
<1>a. dirs \subseteq Boxes
  BY DEF TypeOK, Boxes
<1>1. CASE pc[a] = "dead"
  BY <1>1 DEF SweptBy
<1>2. CASE pc[a] \in Sweeping /\ \A d \in dirs : Cleared(a, d)
  <2>1. ack'[a] = ack[a]
    BY <1>2 DEF Sweeping
  <2>2. \A d \in dirs : Cleared(a, d)'
    BY <1>a, <1>2, <2>1, ClearedStays
  <2> QED
    BY <1>2, <2>2 DEF SweptBy
<1>3. CASE pc[a] = "done" /\ \A d \in dirs : Clean(d)
  <2>1. \A d \in dirs : Clean(d)'
    BY <1>a, <1>3, CleanKept
  <2> QED
    BY <1>3, <2>1 DEF SweptBy
<1> QED
  BY <1>1, <1>2, <1>3 DEF SweptBy

LEMMA StepRowSwept == TypeOK /\ Place /\ RowRound /\ RowSwept /\ [Next]_vars => RowSwept'
<1> SUFFICES ASSUME TypeOK, Place, RowRound, RowSwept, [Next]_vars, NEW a \in Acks,
                    row' # None, row'.status = a, row'.round = sent'
             PROVE  SweptBy(a)'
  BY DEF RowSwept
<1>a. sent \in Nat /\ row \in Rows \cup {None} /\ (row \in Rows => row.round \in Nat) /\ a # "pending"
  BY HandoffAssumption DEF TypeOK, Rows, Rounds
<1>b. row' = row /\ sent' = sent => SweptBy(a)
  BY DEF RowSwept
<1>1. CASE SendStep
  <2>a. pc'[a] = pc[a] /\ (SendInbox => pc["send"] = "inbox")
    BY <1>1, SendMoves
  <2>1. CASE SendOutbox
    <3>1. row' = row /\ sent' = sent + 1
      BY <2>1, Zenon DEF SendOutbox
    <3> QED
      BY <1>a, <3>1 DEF RowRound
  <2>2. CASE SendInbox
    <3>1. row' = row /\ sent' = sent
      BY <2>2, Zenon DEF SendInbox
    <3> QED
      BY <1>a, <2>a, <2>2, <3>1 DEF RowRound
  <2>3. CASE Store
    <3>1. row' = [round |-> sent, status |-> "pending"]
      BY <2>3, Zenon DEF Store
    <3> QED
      BY <1>a, <3>1
  <2>4. CASE ~SendOutbox /\ ~SendInbox /\ ~Store
    <3>1. UNCHANGED <<row, sent, dirs, expired, ack>>
      BY <1>1, <2>4, Zenon DEF SendStep, StoreFails, SendReturns, SendFails, lease
    <3> QED
      BY <1>b, <2>a, <2>4, <3>1, SweptStays
  <2> QED
    BY <2>1, <2>2, <2>3, <2>4
<1>2. ASSUME NEW b \in Acks, AckStep(b) PROVE SweptBy(a)'
  <2>a. /\ UNCHANGED <<dirs, expired, sent>>
        /\ b # a => pc'[a] = pc[a] /\ ack'[a] = ack[a]
        /\ pc[b] \notin {"done", "dead"}
    BY <1>2, AckMoves
  <2>1. CASE Update(b) /\ RowPending
    <3>1. row \in Rows /\ row' = [row EXCEPT !.status = b] /\ Sweep(b, TRUE)
      BY <2>1, <1>a, Zenon DEF Update, RowPending
    <3>2. a = b
      BY <3>1, Zenon DEF Rows
    <3>3. pc'[a] = "sweep" /\ \A d \in dirs' : Cleared(a, d)'
      BY <2>a, <3>1, <3>2, SweepClears
    <3> QED
      BY <3>3 DEF SweptBy, Sweeping
  <2>2. CASE row' = row
    <3>1. CASE a # b
      BY <1>b, <1>2, <2>a, <2>2, <3>1, AckAlone, SweptStays DEF SendStep
    <3>2. CASE a = b
      <4>1. pc[a] \in Sweeping /\ SweptBy(a)
        BY <1>b, <2>a, <2>2, <3>2 DEF SweptBy
      <4> QED
        BY <1>2, <3>2, <4>1, SweepGoes
    <3> QED
      BY <3>1, <3>2
  <2> QED
    BY <1>2, <2>1, <2>2, AckMoves
<1>3. CASE ReadStep
  <2>1. /\ pc'[a] = pc[a] /\ pc'["send"] = pc["send"]
        /\ UNCHANGED <<row, sent, dirs, ack>>
        /\ expired' \in {expired, expired + 1}
    BY <1>3, ReadMoves
  <2>2. ~SendOutbox /\ ~SendInbox
    <3>1. SendOutbox \/ SendInbox => pc'["send"] # pc["send"]
      BY SendMoves DEF SendStep
    <3> QED
      BY <2>1, <3>1
  <2> QED
    BY <1>b, <2>1, <2>2, SweptStays
<1>4. CASE Crash
  <2>1. /\ pc'[a] = IF pc[a] = "idle" THEN "idle" ELSE IF pc[a] = "done" THEN "done" ELSE "dead"
        /\ UNCHANGED <<row, sent, dirs, expired>>
        /\ pc'["send"] = "idle"
    BY <1>4, CrashMoves
  <2>2. ~SendOutbox /\ ~SendInbox
    <3>1. SendOutbox \/ SendInbox => pc'["send"] # "idle"
      BY SendMoves DEF SendStep
    <3> QED
      BY <2>1, <3>1
  <2>3. SweptBy(a)
    BY <1>b, <2>1
  <2>4. CASE pc[a] = "done"
    BY <2>1, <2>2, <2>3, <2>4, SweptStays
  <2>5. CASE pc[a] # "done"
    <3>1. pc'[a] = "dead"
      BY <2>1, <2>3, <2>5 DEF SweptBy, Sweeping
    <3> QED
      BY <3>1 DEF SweptBy
  <2> QED
    BY <2>4, <2>5
<1>5. CASE UNCHANGED vars
  <2>1. UNCHANGED <<row, sent, dirs, expired, packet, pc, ack>>
    BY <1>5, Zenon DEF vars, lease
  <2> QED
    BY <1>b, <2>1 DEF SweptBy, Cleared, Left, Clean
<1> QED
  BY <1>1, <1>2, <1>3, <1>4, <1>5, NextSplit

\* Whatever fails, and however sends and acks interleave, once every request
\* has ended and none has died, no packet a sweep can reach is open that belongs
\* to an acknowledged round and has not expired (handle_ack_handoff writes the
\* files after it has won the row).
THEOREM FilesFollow == Spec => []FilesFollowTheRow
<1>1. Init => TypeOK /\ Holding /\ Place /\ RowRound /\ RowSwept
  BY InitTypeOK, InitPlace
<1>2. TypeOK /\ Holding /\ Place /\ RowRound /\ RowSwept /\ [Next]_vars
        => (TypeOK /\ Holding /\ Place /\ RowRound /\ RowSwept)'
  BY StepTypeOK, StepPlace, StepRowRound, StepRowSwept
<1>3. TypeOK /\ RowSwept => FilesFollowTheRow
  <2> SUFFICES ASSUME TypeOK, RowSwept, \A a \in Acks : pc[a] \in {"idle", "done"},
                      row # None, row.status # "pending", row.round = sent,
                      NEW k \in Visible, packet[k] = "open"
               PROVE  k[1] <= expired
    BY DEF FilesFollowTheRow
  <2>1. row.status \in Acks
    BY DEF TypeOK, Rows
  <2>2. pc[row.status] = "done" /\ \A d \in dirs : Clean(d)
    BY <2>1 DEF RowSwept, SweptBy, Sweeping
  <2>3. k[1] \in Rounds /\ k[2] \in dirs /\ k = <<k[1], k[2]>>
    BY DEF Visible, Packets
  <2>4. ~(k[1] > expired)
    BY <2>2, <2>3 DEF Clean
  <2> QED
    BY <2>3, <2>4, HandoffAssumption DEF TypeOK, Rounds
<1> QED
  BY <1>1, <1>2, <1>3, PTL DEF Spec

-----------------------------------------------------------------------------
(* What is settled does not return *)

\* An ack that came after the delivery found a row that waited, or takes one
\* away; where it sweeps the inbox, nothing there escapes it.
FreshInv ==
    \A a \in Acks : ack[a].fresh =>
        /\ delivered
        /\ pc[a] \in Sweeping =>
              /\ split \/ row = None \/ row.status # "pending"
              /\ "inbox" \in dirs => Cleared(a, "inbox")

\* A settled round is closed in the row, or in the inbox if there is no row.
Closed == IF row = None THEN Clean("inbox") ELSE row.status # "pending"

SettledInv ==
    /\ settled => delivered /\ Closed
    /\ list.settled => /\ settled /\ list.rows # "pending"
                       /\ pc["list"] = "files" /\ row # None => list.known

Returns == Delivery /\ Place /\ FreshInv /\ SettledInv

LEMMA InitReturns == Init => FreshInv /\ SettledInv
<1> SUFFICES ASSUME Init PROVE FreshInv /\ SettledInv
  OBVIOUS
<1>1. ~settled /\ list = NoList /\ \A a \in Acks : ack[a] = NoAck
  BY DEF Init
<1> QED
  BY <1>1, NoListIs, NoAckIs DEF FreshInv, SettledInv

LEMMA StepDelivery == TypeOK /\ Holding /\ Delivery /\ [Next]_vars => Delivery'
<1> SUFFICES ASSUME TypeOK, Holding, Delivery, [Next]_vars PROVE Delivery'
  OBVIOUS
<1>1. CASE SendStep
  <2>a. /\ SendOutbox => pc["send"] = "idle" /\ pc'["send"] = "inbox"
        /\ SendInbox => pc["send"] = "inbox" /\ pc'["send"] = "store"
        /\ Store \/ StoreFails => pc["send"] = "store" /\ pc'["send"] = "page"
        /\ SendReturns => pc["send"] = "page" /\ pc'["send"] = "idle"
        /\ SendFails => pc["send"] \in {"inbox", "page"} /\ pc'["send"] = "idle"
    BY <1>1, SendMoves
  <2>b. pc["send"] # "idle" => sent # 0
    BY DEF Holding, Rounds
  <2>1. CASE SendOutbox
    <3>1. delivered' = FALSE
      BY <2>1, Zenon DEF SendOutbox
    <3> QED
      BY <3>1 DEF Delivery
  <2>2. CASE ~SendOutbox
    <3>1. sent' = sent /\ (delivered' = delivered \/ SendReturns)
      BY <1>1, <2>2, Zenon DEF SendStep, SendInbox, Store, StoreFails, SendReturns, SendFails, history
    <3> QED
      BY <1>1, <2>2, <2>a, <2>b, <3>1 DEF SendStep, Delivery
  <2> QED
    BY <2>1, <2>2
<1>2. ASSUME NEW a \in Acks, AckStep(a) PROVE Delivery'
  <2>1. UNCHANGED <<sent, delivered>> /\ pc'["send"] = pc["send"]
    BY <1>2, AckMoves
  <2> QED
    BY <2>1 DEF Delivery
<1>3. CASE ReadStep
  <2>1. UNCHANGED <<sent, delivered>> /\ pc'["send"] = pc["send"]
    BY <1>3, ReadMoves
  <2> QED
    BY <2>1 DEF Delivery
<1>4. CASE Crash
  <2>1. UNCHANGED <<sent, delivered>> /\ pc'["send"] = "idle"
    BY <1>4, CrashMoves
  <2> QED
    BY <2>1 DEF Delivery
<1>5. CASE UNCHANGED vars
  <2>1. UNCHANGED <<sent, pc, delivered>>
    BY <1>5, Zenon DEF vars, history
  <2> QED
    BY <2>1 DEF Delivery
<1> QED
  BY <1>1, <1>2, <1>3, <1>4, <1>5, NextSplit

\* A send withdraws every promise made before it.
LEMMA SendRevokes == TypeOK /\ Returns /\ SendStep => FreshInv' /\ SettledInv'
<1> SUFFICES ASSUME TypeOK, Returns, SendStep PROVE FreshInv' /\ SettledInv'
  OBVIOUS
<1>1. CASE SendOutbox
  <2>1. ack \in [Acks -> Progress] /\ list \in Lists
    BY Zenon DEF TypeOK
  <2>2. /\ ack' = [a \in Acks |-> [ack[a] EXCEPT !.fresh = FALSE]] /\ settled' = FALSE
        /\ list' = [list EXCEPT !.owed = FALSE, !.settled = FALSE]
    BY <1>1, Zenon DEF SendOutbox
  <2>3. \A a \in Acks : ack'[a].fresh = FALSE
    BY <2>1, <2>2, Zenon DEF Progress
  <2>4. list'.settled = FALSE
    BY <2>1, <2>2, Zenon DEF Lists
  <2> QED
    BY <2>2, <2>3, <2>4 DEF FreshInv, SettledInv
<1>2. CASE ~SendOutbox
  <2>1. UNCHANGED <<ack, list, settled>>
    BY <1>2, Zenon DEF SendStep, SendInbox, Store, StoreFails, SendReturns, SendFails, history
  <2>2. pc["send"] # "idle"
    BY <1>2, SendMoves DEF SendStep
  <2>3. ~settled /\ ~list.settled /\ \A a \in Acks : ~ack[a].fresh
    BY <2>2 DEF Returns, Delivery, FreshInv, SettledInv
  <2> QED
    BY <2>1, <2>3 DEF FreshInv, SettledInv
<1> QED
  BY <1>1, <1>2

LEMMA AckFresh ==
    ASSUME TypeOK, Returns, NEW a \in Acks, AckStep(a)
    PROVE  FreshInv'
<1>a. /\ UNCHANGED <<dirs, expired, sent, delivered>>
      /\ \A b \in Acks : b # a => pc'[b] = pc[b] /\ ack'[b] = ack[b]
      /\ split => split'
      /\ row' = row \/ (RowPending /\ row' = [row EXCEPT !.status = a])
  BY AckMoves
<1>b. [Next]_vars /\ ~SendOutbox /\ ~SendInbox
  BY AckAlone DEF SendStep
<1>c. "inbox" \in Boxes /\ a # "pending"
  BY Names DEF Boxes
<1>d. row' = row \/ (row' # None /\ row'.status = a)
  <2>1. row \in Rows \cup {None}
    BY Zenon DEF TypeOK
  <2>2. row \in Rows => [row EXCEPT !.status = a] \in Rows /\ [row EXCEPT !.status = a].status = a
    BY DEF Rows
  <2>3. None \notin Rows
    BY HandoffAssumption
  <2> QED
    BY <1>a, <2>1, <2>2, <2>3 DEF RowPending
<1>e. split \/ row = None \/ row.status # "pending" => split' \/ row' = None \/ row'.status # "pending"
  BY <1>a, <1>c, <1>d
<1>1. ASSUME NEW b \in Acks, b # a, ack'[b].fresh
      PROVE  /\ delivered'
             /\ pc'[b] \in Sweeping => /\ split' \/ row' = None \/ row'.status # "pending"
                                       /\ "inbox" \in dirs' => Cleared(b, "inbox")'
  <2>1. pc'[b] = pc[b] /\ ack'[b] = ack[b]
    BY <1>1, <1>a
  <2>2. "inbox" \in dirs /\ pc[b] \in Sweeping => Cleared(b, "inbox")
    BY <1>1, <2>1 DEF Returns, FreshInv
  <2>3. Cleared(b, "inbox") => Cleared(b, "inbox")'
    BY <1>a, <1>b, <1>c, <2>1, ClearedStays
  <2> QED
    BY <1>1, <1>a, <1>e, <2>1, <2>2, <2>3 DEF Returns, FreshInv
<1>2. ASSUME ack'[a].fresh
      PROVE  /\ delivered'
             /\ pc'[a] \in Sweeping => /\ split' \/ row' = None \/ row'.status # "pending"
                                       /\ "inbox" \in dirs' => Cleared(a, "inbox")'
  <2>1. CASE AckStart(a)
    <3>1. \/ pc'[a] = "update" /\ ack'[a].fresh = delivered
          \/ pc'[a] = "done" /\ ack' = ack
      BY <2>1, FreshStart
    <3> QED
      BY <1>2, <1>a, <3>1 DEF Returns, FreshInv, Sweeping
  <2>2. CASE pc[a] \in {"update", "status"}
    <3>1. ASSUME NEW c \in BOOLEAN, Sweep(a, c)
          PROVE  delivered' /\ ("inbox" \in dirs' => Cleared(a, "inbox")')
      <4>1. ack'[a].fresh = ack[a].fresh /\ \A d \in dirs' : Cleared(a, d)'
        BY <1>a, <3>1, SweepBegins, SweepClears
      <4> QED
        BY <1>2, <1>a, <4>1 DEF Returns, FreshInv
    <3>2. Update(a) \/ UpdateFails(a) \/ AckStatus(a) \/ AckStatusFails(a)
      <4>1. \/ pc[a] \in {"idle", "sweep", "read", "write", "archive"}
            \/ Update(a) \/ UpdateFails(a) \/ AckStatus(a) \/ AckStatusFails(a)
        BY Zenon DEF AckStep, AckStart, EnterDirectory, LeaveDirectory, ReadPacket, WritePacket, Write,
           WriteFails, Swept, Archive, AckReturns
      <4> QED
        BY <2>2, <4>1
    <3>3. CASE Update(a) /\ RowPending
      <4>1. row' = [row EXCEPT !.status = a] /\ Sweep(a, TRUE) /\ row \in Rows
        BY <3>3, Zenon DEF Update, RowPending, TypeOK
      <4>2. row'.status = a
        BY <4>1, Zenon DEF Rows
      <4> QED
        BY <1>c, <3>1, <4>1, <4>2
    <3>4. CASE UpdateFails(a) \/ (Update(a) /\ ~RowPending)
      <4>1. pc'[a] = "status" /\ ack' = ack
        BY <3>4, AckEnds
      <4> QED
        BY <1>2, <1>a, <4>1 DEF Returns, FreshInv, Sweeping
    <3>5. CASE AckStatus(a)
      <4>1. (pc'[a] = "done" /\ ack'[a] = NoAck) \/ (row = None /\ row' = row /\ Sweep(a, FALSE))
        BY <3>5, AckEnds, Zenon DEF AckStatus, lease
      <4> QED
        BY <1>2, <3>1, <4>1, NoAckIs
    <3>6. CASE AckStatusFails(a)
      <4>1. Sweep(a, FALSE) /\ split' = (split \/ row # None) /\ row' = row
        BY <3>6, Zenon DEF AckStatusFails, lease
      <4> QED
        BY <3>1, <4>1
    <3> QED
      BY <3>2, <3>3, <3>4, <3>5, <3>6
  <2>3. CASE pc[a] \in Sweeping
    <3>1. ack'[a] = NoAck \/ ack'[a].fresh = ack[a].fresh
      <4>1. AckStart(a) \/ Update(a) \/ UpdateFails(a) \/ AckStatus(a) \/ AckStatusFails(a)
              => pc[a] \in {"idle", "update", "status"}
        BY Zenon DEF AckStart, Update, UpdateFails, AckStatus, AckStatusFails
      <4>2. EnterDirectory(a) \/ LeaveDirectory(a) \/ ReadPacket(a) \/ WritePacket(a) \/ WriteFails(a)
              \/ Swept(a) \/ Archive(a) \/ AckReturns(a)
        BY <2>3, <4>1 DEF AckStep, Sweeping
      <4> QED
        BY <4>2, DirectoryEntered, DirectoryLeft, PacketRead, PacketWritten, AckEnds, Archived
    <3>2. ack[a].fresh
      BY <1>2, <3>1, NoAckIs
    <3>3. CASE pc'[a] \in Sweeping
      <4>1. "inbox" \in dirs => Cleared(a, "inbox")
        BY <2>3, <3>2 DEF Returns, FreshInv
      <4>2. Cleared(a, "inbox") => Cleared(a, "inbox")'
        BY <1>c, <2>3, <3>3, SweepKeeps DEF Returns
      <4> QED
        BY <1>a, <1>e, <2>3, <3>2, <4>1, <4>2 DEF Returns, FreshInv
    <3>4. CASE pc'[a] \notin Sweeping
      BY <1>a, <3>2, <3>4 DEF Returns, FreshInv
    <3> QED
      BY <3>3, <3>4
  <2>4. AckStart(a) \/ pc[a] \in {"update", "status"} \/ pc[a] \in Sweeping
    BY Zenon DEF AckStep, Update, UpdateFails, AckStatus, AckStatusFails, EnterDirectory,
       LeaveDirectory, ReadPacket, WritePacket, Write, WriteFails, Swept, Archive, AckReturns, Sweeping
  <2> QED
    BY <2>1, <2>2, <2>3, <2>4
<1> QED
  BY <1>1, <1>2 DEF FreshInv

LEMMA AckSettles ==
    ASSUME TypeOK, Returns, NEW a \in Acks, AckStep(a)
    PROVE  SettledInv'
<1>a. /\ UNCHANGED <<dirs, expired, sent, list, delivered>> /\ pc'["list"] = pc["list"]
      /\ row' = row \/ (RowPending /\ row' = [row EXCEPT !.status = a])
      /\ settled => settled'
      /\ AckReturns(a) \/ settled' = settled
  BY AckMoves
<1>b. [Next]_vars /\ ~SendOutbox /\ ~SendInbox
  BY AckAlone DEF SendStep
<1>c. "inbox" \in Boxes
  BY DEF Boxes
<1>1. Closed => row' = row
  BY <1>a DEF Closed, RowPending
<1>2. Closed => Closed'
  <2>1. Clean("inbox") => Clean("inbox")'
    BY <1>b, <1>c, CleanKept
  <2> QED
    BY <1>1, <2>1 DEF Closed
<1>3. AckReturns(a) /\ settled' => settled \/ (delivered /\ Closed)
  <2> SUFFICES ASSUME AckReturns(a), settled', ~settled PROVE delivered /\ Closed
    OBVIOUS
  <2>1. /\ pc[a] = "archive" /\ ack[a].fresh /\ ~split /\ (row # None \/ "inbox" \in dirs)
    BY Zenon DEF AckReturns
  <2>2. delivered /\ (row = None \/ row.status # "pending") /\ ("inbox" \in dirs => Cleared(a, "inbox"))
    BY <2>1 DEF Returns, FreshInv, Sweeping
  <2>3. ack[a].todo = {}
    BY <2>1 DEF Returns, Place
  <2>4. "inbox" \in dirs => Clean("inbox")
    BY <1>c, <2>1, <2>2, <2>3, NothingLeft DEF Returns
  <2> QED
    BY <2>1, <2>2, <2>4 DEF Closed
<1>4. settled' => delivered' /\ Closed'
  BY <1>a, <1>2, <1>3 DEF Returns, SettledInv
<1>5. list'.settled => /\ settled' /\ list'.rows # "pending"
                       /\ pc'["list"] = "files" /\ row' # None => list'.known
  BY <1>a, <1>1 DEF Returns, SettledInv
<1> QED
  BY <1>4, <1>5 DEF SettledInv

LEMMA ReadSettles == TypeOK /\ Returns /\ ReadStep => FreshInv' /\ SettledInv'
<1> SUFFICES ASSUME TypeOK, Returns, ReadStep PROVE FreshInv' /\ SettledInv'
  OBVIOUS
<1>a. /\ \A a \in Acks : pc'[a] = pc[a]
      /\ pc'["send"] = pc["send"]
      /\ UNCHANGED <<row, packet, dirs, ack, delivered, settled, split>>
      /\ expired' \in {expired, expired + 1}
      /\ ListRows \/ ListKnown \/ ListAnswer \/ (UNCHANGED list /\ pc' = pc)
  BY ReadMoves
<1>b. [Next]_vars /\ ~SendOutbox /\ ~SendInbox
  <2>1. [Next]_vars
    BY Zenon DEF ReadStep, Next
  <2>2. SendOutbox \/ SendInbox => pc'["send"] # pc["send"]
    BY SendMoves DEF SendStep
  <2> QED
    BY <1>a, <2>1, <2>2
<1>c. "inbox" \in Boxes
  BY DEF Boxes
<1>d. list \in Lists /\ NoList \in Lists /\ pc \in [Acks \cup Requests -> Steps]
  BY Zenon DEF TypeOK, NoList, Lists
<1>1. FreshInv'
  <2>1. \A a \in Acks : Cleared(a, "inbox") => Cleared(a, "inbox")'
    BY <1>a, <1>b, <1>c, ClearedStays
  <2> QED
    BY <1>a, <2>1 DEF Returns, FreshInv
<1>2. settled' => delivered' /\ Closed'
  <2>1. Clean("inbox") => Clean("inbox")'
    BY <1>b, <1>c, CleanKept
  <2> QED
    BY <1>a, <2>1 DEF Returns, SettledInv, Closed
<1> DEFINE Listed == list'.settled => /\ settled' /\ list'.rows # "pending"
                                      /\ pc'["list"] = "files" /\ row' # None => list'.known
<1>3. ASSUME ListRows PROVE Listed
  <2> DEFINE rows(up) == IF ~up THEN "failed" ELSE IF RowPending THEN "pending" ELSE "none"
             owed     == Owed
  <2>1. PICK up \in BOOLEAN :
          list' = [NoList EXCEPT !.rows = rows(up), !.owed = owed, !.settled = settled]
    BY <1>3, Zenon DEF ListRows
  <2> HIDE DEF rows, owed
  <2>2. list'.rows = rows(up) /\ list'.settled = settled
    BY <1>d, <2>1, Zenon DEF Lists
  <2>3. ~RowPending => rows(up) # "pending"
    BY DEF rows
  <2>4. settled => ~RowPending
    BY DEF Returns, SettledInv, Closed, RowPending
  <2>5. pc'["list"] = "known"
    BY <1>3, <1>d, Zenon DEF ListRows, Goto, Requests
  <2> QED
    BY <1>a, <2>2, <2>3, <2>4, <2>5
<1>4. ASSUME ListKnown PROVE Listed
  <2> DEFINE known(up) == list.rows = "pending" \/ (up /\ row # None)
             kept(up)  == list.settled /\ up
  <2>1. PICK up \in BOOLEAN : list' = [list EXCEPT !.known = known(up), !.settled = kept(up)]
    BY <1>4, Zenon DEF ListKnown
  <2> HIDE DEF known, kept
  <2>2. list'.rows = list.rows /\ list'.settled = kept(up) /\ list'.known = known(up)
    BY <1>d, <2>1, Zenon DEF Lists
  <2>3. (kept(up) => list.settled) /\ (kept(up) /\ row # None => known(up))
    BY DEF known, kept
  <2> QED
    BY <1>a, <2>2, <2>3 DEF Returns, SettledInv
<1>5. ASSUME ListAnswer PROVE Listed
  <2>1. list' = NoList
    BY <1>5, Zenon DEF ListAnswer
  <2> QED
    BY <2>1, NoListIs
<1>6. ASSUME UNCHANGED list, pc' = pc PROVE Listed
  BY <1>6, <1>a DEF Returns, SettledInv
<1>7. Listed
  BY <1>3, <1>4, <1>5, <1>6, <1>a
<1> QED
  BY <1>1, <1>2, <1>7 DEF SettledInv

LEMMA StepReturns == TypeOK /\ Holding /\ Returns /\ [Next]_vars => Returns'
<1> SUFFICES ASSUME TypeOK, Holding, Returns, [Next]_vars PROVE FreshInv' /\ SettledInv'
  BY StepDelivery, StepPlace DEF Returns
<1>1. CASE SendStep
  BY <1>1, SendRevokes
<1>2. ASSUME NEW a \in Acks, AckStep(a) PROVE FreshInv' /\ SettledInv'
  BY <1>2, AckFresh, AckSettles
<1>3. CASE ReadStep
  BY <1>3, ReadSettles
<1>4. CASE Crash
  <2>1. /\ \A a \in Acks : ack'[a] = NoAck
        /\ list' = NoList
        /\ UNCHANGED <<row, packet, expired, delivered, settled>>
    BY <1>4, CrashMoves
  <2> QED
    BY <2>1, NoAckIs, NoListIs DEF Returns, FreshInv, SettledInv, Closed, Clean
<1>5. CASE UNCHANGED vars
  <2>1. UNCHANGED <<row, packet, dirs, expired, pc, ack, list, delivered, settled, split>>
    BY <1>5, Zenon DEF vars, lease, history
  <2> QED
    BY <2>1 DEF Returns, FreshInv, SettledInv, Closed, Cleared, Left, Clean
<1> QED
  BY <1>1, <1>2, <1>3, <1>4, <1>5, NextSplit

\* Whatever fails, and however the requests interleave, a round whose ack was
\* answered before the list was asked for is not shown as pending, as long as
\* the known ids could be read (handle_list_pending_handoffs).
THEOREM SettledStaysAway == Spec => NoResurrection
<1>1. Init => TypeOK /\ Holding /\ Returns
  BY InitTypeOK, InitShown, InitPlace, InitReturns DEF Shown, Returns
<1>2. TypeOK /\ Holding /\ Returns /\ [Next]_vars => (TypeOK /\ Holding /\ Returns)'
  BY StepTypeOK, StepReturns
<1>3. ASSUME TypeOK, Returns, ListAnswer, Answer = "shown", list.settled PROVE FALSE
  <2>1. pc["list"] = "files"
    BY <1>3, Zenon DEF ListAnswer
  <2>2. settled /\ list.rows # "pending" /\ (row # None => list.known)
    BY <1>3, <2>1 DEF Returns, SettledInv
  <2>3. OnFile /\ ~list.known
    BY <1>3, <2>2 DEF Answer
  <2>4. Clean("inbox")
    BY <1>3, <2>2, <2>3 DEF Returns, SettledInv, Closed
  <2> QED
    BY <2>3, <2>4 DEF OnFile, Clean
<1>4. TypeOK /\ Holding /\ Returns /\ [Next]_vars
        => [ListAnswer => ~(Answer = "shown" /\ list.settled)]_vars
  BY <1>3
<1> QED
  BY <1>1, <1>2, <1>4, PTL DEF Spec, NoResurrection
=============================================================================
