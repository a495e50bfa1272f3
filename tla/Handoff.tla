------------------------------- MODULE Handoff -------------------------------
(***************************************************************************)
(* One handoff lease of minnid (src/minni/minnid_runtime/handoff.py): its  *)
(* row in handoff_leases and its JSON packets in the sender's outbox and   *)
(* the recipient's inbox, with the requests that send, acknowledge, list   *)
(* and await it.  Requests run in a pool of threads: a step is one SQL     *)
(* statement or one file.                                                  *)
(*                                                                         *)
(* The sender may send again under the same lease_id; each send (a round)  *)
(* has packets of its own, as their names carry the second.  Leases that   *)
(* need no acknowledgement, wrong principals and the contents of packets   *)
(* are left out.                                                           *)
(***************************************************************************)
EXTENDS Integers

CONSTANTS
    Acks,       \* acknowledgements; each stands for the status it gives
    Faults,     \* see below
    MaxSends,   \* bound: rounds
    None

(***************************************************************************)
(* Faults the runs choose from; reads and updates of the store may always  *)
(* fail, and so may the store of the first round.                          *)
(*   EarlyAck     the recipient answers a packet whose send has not        *)
(*                returned                                                 *)
(*   AckReadFails the read of the status fails after a failed update       *)
(*   ResendFails  the store of a later round fails                         *)
(***************************************************************************)
Rounds   == 1 .. MaxSends
Boxes    == {"outbox", "inbox"}
Packets  == Rounds \X Boxes
Requests == {"send", "list"}
Rows     == [round : Rounds, status : {"pending"} \cup Acks]

ASSUME HandoffAssumption ==
    /\ Acks \cap {"pending", "open", None, "send", "list"} = {}
    /\ None \notin Rows \cup Boxes \cup {"open", "pending", "none", "failed"}
    /\ Faults \subseteq {"EarlyAck", "AckReadFails", "ResendFails"}
    /\ MaxSends \in Nat \ {0}

VARIABLES
    row,        \* the lease's row: its round and status, or None
    packet,     \* each packet: absent (None), "open" or its ack_status
    dirs,       \* the directories known_agent_vaults leads to
    expired,    \* the last round past its expires_at: rounds expire in order
    sent,       \* rounds begun
    pc,         \* where each request stands
    ack,        \* how far each ack is: see NoAck
    list,       \* what the list request has read
    delivered,  \* whether the last send returned delivered (history)
    touched,    \* whether an ack was under way since the last send (history)
    settled,    \* whether an ack made since that delivery was answered (history)
    told,       \* outcomes anybody was told of the only round (history)
    split       \* whether an ack passed over a row it could not read (history)

Steps == {"idle", "inbox", "store", "page", "update", "status", "sweep", "read", "write",
          "archive", "done", "dead", "rows", "known", "files"}

\* Of an ack: the directories to enter, the one it is in, the rounds left there
\* and the one it has read, the inbox packets changed, whether anything was
\* changed, and whether it came after the delivery (history).
Progress == [todo : SUBSET Boxes, dir : Boxes \cup {None}, files : SUBSET Rounds,
             at : Rounds \cup {None}, inbox : SUBSET Rounds, changed : BOOLEAN,
             fresh : BOOLEAN]

\* Of a list: what its two reads found; owed and settled are history: what it
\* should say, judged when it began.
Lists == [rows : {None, "pending", "none", "failed"}, known : BOOLEAN, owed : BOOLEAN,
          settled : BOOLEAN]

lease   == <<row, packet, expired>>
history == <<delivered, touched, settled, told, split>>
vars    == <<lease, dirs, sent, pc, ack, list, history>>

NoAck  == [todo |-> {}, dir |-> None, files |-> {}, at |-> None, inbox |-> {},
           changed |-> FALSE, fresh |-> FALSE]
NoList == [rows |-> None, known |-> FALSE, owed |-> FALSE, settled |-> FALSE]

Init ==
    /\ row = None
    /\ packet = [k \in Packets |-> None]
    /\ dirs \in {{"outbox"}, Boxes}
    /\ expired = 0
    /\ sent = 0
    /\ pc = [r \in Acks \cup Requests |->
                IF r = "list" THEN "rows" ELSE "idle"]
    /\ ack = [a \in Acks |-> NoAck]
    /\ list = NoList
    /\ delivered = FALSE
    /\ touched = FALSE
    /\ settled = FALSE
    /\ told = {}
    /\ split = FALSE

-----------------------------------------------------------------------------
Goto(a, step) == pc' = [pc EXCEPT ![a] = step]
Acking        == \E a \in Acks : pc[a] \notin {"idle", "done", "dead"}
Tell(status)  == told' = IF sent = 1 THEN told \cup {status} ELSE told

RowPending == row # None /\ row.status = "pending" /\ row.round > expired

\* iter_handoff_files without an agent: the packets an ack or an await can see.
Visible == {k \in Packets : packet[k] # None /\ k[2] \in dirs}

\* The recipient was given the last round and nobody has answered it.
Owed ==
    /\ delivered /\ ~touched
    /\ sent > expired

-----------------------------------------------------------------------------
(* handle_daemon_handoff *)

SendOutbox ==
    /\ pc["send"] = "idle"
    /\ sent < MaxSends
    /\ sent' = sent + 1
    /\ packet' = [packet EXCEPT ![<<sent + 1, "outbox">>] = "open"]
    /\ delivered' = FALSE /\ settled' = FALSE /\ told' = {} /\ touched' = Acking
    /\ list' = [list EXCEPT !.owed = FALSE, !.settled = FALSE]
    /\ ack' = [a \in Acks |-> [ack[a] EXCEPT !.fresh = FALSE]]
    /\ Goto("send", "inbox")
    /\ UNCHANGED <<row, dirs, expired, split>>

SendInbox ==
    /\ pc["send"] = "inbox"
    /\ packet' = [packet EXCEPT ![<<sent, "inbox">>] = "open"]
    /\ Goto("send", "store")
    /\ UNCHANGED <<row, dirs, expired, sent, ack, list, history>>

\* Mutant: the upsert leaves the status of an earlier round alone.
StoreKeepsStatus ==
    /\ pc["send"] = "store"
    /\ row' = [round |-> sent, status |-> IF row = None THEN "pending" ELSE row.status]
    /\ Goto("send", "page")
    /\ UNCHANGED <<packet, dirs, expired, sent, ack, list, history>>

\* store_handoff_lease
Store ==
    /\ pc["send"] = "store"
    /\ row' = [round |-> sent, status |-> "pending"]
    /\ Goto("send", "page")
    /\ UNCHANGED <<packet, dirs, expired, sent, ack, list, history>>

StoreFails ==
    /\ pc["send"] = "store"
    /\ row = None \/ "ResendFails" \in Faults
    /\ Goto("send", "page")
    /\ UNCHANGED <<lease, dirs, sent, ack, list, history>>

\* The wiki page and the audit lines are written; the answer is delivered,
\* degraded if the row was not stored.
SendReturns ==
    /\ pc["send"] = "page"
    /\ delivered' = TRUE
    /\ Goto("send", "idle")
    /\ UNCHANGED <<lease, dirs, sent, ack, list, touched, settled, told, split>>

\* A file cannot be written; the answer is not delivered.
SendFails ==
    /\ pc["send"] \in {"inbox", "page"}
    /\ Goto("send", "idle")
    /\ UNCHANGED <<lease, dirs, sent, ack, list, history>>

-----------------------------------------------------------------------------
(* handle_ack_handoff *)

\* lease_to_agent finds the row or, if there is none or the store fails, a
\* packet; without either the lease is unknown.
AckStart(a) ==
    /\ pc[a] = "idle"
    /\ pc["send"] = "idle" \/ "EarlyAck" \in Faults
    /\ touched' = TRUE
    /\ \E up \in BOOLEAN :
          IF (up /\ row # None) \/ Visible # {}
          THEN /\ ack' = [ack EXCEPT ![a] = [NoAck EXCEPT !.fresh = delivered]]
               /\ Goto(a, "update")
          ELSE Goto(a, "done") /\ UNCHANGED ack
    /\ UNCHANGED <<lease, dirs, sent, list, delivered, settled, told, split>>

Sweep(a, changed) ==
    /\ ack' = [ack EXCEPT ![a].changed = changed, ![a].todo = dirs]
    /\ Goto(a, "sweep")

\* Mutant: the update does not ask for a pending row.
UpdateAnyStatus(a) ==
    /\ pc[a] = "update"
    /\ IF row # None /\ row.round > expired
       THEN row' = [row EXCEPT !.status = a] /\ Sweep(a, TRUE)
       ELSE Goto(a, "status") /\ UNCHANGED <<row, ack>>
    /\ UNCHANGED <<packet, expired, dirs, sent, list, history>>

\* update_handoff_lease_status
Update(a) ==
    /\ pc[a] = "update"
    /\ IF RowPending
       THEN row' = [row EXCEPT !.status = a] /\ Sweep(a, TRUE)
       ELSE Goto(a, "status") /\ UNCHANGED <<row, ack>>
    /\ UNCHANGED <<packet, expired, dirs, sent, list, history>>

UpdateFails(a) ==
    /\ pc[a] = "update"
    /\ Goto(a, "status")
    /\ UNCHANGED <<lease, dirs, sent, ack, list, history>>

\* handoff_lease_status after an update without effect: a row refuses the ack.
AckStatus(a) ==
    /\ pc[a] = "status"
    /\ IF row # None THEN Goto(a, "done") /\ ack' = [ack EXCEPT ![a] = NoAck]
       ELSE Sweep(a, FALSE)
    /\ UNCHANGED <<lease, dirs, sent, list, history>>

\* The read fails as well: the ack goes on with the files alone.
AckStatusFails(a) ==
    /\ pc[a] = "status"
    /\ row = None \/ "AckReadFails" \in Faults
    /\ Sweep(a, FALSE)
    /\ split' = (split \/ row # None)
    /\ UNCHANGED <<lease, dirs, sent, list, delivered, touched, settled, told>>

\* write_matching_lease_packets, with the directories and the packets of each
\* in any order; a directory is listed as it is entered.
EnterDirectory(a) ==
    /\ pc[a] = "sweep"
    /\ \E d \in ack[a].todo :
          ack' = [ack EXCEPT ![a].todo = @ \ {d}, ![a].dir = d,
                             ![a].files = {r \in Rounds : packet[<<r, d>>] # None}]
    /\ Goto(a, "read")
    /\ UNCHANGED <<lease, dirs, sent, list, history>>

ToChange(a) == {r \in ack[a].files : packet[<<r, ack[a].dir>>] = "open" /\ r > expired}

ReadPacket(a) ==
    /\ pc[a] = "read"
    /\ \E r \in ToChange(a) : ack' = [ack EXCEPT ![a].files = @ \ {r}, ![a].at = r]
    /\ Goto(a, "write")
    /\ UNCHANGED <<lease, dirs, sent, list, history>>

NextDirectory(a) ==
    /\ ack' = [ack EXCEPT ![a].files = {}, ![a].dir = None]
    /\ Goto(a, "sweep")
    /\ UNCHANGED <<lease, dirs, sent, list, history>>

\* Mutant: the first packet that is acknowledged already ends the directory.
LeaveAtFirstAcked(a) ==
    /\ pc[a] = "read"
    /\ ToChange(a) # ack[a].files \/ ack[a].files = {}
    /\ NextDirectory(a)

\* The other packets are acknowledged, archived or expired, and stay so.
LeaveDirectory(a) ==
    /\ pc[a] = "read" /\ ToChange(a) = {}
    /\ NextDirectory(a)

Write(a, status) ==
    /\ pc[a] = "write"
    /\ packet' = [packet EXCEPT ![<<ack[a].at, ack[a].dir>>] = status]
    /\ ack' = [ack EXCEPT ![a].changed = TRUE,
                          ![a].at      = None,
                          ![a].inbox   = IF ack[a].dir = "inbox" THEN @ \cup {ack[a].at} ELSE @]
    /\ Goto(a, "read")
    /\ UNCHANGED <<row, expired, dirs, sent, list, history>>

\* Mutant: what is written is the status of a row that waits.
WritePending(a) == Write(a, "pending")

\* The packet is replaced by the one read, with its ack_status.
WritePacket(a) == Write(a, a)

\* The packet cannot be written; the ack is answered with the error.
WriteFails(a) ==
    /\ pc[a] = "write"
    /\ Goto(a, "dead")
    /\ ack' = [ack EXCEPT ![a] = NoAck]
    /\ UNCHANGED <<lease, dirs, sent, list, history>>

\* Without a file changed or a row the lease is unknown after all.
Swept(a) ==
    /\ pc[a] = "sweep" /\ ack[a].todo = {}
    /\ IF ack[a].changed THEN Goto(a, "archive") /\ UNCHANGED ack
       ELSE Goto(a, "done") /\ ack' = [ack EXCEPT ![a] = NoAck]
    /\ UNCHANGED <<lease, dirs, sent, list, history>>

\* archive_inbox_file; an archived packet is out of every reader's sight.  One
\* that cannot be archived stays.
Archive(a) ==
    /\ pc[a] = "archive"
    /\ \E r \in ack[a].inbox :
          /\ packet' = [packet EXCEPT ![<<r, "inbox">>] = None] \/ UNCHANGED packet
          /\ ack' = [ack EXCEPT ![a].inbox = @ \ {r}]
    /\ UNCHANGED <<row, expired, dirs, sent, pc, list, history>>

AckReturns(a) ==
    /\ pc[a] = "archive" /\ ack[a].inbox = {}
    /\ Tell(a)
    /\ settled' = (settled \/ /\ ack[a].fresh /\ ~split
                              /\ row # None \/ "inbox" \in dirs)
    /\ Goto(a, "done")
    /\ ack' = [ack EXCEPT ![a] = NoAck]
    /\ UNCHANGED <<lease, dirs, sent, list, delivered, touched, split>>

-----------------------------------------------------------------------------
(* handle_list_pending_handoffs *)

\* pending_handoff_leases.  A list changes nothing, so only those are followed
\* that a promise is made for: a round that is owed or settled.
ListRows ==
    /\ pc["list"] = "rows"
    /\ Owed \/ settled
    /\ \E up \in BOOLEAN :
          list' = [NoList EXCEPT
              !.rows    = IF ~up THEN "failed" ELSE IF RowPending THEN "pending" ELSE "none",
              !.owed    = Owed,
              !.settled = settled]
    /\ Goto("list", "known")
    /\ UNCHANGED <<lease, dirs, sent, ack, history>>

\* Mutant: only the ids of rows that still wait count as known.
ListKnownPending ==
    /\ pc["list"] = "known"
    /\ \E up \in BOOLEAN :
          list' = [list EXCEPT !.known = list.rows = "pending" \/ (up /\ RowPending),
                               !.settled = @ /\ up]
    /\ Goto("list", "files")
    /\ UNCHANGED <<lease, dirs, sent, ack, history>>

\* _known_lease_ids_for_agent and the ids just read; a failure counts as none,
\* and takes back the promise to a settled round.
ListKnown ==
    /\ pc["list"] = "known"
    /\ \E up \in BOOLEAN :
          list' = [list EXCEPT !.known = list.rows = "pending" \/ (up /\ row # None),
                               !.settled = @ /\ up]
    /\ Goto("list", "files")
    /\ UNCHANGED <<lease, dirs, sent, ack, history>>

\* _file_channel_pending_handoffs reads the recipient's own vault.
OnFile == \E r \in Rounds : packet[<<r, "inbox">>] = "open" /\ r > expired

\* The rows and the files whose ids are not known; an empty list is an answer
\* only if the rows could be read.
Answer == IF list.rows = "pending" \/ (OnFile /\ ~list.known) THEN "shown"
          ELSE IF list.rows = "failed" THEN "error" ELSE "empty"

ListAnswer ==
    /\ pc["list"] = "files"
    /\ list' = NoList
    /\ Goto("list", "rows")
    /\ UNCHANGED <<lease, dirs, sent, ack, history>>

-----------------------------------------------------------------------------
(* handle_await_handoff polls the row and, if its read fails or it waits,
   the packets.  As a read may always fail, a poll of either is a step. *)

\* handoff_lease_status
AwaitRow ==
    /\ row # None /\ row.status # "pending"
    /\ Tell(row.status)
    /\ UNCHANGED <<lease, dirs, sent, pc, ack, list, delivered, touched, settled, split>>

\* _file_channel_terminal_ack: the first acknowledged packet found.
AwaitFiles ==
    /\ \E k \in Visible : packet[k] # "open" /\ Tell(packet[k])
    /\ UNCHANGED <<lease, dirs, sent, pc, ack, list, delivered, touched, settled, split>>

-----------------------------------------------------------------------------
Expire ==
    /\ expired < sent
    /\ expired' = expired + 1
    /\ UNCHANGED <<row, packet, dirs, sent, pc, ack, list, history>>

\* minnid dies and starts again; the requests under way get no answer.
Crash ==
    /\ pc' = [r \in DOMAIN pc |->
                 IF r = "list" THEN "rows" ELSE IF r = "send" \/ pc[r] = "idle" THEN "idle"
                 ELSE IF pc[r] = "done" THEN "done" ELSE "dead"]
    /\ ack' = [a \in Acks |-> NoAck]
    /\ list' = NoList
    /\ UNCHANGED <<lease, dirs, sent, history>>

AckStep(a) ==
    \/ AckStart(a) \/ Update(a) \/ UpdateFails(a) \/ AckStatus(a) \/ AckStatusFails(a)
    \/ EnterDirectory(a) \/ LeaveDirectory(a) \/ ReadPacket(a)
    \/ WritePacket(a) \/ WriteFails(a) \/ Swept(a) \/ Archive(a) \/ AckReturns(a)

Next ==
    \/ SendOutbox \/ SendInbox \/ Store \/ StoreFails \/ SendReturns \/ SendFails
    \/ \E a \in Acks : AckStep(a)
    \/ ListRows \/ ListKnown \/ ListAnswer
    \/ AwaitRow \/ AwaitFiles
    \/ Expire
    \/ Crash

Spec == Init /\ [][Next]_vars

-----------------------------------------------------------------------------
(* Properties *)

\* The state is well formed: the row and each packet carry a status of the
\* protocol, and what is under way refers to packets there can be.
TypeOK ==
    /\ row \in Rows \cup {None}
    /\ packet \in [Packets -> {None, "open"} \cup Acks]
    /\ dirs \in {{"outbox"}, Boxes}
    /\ {sent, expired} \subseteq 0 .. MaxSends
    /\ pc \in [Acks \cup Requests -> Steps]
    /\ ack \in [Acks -> Progress]
    /\ list \in Lists
    /\ told \subseteq Acks
    /\ {delivered, touched, settled, split} \subseteq BOOLEAN

\* A handoff that was delivered, has not expired and that nobody has begun to
\* answer, from the list's first read to its answer, is never missing from a
\* list that claims to be complete: the recipient sees it, or an error,
\* whichever channel has failed (handle_list_pending_handoffs merges the rows
\* and the files).
NothingOwedIsHidden ==
    [][ListAnswer => ~(Answer = "empty" /\ list.owed /\ Owed)]_vars

\* A handoff whose acknowledgement was answered before the list was asked for
\* does not come back as pending, though its packet may still be open in a
\* vault the ack does not sweep, as long as the known ids can be read.
NoResurrection ==
    [][ListAnswer => ~(Answer = "shown" /\ list.settled)]_vars

\* While a stored lease has been sent once, everybody who is told an outcome,
\* by an answer to an ack or to an await, through the row or the files, is told
\* the same one, unless an ack has passed over a row it could not read.
OneOutcome == row # None /\ sent = 1 /\ ~split => \A s, t \in told : s = t

\* When no request that writes is under way and none has died, the files of a
\* lease whose last round is acknowledged say so too wherever acks sweep: a
\* reader that has lost the store is not misled by an open packet.
FilesFollowTheRow ==
    /\ pc["send"] = "idle" /\ \A a \in Acks : pc[a] \in {"idle", "done"}
    /\ row # None /\ row.status # "pending" /\ row.round = sent
    => \A k \in Visible : packet[k] = "open" => k[1] <= expired
=============================================================================
