------------------------------ MODULE Documents ------------------------------
(***************************************************************************)
(* One key of apps/runbook: its document, with its chain of versions, the    *)
(* documents created under the key after it was deleted, and the rows they   *)
(* have in the full-text index of apps/search.  Keyed writes (REST, MCP,     *)
(* bundles) run in one IMMEDIATE transaction that reads the row afresh; the  *)
(* web views, restore, archive, the retention sweep and the index rebuild    *)
(* act on a document they loaded before.                                     *)
(***************************************************************************)
EXTENDS Integers, FiniteSets

CONSTANTS
  Editors,        \* web processes
  Jobs,           \* workers and commands: the retention tasks and the index rebuild
  Bodies,         \* what is written, each piece of text once (a bound of the model)
  NumVersions,    \* bound of the model: versions
  NumDocs,        \* bound of the model: documents created under the key
  KeepVersions,   \* what max_versions may be, a field anyone who edits may set
  OnExpire,       \* what on_expire may be, a field anyone who edits may set
  None

ASSUME DocumentsAssumption ==
  /\ {NumVersions, NumDocs} \subseteq Nat \ {0} /\ KeepVersions \subseteq Nat
  /\ OnExpire \subseteq {"archive", "delete"}
  /\ None \notin Bodies /\ \A text \in SUBSET Bodies : text # None

VARIABLES
  doc,        \* the Document row; its pk stays behind when it is deleted
  versions,   \* the text of each DocumentVersion's file, None where there is no row
  index,      \* the text under which search finds each document, None without a row
  idle,       \* updated_at is older than the policy's ttl_days
  req,        \* what each process is doing, with the document as it loaded it
  unused,     \* texts nobody has written yet
  tangled,    \* history: a writer, or a prune that keeps nothing, went by a former head
  blurred,    \* history: documents whose last index write raised, or came from an instance
              \* loaded before a change
  inplace,    \* history: texts that were written without a new version
  lost,       \* history: texts a put with expected_version replaced unread
  reborn      \* history: texts it replaced for a client that had read a former document

vars == <<doc, versions, index, idle, req, unused, tangled, blurred, inplace, lost, reborn>>

Procs == Editors \cup Jobs
Numbers == 1..NumVersions
Texts == SUBSET Bodies
Pks == 1..NumDocs
NoDoc == [exists |-> FALSE, pk |-> 0, head |-> 0, version |-> 0, text |-> {}, archived |-> FALSE,
          locked |-> FALSE]
Idle == [pc |-> "idle", op |-> "none", seen |-> NoDoc, old |-> FALSE, doomed |-> {}]
Head(d) == <<d.head, d.version, d.text>>
Goto(p, r) == req' = [req EXCEPT ![p] = r]
Stays == UNCHANGED <<tangled, blurred, inplace, lost, reborn>>

\* The row that p loaded is still there.
Mine(p) == doc.exists /\ req[p].seen.pk = doc.pk

Kept == {n \in Numbers : versions[n] # None}
Newest == CHOOSE n \in Kept : \A m \in Kept : m <= n
\* Mutant: the chain is cut at the wrong end.
LatestFromTheOldEnd(s, n) == {v \in s : Cardinality({w \in s : w < v}) < n}

\* The n newest versions of the set s.
Latest(s, n) == {v \in s : Cardinality({w \in s : w > v}) < n}

\* _on_save and _on_delete, in a savepoint of their own: the index row of a document is
\* written or removed, or that raises, which is logged and swallowed.
IndexRow(k, text) ==
  \/ index' = [index EXCEPT ![k] = text] /\ blurred' = blurred \ {k}
  \/ UNCHANGED index /\ blurred' = blurred \cup {k}

\* _sync_head: the row points at the version and copies its number and text; the save
\* brings the index row with it, in the same transaction.
SyncHead(d, n, text) ==
  /\ doc' = [d EXCEPT !.head = n, !.version = n, !.text = text]
  /\ IndexRow(d.pk, text)
  /\ idle' = FALSE
-----------------------------------------------------------------------------
(* Writes through the service, each one transaction *)

\* create_document, from a put of a key without a document (or a bundle, which locks it):
\* a new row that starts at version 1, also where the key had a document before.
Create(b, locked) ==
  /\ ~doc.exists /\ doc.pk + 1 \in Pks
  /\ versions' = [versions EXCEPT ![1] = {b}]
  /\ SyncHead([NoDoc EXCEPT !.exists = TRUE, !.pk = doc.pk + 1, !.locked = locked], 1, {b})
  /\ unused' = unused \ {b}
  /\ UNCHANGED <<req, tangled, inplace, lost, reborn>>

Modes == {"new_version", "overwrite", "append", "append_version"}

\* write_version on a document d: a new version after d's head, or the head in place.  It
\* raises, and nothing is written, when d or its head is gone, when the successor exists,
\* and when there is no head to overwrite.
Writable(d, mode) ==
  /\ doc.exists /\ d.pk = doc.pk
  /\ \/ mode \in {"new_version", "append_version"}
        /\ d.head \in Kept \cup {0} /\ d.head + 1 \in Numbers \ Kept
     \/ mode \in {"overwrite", "append"} /\ d.head \in Kept

Combined(d, mode, b) ==
  IF mode \in {"append", "append_version"} /\ d.head # 0
  THEN versions[d.head] \cup {b} ELSE {b}

WriteVersion(d, mode, b) ==
  LET text == Combined(d, mode, b)
  IN IF mode \in {"new_version", "append_version"}
     THEN /\ versions' = [versions EXCEPT ![d.head + 1] = text]
          /\ SyncHead(doc, d.head + 1, text)
          /\ UNCHANGED inplace
     ELSE /\ versions' = [versions EXCEPT ![d.head] = text]
          /\ doc' = [doc EXCEPT !.text = text]
          /\ IndexRow(doc.pk, text) /\ idle' = FALSE
          /\ inplace' = inplace \cup {b}

\* put_document: the row is read inside the transaction, so d is the row itself.
Put(b, mode) ==
  /\ Writable(doc, mode) /\ ~doc.locked
  /\ WriteVersion(doc, mode, b)
  /\ unused' = unused \ {b}
  /\ UNCHANGED <<req, tangled, lost, reborn>>

\* Mutant: expected_version is not compared.
PutUncompared(p, b, mode) ==
  /\ req[p].pc = "loaded" /\ req[p].op = "put"
  /\ Goto(p, Idle)
  /\ IF Writable(doc, mode) /\ ~doc.locked
     THEN /\ WriteVersion(doc, mode, b)
          /\ unused' = unused \ {b}
          /\ lost' = lost \cup ((doc.text \ doc'.text) \ req[p].seen.text)
          /\ reborn' = IF req[p].seen.pk = doc.pk THEN reborn ELSE reborn \cup doc.text
          /\ UNCHANGED tangled
     ELSE UNCHANGED <<doc, versions, index, idle, unused>> /\ Stays

\* put_document with the expected_version of what the client has read, in whichever
\* document the key had then.
PutExpected(p, b, mode) ==
  /\ req[p].pc = "loaded" /\ req[p].op = "put"
  /\ Goto(p, Idle)
  /\ IF Writable(doc, mode) /\ ~doc.locked /\ doc.version = req[p].seen.version
     THEN /\ WriteVersion(doc, mode, b)
          /\ unused' = unused \ {b}
          /\ lost' = lost \cup ((doc.text \ doc'.text) \ req[p].seen.text)
          /\ reborn' = IF req[p].seen.pk = doc.pk THEN reborn ELSE reborn \cup doc.text
          /\ UNCHANGED tangled
     ELSE UNCHANGED <<doc, versions, index, idle, unused>> /\ Stays

\* import_bundle: the app's copy, written past the lock, and the document locked.
Import(b) ==
  /\ Writable(doc, "new_version")
  /\ versions' = [versions EXCEPT ![doc.head + 1] = {b}]
  /\ SyncHead([doc EXCEPT !.locked = TRUE], doc.head + 1, {b})
  /\ unused' = unused \ {b}
  /\ UNCHANGED <<req, tangled, inplace, lost, reborn>>
-----------------------------------------------------------------------------
(* The web views, restore and archive: load, then write *)

Edits == {"put", "new_version", "overwrite", "restore", "meta", "lock", "archive", "delete"}
Retains == {"sweep", "prune"}
Ops == Edits \cup Retains
\* The operations a lock refuses: put tests it again, the superuser's own toggle does not.
LockGuards == {"new_version", "overwrite", "restore", "meta", "archive", "delete"}

\* What the operation goes on to use of the row it loads.
Needed(op) ==
  LET row == [NoDoc EXCEPT !.pk = doc.pk]
      said == [row EXCEPT !.text = doc.text]
  IN CASE op = "put" -> [said EXCEPT !.version = doc.version]
       [] op \in {"new_version", "overwrite", "restore", "prune"} ->
            [row EXCEPT !.head = doc.head]
       [] op = "sweep" -> [said EXCEPT !.head = doc.head]
       [] op = "lock" -> [said EXCEPT !.locked = doc.locked]
       [] op = "archive" -> [said EXCEPT !.archived = doc.archived]
       [] op = "delete" -> row
       [] OTHER -> doc

Load(p, op) ==
  /\ req[p].pc = "idle" /\ doc.exists
  /\ op \in LockGuards => ~doc.locked
  /\ op = "sweep" => ~doc.archived
  /\ Goto(p, [Idle EXCEPT !.pc = "loaded", !.op = op, !.seen = Needed(op),
                          !.old = op = "sweep" /\ idle])
  /\ UNCHANGED <<doc, versions, index, idle, unused>> /\ Stays

\* A view that writes a version writes the one after the head it loaded, or that head.
Edit(p, b) ==
  LET d == req[p].seen
      mode == req[p].op
  IN /\ req[p].pc = "loaded" /\ mode \in {"new_version", "overwrite"}
     /\ Goto(p, Idle)
     /\ IF Writable(d, mode)
        THEN /\ WriteVersion(d, mode, b)
             /\ unused' = unused \ {b}
             /\ tangled' = (tangled \/ d.head # doc.head)
             /\ UNCHANGED <<lost, reborn>>
        ELSE UNCHANGED <<doc, versions, index, idle, unused>> /\ Stays

\* restore_version: an old version's text as the next version.
Restore(p, n) ==
  LET d == req[p].seen
  IN /\ req[p].pc = "loaded" /\ req[p].op = "restore" /\ n \in Kept
     /\ Goto(p, Idle)
     /\ IF Writable(d, "new_version")
        THEN /\ versions' = [versions EXCEPT ![d.head + 1] = versions[n]]
             /\ SyncHead(doc, d.head + 1, versions[n])
             /\ tangled' = (tangled \/ d.head # doc.head)
             /\ UNCHANGED <<unused, inplace, lost, reborn>>
        ELSE UNCHANGED <<doc, versions, index, idle, unused>> /\ Stays

\* What a save outside a transaction leaves in the row.  The metadata form saves every
\* field it loaded; the other two name theirs.
Saved(p) ==
  LET d == req[p].seen
  IN CASE req[p].op = "meta" -> d
     [] req[p].op = "lock" -> [doc EXCEPT !.locked = ~d.locked]
     [] req[p].op = "archive" -> [doc EXCEPT !.archived = ~d.archived]

\* The instance whose index row is to be written.
ToIndex(d) == [Idle EXCEPT !.pc = "saved", !.seen = [NoDoc EXCEPT !.pk = d.pk, !.text = d.text]]

Save(p) ==
  /\ req[p].pc = "loaded" /\ req[p].op \in {"meta", "lock", "archive"}
  /\ IF Mine(p) /\ (req[p].op = "meta" => req[p].seen.head \in Kept \cup {0})
     THEN /\ doc' = Saved(p) /\ idle' = FALSE
          /\ Goto(p, ToIndex(req[p].seen))
          /\ tangled' = \/ tangled
                        \/ req[p].op = "meta" /\ Head(req[p].seen) # Head(doc)
     ELSE Goto(p, Idle) /\ UNCHANGED <<doc, idle, tangled>>
  /\ UNCHANGED <<versions, index, unused, blurred, inplace, lost, reborn>>

\* _on_save after such a save, and the rebuild's write: the index row from the instance as
\* it was loaded, unless that raises or the process is killed first.
IndexSaved(p) ==
  LET d == req[p].seen
  IN /\ req[p].pc = "saved"
     /\ \/ /\ index' = [index EXCEPT ![d.pk] = d.text]
           /\ blurred' = IF Mine(p) /\ d.text = doc.text THEN blurred \ {d.pk}
                         ELSE blurred \cup {d.pk}
        \/ UNCHANGED index /\ blurred' = blurred \cup {d.pk}
     /\ Goto(p, Idle)
     /\ UNCHANGED <<doc, versions, idle, unused, tangled, inplace, lost, reborn>>

\* Mutant: nothing takes the deleted document out of the index.
RemovedUnindexed(p) ==
  /\ UNCHANGED <<index, blurred>>
  /\ IF Mine(p)
     THEN /\ doc' = [NoDoc EXCEPT !.pk = doc.pk] /\ idle' = FALSE
          /\ versions' = [n \in Numbers |-> None]
     ELSE UNCHANGED <<doc, versions, idle>>

\* doc.delete: the versions and the index row go with it.
Removed(p) ==
  /\ IndexRow(req[p].seen.pk, None)
  /\ IF Mine(p)
     THEN /\ doc' = [NoDoc EXCEPT !.pk = doc.pk] /\ idle' = FALSE
          /\ versions' = [n \in Numbers |-> None]
     ELSE UNCHANGED <<doc, versions, idle>>

Delete(p) ==
  /\ req[p].pc = "loaded" /\ req[p].op = "delete"
  /\ Goto(p, Idle) /\ Removed(p)
  /\ UNCHANGED <<unused, tangled, inplace, lost, reborn>>
-----------------------------------------------------------------------------
(* Retention: the sweep, and the prune that each new version enqueues *)

\* The versions below k that are older than max_version_age_days.  A head written since
\* the prune loaded the document is younger than a day.
Aged(k) == {v \in Kept \ {doc.head} : v < k}

\* prune_versions lists what is beyond the policy, never the head it knows of.  A policy of
\* 0 versions, or of 0 days, dooms every other one, a head it does not know of included.
ListDoomed(p) ==
  /\ req[p].pc = "loaded" /\ req[p].op \in {"sweep", "prune"}
  /\ \E n \in KeepVersions, k \in 1..NumVersions + 1 :
       LET beyond == (Kept \ Latest(Kept, n)) \cup Aged(k)
       IN /\ Goto(p, [req[p] EXCEPT !.pc = "doomed",
                 !.doomed = IF Mine(p) THEN beyond \ {req[p].seen.head} ELSE {}])
          /\ tangled' = (tangled \/ (n = 0 /\ Mine(p) /\ req[p].seen.head # doc.head))
  /\ UNCHANGED <<doc, versions, index, idle, unused, blurred, inplace, lost, reborn>>

\* ... and deletes it; a sweep then asks whether the document it loaded was idle.
DeleteDoomed(p) ==
  LET doomed == IF Mine(p) THEN req[p].doomed ELSE {}
  IN /\ req[p].pc = "doomed"
     /\ versions' = [n \in Numbers |-> IF n \in doomed THEN None ELSE versions[n]]
     /\ doc' = IF doc.head \in doomed THEN [doc EXCEPT !.head = 0] ELSE doc
     /\ Goto(p, IF req[p].op = "sweep" /\ req[p].old
                THEN [req[p] EXCEPT !.pc = "expiring", !.doomed = {}] ELSE Idle)
     /\ UNCHANGED <<index, idle, unused>> /\ Stays

\* expire_document: deleted, or archived by a save that brings the loaded text along.
Expire(p) ==
  /\ req[p].pc = "expiring"
  /\ \/ "delete" \in OnExpire /\ Goto(p, Idle) /\ Removed(p)
     \/ /\ "archive" \in OnExpire /\ Mine(p)
        /\ doc' = [doc EXCEPT !.archived = TRUE] /\ idle' = FALSE
        /\ Goto(p, ToIndex(req[p].seen))
        /\ UNCHANGED <<versions, index, blurred>>
     \/ /\ "archive" \in OnExpire /\ ~Mine(p)
        /\ Goto(p, Idle)
        /\ UNCHANGED <<doc, versions, index, idle, blurred>>
  /\ UNCHANGED <<unused, tangled, inplace, lost, reborn>>
-----------------------------------------------------------------------------
(* The index rebuilt: emptied, then filled from rows read before they are written *)

RebuildClear(p) ==
  /\ req[p].pc = "idle" /\ doc.exists
  /\ index' = [k \in Pks |-> None] /\ blurred' = {}
  /\ Goto(p, [Idle EXCEPT !.pc = "cleared"])
  /\ UNCHANGED <<doc, versions, idle, unused, tangled, inplace, lost, reborn>>

RebuildRead(p) ==
  /\ req[p].pc = "cleared"
  /\ Goto(p, IF doc.exists THEN ToIndex(doc) ELSE Idle)
  /\ UNCHANGED <<doc, versions, index, idle, unused>> /\ Stays

TTLPasses ==
  /\ doc.exists /\ ~idle
  /\ idle' = TRUE
  /\ UNCHANGED <<doc, versions, index, req, unused>> /\ Stays
-----------------------------------------------------------------------------
Init ==
  /\ doc = NoDoc /\ index = [k \in Pks |-> None] /\ idle = FALSE
  /\ versions = [n \in Numbers |-> None]
  /\ req = [p \in Procs |-> Idle]
  /\ unused = Bodies
  /\ tangled = FALSE
  /\ blurred = {} /\ inplace = {} /\ lost = {} /\ reborn = {}

WebStep(p) ==
  \/ \E op \in Edits : Load(p, op)
  \/ \E b \in unused : Edit(p, b) \/ \E mode \in Modes : PutExpected(p, b, mode)
  \/ \E n \in Numbers : Restore(p, n)
  \/ Save(p) \/ IndexSaved(p) \/ Delete(p)
JobStep(p) ==
  \/ \E op \in Retains : Load(p, op)
  \/ ListDoomed(p) \/ DeleteDoomed(p) \/ Expire(p)
  \/ RebuildClear(p) \/ RebuildRead(p) \/ IndexSaved(p)

Next ==
  \/ \E b \in unused : (\E locked \in BOOLEAN : Create(b, locked)) \/ Import(b)
  \/ \E b \in unused, mode \in Modes : Put(b, mode)
  \/ \E p \in Editors : WebStep(p)
  \/ \E p \in Jobs : JobStep(p)
  \/ TTLPasses

Spec == Init /\ [][Next]_vars
-----------------------------------------------------------------------------
(* Properties *)

DocType == [exists : BOOLEAN, pk : 0..NumDocs, head : 0..NumVersions, version : 0..NumVersions,
            text : Texts, archived : BOOLEAN, locked : BOOLEAN]

\* Every variable has its type.
TypeOK ==
  /\ doc \in DocType
  /\ versions \in [Numbers -> Texts \cup {None}] /\ index \in [Pks -> Texts \cup {None}]
  /\ idle \in BOOLEAN
  /\ \A p \in Procs :
       /\ req[p].pc \in {"idle", "loaded", "saved", "doomed", "expiring", "cleared"}
       /\ req[p].op \in Ops \cup {"none"} /\ req[p].seen \in DocType
       /\ req[p].old \in BOOLEAN /\ req[p].doomed \subseteq Numbers
  /\ unused \subseteq Bodies /\ inplace \subseteq Bodies /\ lost \subseteq Bodies
  /\ reborn \subseteq Bodies /\ tangled \in BOOLEAN /\ blurred \subseteq Pks

\* However keyed writes, bundle imports, prunes, sweeps, locks and archives interleave,
\* the head of a document is its newest version, the number and the text copied into the
\* row are that version's, and retention never took it away.  Two things undo this, and
\* nothing else: a web view that acts on a head it loaded before another one was written
\* (form.save writes back every field, an overwrite goes to the old version's file), and
\* a prune under a policy of 0 that loaded the document before its head was written.
HeadIsNewest ==
  /\ TypeOK
  /\ doc.exists /\ ~tangled =>
       /\ doc.head \in Kept /\ doc.head = Newest
       /\ doc.version = doc.head /\ doc.text = versions[doc.head]

\* expected_version is an optimistic lock: the text a put replaces without its client
\* having read it is text that was written in place, which leaves the number as it was,
\* or the text of another document, created under the key after the client's was deleted,
\* whose numbers start again.
LockMissesOnlyRewritten == ~tangled => lost \subseteq inplace \cup reborn

\* Once no save or rebuild is between its row and its index row, search has the document
\* under its head's text and has nothing of the deleted ones, but for a document whose
\* last index write raised, which signals.py swallows, or came from an instance loaded
\* before the text changed (it indexes the instance that was saved, whichever fields
\* the save wrote): no interleaving alone loses an index row or leaves one behind.
IndexFollows ==
  (\A p \in Procs : req[p].pc \notin {"saved", "cleared"})
    => \A k \in Pks \ blurred :
         index[k] = IF doc.exists /\ doc.pk = k THEN doc.text ELSE None
=============================================================================
