--------------------------- MODULE DocumentsProofs ---------------------------
(***************************************************************************)
(* Theorems about Documents, for any editors, jobs, texts, numbers of         *)
(* versions, documents under the key and retention policies.  Until somebody  *)
(* goes by a head that is no longer the head, the head of a document only     *)
(* moves to a newer version: so what a prune listed stays older than it, and  *)
(* a version number of a document names one text and what was written in      *)
(* place over it.                                                             *)
(***************************************************************************)
EXTENDS Documents, FiniteSetTheorems, TLAPS

Req == [pc : {"idle", "loaded", "saved", "doomed", "expiring", "cleared"},
        op : Ops \cup {"none"}, seen : DocType, old : BOOLEAN, doomed : SUBSET Numbers]
Typed ==
  /\ doc \in DocType
  /\ versions \in [Numbers -> Texts \cup {None}] /\ index \in [Pks -> Texts \cup {None}]
  /\ idle \in BOOLEAN
  /\ req \in [Procs -> Req]
  /\ unused \subseteq Bodies /\ inplace \subseteq Bodies /\ lost \subseteq Bodies
  /\ reborn \subseteq Bodies /\ tangled \in BOOLEAN /\ blurred \subseteq Pks

\* The head is the newest version, and the row says what the version says.
HeadSound ==
  /\ doc.head \in Kept /\ \A m \in Kept : m <= doc.head
  /\ doc.version = doc.head /\ doc.text = versions[doc.head]

\* What a process goes by is a document created under the key, and if that is still the
\* one there, it fits it: what it is about to delete is older than the head, and what its
\* put has not read was written in place.
Fresh(s, d, tang, inpl) ==
  /\ s.pc \notin {"idle", "cleared"} => s.seen.pk \in Pks /\ s.seen.pk <= d.pk
  /\ s.pc = "loaded" /\ s.op = "meta" => s.seen.exists
  /\ d.exists /\ ~tang /\ s.seen.pk = d.pk =>
       /\ s.pc = "doomed" => \A n \in s.doomed : n < d.head
       /\ s.pc = "loaded" /\ s.op = "put" =>
            /\ s.seen.version <= d.version
            /\ s.seen.version = d.version => d.text \ s.seen.text \subseteq inpl

DocInv ==
  /\ Typed
  /\ doc.exists => doc.pk \in Pks
  /\ ~doc.exists => Kept = {}
  /\ doc.exists /\ ~tangled => HeadSound
  /\ \A p \in Procs : Fresh(req[p], doc, tangled, inplace)
  /\ ~tangled => lost \subseteq inplace \cup reborn

\* Document k is the one under the key; somebody has its index row to write.
Is(k) == doc.exists /\ doc.pk = k
Pend(k) == \E p \in Procs :
  req[p].pc = "cleared" \/ (req[p].pc = "saved" /\ req[p].seen.pk = k)
IndexOk(k) ==
  k \notin blurred =>
    /\ ~Is(k) => index[k] = None
    /\ Is(k) /\ ~Pend(k) => index[k] = doc.text
IndexInv == \A k \in Pks : IndexOk(k)
-----------------------------------------------------------------------------
LEMMA KeptIs ==
  ASSUME Typed
  PROVE  Kept \subseteq Numbers /\ \A n \in Kept : versions[n] \in Texts
BY DEF Typed, Kept

LEMMA NumbersAre ==
  /\ Numbers \subseteq 0..NumVersions /\ 0 \in 0..NumVersions /\ 1 \in Numbers
  /\ \A n \in Numbers : n \in Int /\ n >= 1
BY DocumentsAssumption DEF Numbers

LEMMA PksAre ==
  /\ Pks \subseteq 0..NumDocs /\ 0 \in 0..NumDocs
  /\ \A k \in 0..NumDocs : k \in Int /\ k <= k
BY DocumentsAssumption DEF Pks

LEMMA TextsAre ==
  /\ {} \in Texts /\ None \notin Texts
  /\ \A b \in Bodies : {b} \in Texts /\ \A t \in Texts : t \cup {b} \in Texts
BY DocumentsAssumption DEF Texts

LEMMA NoDocType == NoDoc \in DocType /\ ~NoDoc.exists /\ NoDoc.text = {}
BY NumbersAre, PksAre, TextsAre DEF NoDoc, DocType

LEMMA IdleType == Idle \in Req /\ Idle.pc = "idle"
BY NoDocType DEF Idle, Req

LEMMA HeadRuns ==
  ASSUME doc \in DocType
  PROVE  /\ doc.head \in Int /\ doc.version \in Int /\ doc.pk \in Int
         /\ doc.head <= doc.head /\ doc.version <= doc.version /\ doc.pk <= doc.pk
BY NumbersAre, PksAre DEF DocType

\* An index row, written or not, keeps the type of the index.
LEMMA RowType ==
  ASSUME Typed, NEW k \in Pks, NEW text \in Texts \cup {None}, IndexRow(k, text)
  PROVE  index' \in [Pks -> Texts \cup {None}] /\ blurred' \subseteq Pks
BY DEF Typed, IndexRow

\* Where the document goes: to no older head, and to other text under the same number
\* only by what is written in place; or to a new document.
Advances ==
  /\ inplace \subseteq inplace' /\ (tangled => tangled') /\ doc.pk <= doc'.pk
  /\ doc'.exists /\ ~tangled' /\ doc'.pk = doc.pk =>
       /\ doc.exists /\ doc.head <= doc'.head
       /\ \/ doc.version < doc'.version
          \/ doc'.version = doc.version /\ doc'.text \ doc.text \subseteq inplace'

LEMMA StillFresh ==
  ASSUME doc \in DocType, doc' \in DocType, Advances, NEW s \in Req,
         tangled \in BOOLEAN, tangled' \in BOOLEAN, Fresh(s, doc, tangled, inplace)
  PROVE  Fresh(s, doc', tangled', inplace')
<1>1. s.pc = "loaded" /\ s.op = "meta" => s.seen.exists  BY DEF Fresh
<1>2. /\ doc.head \in Int /\ doc'.head \in Int /\ doc.version \in Int /\ doc'.version \in Int
      /\ doc.pk \in Int /\ doc'.pk \in Int /\ doc.pk <= doc'.pk
      /\ s.seen.version \in Int /\ s.seen.pk \in Int /\ \A n \in s.doomed : n \in Int
  BY NumbersAre, PksAre DEF DocType, Req, Advances
<1>3. s.pc \notin {"idle", "cleared"} => s.seen.pk \in Pks /\ s.seen.pk <= doc'.pk
  BY <1>2 DEF Fresh
<1>4. ASSUME doc'.exists, ~tangled', s.seen.pk = doc'.pk, s.pc \in {"doomed", "loaded"}
      PROVE  /\ s.pc = "doomed" => \A n \in s.doomed : n < doc'.head
             /\ s.pc = "loaded" /\ s.op = "put" =>
                  /\ s.seen.version <= doc'.version
                  /\ s.seen.version = doc'.version
                       => doc'.text \ s.seen.text \subseteq inplace'
  <2>1. doc'.pk = doc.pk /\ s.seen.pk = doc.pk  BY <1>2, <1>4 DEF Fresh
  <2>2. doc.exists /\ ~tangled /\ doc.head <= doc'.head  BY <1>4, <2>1 DEF Advances
  <2>3. s.pc = "doomed" => \A n \in s.doomed : n < doc'.head
    BY <1>2, <2>1, <2>2 DEF Fresh
  <2>4. ASSUME s.pc = "loaded", s.op = "put"
        PROVE  /\ s.seen.version <= doc'.version
               /\ s.seen.version = doc'.version
                    => doc'.text \ s.seen.text \subseteq inplace'
    <3>1. /\ s.seen.version <= doc.version
          /\ s.seen.version = doc.version => doc.text \ s.seen.text \subseteq inplace
      BY <2>1, <2>2, <2>4 DEF Fresh
    <3>2. CASE doc.version < doc'.version  BY <1>2, <3>1, <3>2
    <3>3. CASE doc'.version = doc.version /\ doc'.text \ doc.text \subseteq inplace'
      <4>1. inplace \subseteq inplace'  BY DEF Advances
      <4>. QED  BY <3>1, <3>3, <4>1
    <3>. QED  BY <1>4, <2>1, <3>2, <3>3 DEF Advances
  <2>. QED  BY <2>3, <2>4
<1>. QED  BY <1>1, <1>3, <1>4 DEF Fresh

\* A step that keeps the head sound keeps the rest, if the process that takes it goes by
\* what is fresh.
LEMMA StepKeeps ==
  ASSUME DocInv, Advances, doc' \in DocType, versions' \in [Numbers -> Texts \cup {None}],
         index' \in [Pks -> Texts \cup {None}], idle' \in BOOLEAN, unused' \subseteq unused,
         inplace' \subseteq Bodies, lost' \subseteq Bodies, reborn' \subseteq Bodies,
         tangled' \in BOOLEAN, blurred' \subseteq Pks,
         \/ UNCHANGED req
         \/ \E p \in Procs, s \in Req : Goto(p, s) /\ Fresh(s, doc', tangled', inplace'),
         doc'.exists => doc'.pk \in Pks, ~doc'.exists => Kept' = {},
         doc'.exists /\ ~tangled' => HeadSound',
         ~tangled' => lost' \subseteq inplace' \cup reborn'
  PROVE  DocInv'
<1>1. \A q \in Procs : Fresh(req[q], doc', tangled', inplace')
  BY StillFresh DEF DocInv, Typed
<1>2. CASE UNCHANGED req
  <2>1. Typed'  BY <1>2 DEF DocInv, Typed
  <2>. QED  BY <1>1, <1>2, <2>1 DEF DocInv
<1>3. CASE \E p \in Procs, s \in Req : Goto(p, s) /\ Fresh(s, doc', tangled', inplace')
  <2>1. PICK p \in Procs, s \in Req : Goto(p, s) /\ Fresh(s, doc', tangled', inplace')
    BY <1>3
  <2>2. /\ req' \in [Procs -> Req] /\ req'[p] = s
        /\ \A q \in Procs : q # p => req'[q] = req[q]
    BY <2>1 DEF Goto, DocInv, Typed
  <2>3. Typed'  BY <2>2 DEF DocInv, Typed
  <2>4. \A q \in Procs : Fresh(req'[q], doc', tangled', inplace')
    BY <1>1, <2>1, <2>2
  <2>. QED  BY <2>3, <2>4 DEF DocInv
<1>. QED  BY <1>2, <1>3

\* What a process that waits for nothing goes by only has to be a document of the key.
LEMMA Waiting ==
  ASSUME NEW s, s.pc \notin {"loaded", "doomed"}, NEW d, NEW tang, NEW inpl,
         s.pc \notin {"idle", "cleared"} => s.seen.pk \in Pks /\ s.seen.pk <= d.pk
  PROVE  Fresh(s, d, tang, inpl)
BY DEF Fresh

\* The row a process loaded was one under the key.
LEMMA Loaded ==
  ASSUME DocInv, NEW p \in Procs, req[p].pc \notin {"idle", "cleared"}
  PROVE  /\ req[p] \in Req /\ req[p].seen \in DocType
         /\ req[p].seen.pk \in Pks /\ req[p].seen.pk <= doc.pk
BY DEF DocInv, Typed, Fresh, Req
-----------------------------------------------------------------------------
(* What a write makes of the document *)

Written ==
  /\ doc' \in DocType /\ doc'.exists /\ doc'.pk = doc.pk
  /\ versions' \in [Numbers -> Texts \cup {None}]
  /\ index' \in [Pks -> Texts \cup {None}] /\ blurred' \subseteq Pks /\ idle' = FALSE
  /\ inplace' \subseteq Bodies /\ Advances
  /\ ~tangled' => HeadSound'

\* A new version after h, which is the head unless the step is remembered as tangled.
LEMMA NewVersion ==
  ASSUME DocInv, NEW base \in DocType, base.exists, base.pk = doc.pk, doc.exists,
         NEW h, h \in Kept \cup {0},
         h + 1 \in Numbers \ Kept, NEW text \in Texts,
         versions' = [versions EXCEPT ![h + 1] = text], SyncHead(base, h + 1, text),
         UNCHANGED inplace, tangled => tangled', ~tangled' => h = doc.head
  PROVE  Written
<1>1. doc' = [base EXCEPT !.head = h + 1, !.version = h + 1, !.text = text]
  BY DEF SyncHead
<1>2. h + 1 \in 0..NumVersions  BY NumbersAre
<1>3. /\ doc' \in DocType /\ doc'.exists /\ doc'.head = h + 1 /\ doc'.version = h + 1
      /\ doc'.text = text /\ doc'.pk = doc.pk
  BY <1>1, <1>2 DEF DocType
<1>4. versions' \in [Numbers -> Texts \cup {None}]  BY DEF DocInv, Typed
<1>5. ASSUME ~tangled' PROVE HeadSound' /\ doc.head <= doc'.head /\ doc.version < doc'.version
  <2>1. HeadSound /\ h = doc.head  BY <1>5 DEF DocInv
  <2>2. Kept' = Kept \cup {h + 1} /\ versions'[h + 1] = text
    BY TextsAre DEF DocInv, Typed, Kept
  <2>3. \A m \in Kept' : m \in Int  BY NumbersAre, <1>4 DEF Kept
  <2>4. h \in Int /\ \A m \in Kept' : m <= h + 1
    BY <2>1, <2>2, <2>3 DEF HeadSound
  <2>. QED  BY <1>3, <2>1, <2>2, <2>4 DEF HeadSound
<1>6. doc.pk <= doc'.pk  BY <1>3, HeadRuns DEF DocInv, Typed
<1>7. Advances  BY <1>5, <1>6 DEF Advances
<1>8. index' \in [Pks -> Texts \cup {None}] /\ blurred' \subseteq Pks
  BY RowType DEF SyncHead, DocInv
<1>. QED  BY <1>3, <1>4, <1>5, <1>7, <1>8 DEF Written, SyncHead, DocInv, Typed

\* The file of version h written over.
LEMMA InPlace ==
  ASSUME DocInv, doc.exists, NEW h, h \in Kept, NEW text \in Texts,
         versions' = [versions EXCEPT ![h] = text], doc' = [doc EXCEPT !.text = text],
         IndexRow(doc.pk, text), idle' = FALSE,
         inplace \subseteq inplace', inplace' \subseteq Bodies,
         tangled => tangled', ~tangled' => h = doc.head /\ text \ doc.text \subseteq inplace'
  PROVE  Written
<1>1. /\ doc' \in DocType /\ doc'.exists /\ doc'.head = doc.head
      /\ doc'.version = doc.version /\ doc'.text = text /\ doc'.pk = doc.pk
  BY DEF DocInv, Typed, DocType
<1>2. versions' \in [Numbers -> Texts \cup {None}] /\ Kept' = Kept /\ versions'[h] = text
  BY TextsAre DEF DocInv, Typed, Kept
<1>3. ~tangled' => HeadSound'  BY <1>1, <1>2 DEF DocInv, HeadSound
<1>4. doc.head <= doc'.head /\ doc.pk <= doc'.pk
  BY <1>1, HeadRuns DEF DocInv, Typed
<1>5. Advances  BY <1>1, <1>4 DEF Advances
<1>6. index' \in [Pks -> Texts \cup {None}] /\ blurred' \subseteq Pks
  BY RowType DEF DocInv
<1>. QED  BY <1>1, <1>2, <1>3, <1>5, <1>6 DEF Written

LEMMA WriteIs ==
  ASSUME DocInv, NEW d, NEW mode \in Modes, NEW b \in unused, Writable(d, mode),
         WriteVersion(d, mode, b), tangled => tangled', ~tangled' => d.head = doc.head
  PROVE  Written
<1> DEFINE text == Combined(d, mode, b)
<1>1. b \in Bodies /\ doc.exists /\ d.head \in Kept \cup {0}
  BY DEF DocInv, Typed, Writable
<1>2. d.head \in Kept => versions[d.head] \in Texts  BY KeptIs DEF DocInv
<1>3. text \in Texts  BY <1>1, <1>2, TextsAre DEF Combined
<1>4. CASE mode \in {"new_version", "append_version"}
  <2>1. /\ versions' = [versions EXCEPT ![d.head + 1] = text]
        /\ SyncHead(doc, d.head + 1, text) /\ UNCHANGED inplace
    BY <1>4 DEF WriteVersion
  <2>2. d.head + 1 \in Numbers \ Kept  BY <1>4 DEF Writable
  <2> HIDE DEF text
  <2>. QED  BY <1>1, <1>3, <2>1, <2>2, NewVersion DEF DocInv, Typed
<1>5. CASE mode \notin {"new_version", "append_version"}
  <2>1. /\ versions' = [versions EXCEPT ![d.head] = text]
        /\ doc' = [doc EXCEPT !.text = text]
        /\ IndexRow(doc.pk, text) /\ idle' = FALSE
        /\ inplace' = inplace \cup {b}
    BY <1>5 DEF WriteVersion
  <2>2. inplace \subseteq inplace' /\ inplace' \subseteq Bodies
    BY <1>1, <2>1 DEF DocInv, Typed
  <2>3. d.head \in Kept  BY <1>5 DEF Writable
  <2>4. text \subseteq versions[d.head] \cup {b}  BY DEF Combined
  <2>5. ~tangled' => text \ doc.text \subseteq inplace'
    BY <1>1, <2>1, <2>4 DEF DocInv, HeadSound
  <2> HIDE DEF text
  <2>. QED  BY <1>1, <1>3, <2>1, <2>2, <2>3, <2>5, InPlace
<1>. QED  BY <1>4, <1>5
-----------------------------------------------------------------------------
(* The actions *)

LEMMA IdleFresh ==
  ASSUME NEW d, NEW tang, NEW inpl
  PROVE  Idle \in Req /\ Idle.pc = "idle" /\ Fresh(Idle, d, tang, inpl)
BY IdleType, Waiting

LEMMA WrittenKeeps ==
  ASSUME DocInv, Written, doc.exists, unused' \subseteq unused, lost' \subseteq Bodies,
         reborn' \subseteq Bodies, tangled' \in BOOLEAN,
         ~tangled' => lost' \subseteq inplace' \cup reborn',
         UNCHANGED req \/ \E p \in Procs : Goto(p, Idle)
  PROVE  DocInv'
<1>1. idle' \in BOOLEAN /\ doc'.pk \in Pks  BY DEF Written, DocInv
<1>2. \/ UNCHANGED req
      \/ \E p \in Procs, s \in Req : Goto(p, s) /\ Fresh(s, doc', tangled', inplace')
  BY IdleFresh
<1>. QED  BY <1>1, <1>2, StepKeeps DEF Written

\* A step that leaves the document and its versions alone.
LEMMA StillKeeps ==
  ASSUME DocInv, UNCHANGED <<doc, versions, unused, inplace, lost, reborn>>,
         index' \in [Pks -> Texts \cup {None}], idle' \in BOOLEAN, blurred' \subseteq Pks,
         tangled' \in BOOLEAN, tangled => tangled',
         \/ UNCHANGED req
         \/ \E p \in Procs, s \in Req : Goto(p, s) /\ Fresh(s, doc, tangled', inplace)
  PROVE  DocInv'
<1>1. Advances  BY HeadRuns DEF Advances, DocInv, Typed
<1>2. /\ Kept' = Kept /\ HeadSound' = HeadSound  BY DEF Kept, HeadSound
<1>3. \/ UNCHANGED req
      \/ \E p \in Procs, s \in Req : Goto(p, s) /\ Fresh(s, doc', tangled', inplace')
  OBVIOUS
<1>. QED  BY <1>1, <1>2, <1>3, StepKeeps DEF DocInv, Typed

\* A new document under the key: nobody has loaded it yet.
LEMMA CreateKeeps ==
  ASSUME DocInv, NEW b \in unused, NEW locked \in BOOLEAN, Create(b, locked) PROVE DocInv'
<1>1. /\ ~doc.exists /\ doc.pk + 1 \in Pks /\ Kept = {} /\ b \in Bodies
      /\ unused' = unused \ {b} /\ UNCHANGED <<req, tangled, inplace, lost, reborn>>
  BY DEF Create, DocInv, Typed
<1> DEFINE base == [NoDoc EXCEPT !.exists = TRUE, !.pk = doc.pk + 1, !.locked = locked]
<1>2. versions' = [versions EXCEPT ![1] = {b}] /\ SyncHead(base, 1, {b})
  BY DEF Create
<1>3. base \in DocType /\ base.exists /\ base.pk = doc.pk + 1
  BY <1>1, NoDocType, PksAre DEF DocType
<1>4. doc' = [base EXCEPT !.head = 1, !.version = 1, !.text = {b}]
  BY <1>2 DEF SyncHead
<1> HIDE DEF base
<1>5. 1 \in Numbers /\ 1 \in 0..NumVersions /\ {b} \in Texts
  BY <1>1, NumbersAre, TextsAre
<1>6. /\ doc' \in DocType /\ doc'.exists /\ doc'.head = 1 /\ doc'.version = 1
      /\ doc'.text = {b} /\ doc'.pk = doc.pk + 1
  BY <1>3, <1>4, <1>5 DEF DocType
<1>7. versions' \in [Numbers -> Texts \cup {None}] /\ Kept' = {1} /\ versions'[1] = {b}
  BY <1>1, <1>2, <1>5, TextsAre DEF DocInv, Typed, Kept
<1>8. HeadSound'  BY <1>6, <1>7 DEF HeadSound
<1>9. doc.pk <= doc'.pk /\ doc'.pk # doc.pk
  BY <1>6, HeadRuns DEF DocInv, Typed
<1>10. Advances  BY <1>1, <1>9 DEF Advances
<1>11. index' \in [Pks -> Texts \cup {None}] /\ blurred' \subseteq Pks /\ idle' \in BOOLEAN
  BY <1>1, <1>2, <1>3, <1>5, RowType DEF SyncHead, DocInv
<1>. QED
  BY <1>1, <1>6, <1>7, <1>8, <1>10, <1>11, StepKeeps DEF DocInv, Typed

LEMMA ImportKeeps == ASSUME DocInv, NEW b \in unused, Import(b) PROVE DocInv'
<1> DEFINE base == [doc EXCEPT !.locked = TRUE]
<1>1. base \in DocType /\ base.exists = doc.exists /\ base.pk = doc.pk
  BY DEF DocInv, Typed, DocType
<1>2. /\ doc.exists /\ doc.head \in Kept \cup {0} /\ doc.head + 1 \in Numbers \ Kept
      /\ versions' = [versions EXCEPT ![doc.head + 1] = {b}]
      /\ SyncHead(base, doc.head + 1, {b})
      /\ unused' \subseteq unused /\ UNCHANGED <<req, tangled, inplace, lost, reborn>>
  BY DEF Import, Writable
<1>3. {b} \in Texts  BY TextsAre DEF DocInv, Typed
<1> HIDE DEF base
<1>4. Written  BY <1>1, <1>2, <1>3, NewVersion
<1>. QED  BY <1>2, <1>4, WrittenKeeps DEF DocInv, Typed

LEMMA PutKeeps ==
  ASSUME DocInv, NEW b \in unused, NEW mode \in Modes, Put(b, mode) PROVE DocInv'
<1>1. /\ Writable(doc, mode) /\ WriteVersion(doc, mode, b) /\ unused' \subseteq unused
      /\ UNCHANGED <<req, tangled, lost, reborn>> /\ doc.exists
  BY DEF Put, Writable
<1>2. Written  BY <1>1, WriteIs
<1>. QED  BY <1>1, <1>2, WrittenKeeps DEF DocInv, Typed, Written, Advances

\* What a put replaces unread is what the lock cannot see.
LEMMA PutExpectedKeeps ==
  ASSUME DocInv, NEW p \in Procs, NEW b \in unused, NEW mode \in Modes,
         PutExpected(p, b, mode)
  PROVE  DocInv'
<1>1. Goto(p, Idle) /\ req[p] \in Req /\ req[p].pc = "loaded" /\ req[p].op = "put"
  BY DEF PutExpected, DocInv, Typed
<1>2. CASE Writable(doc, mode) /\ ~doc.locked /\ doc.version = req[p].seen.version
  <2>1. /\ WriteVersion(doc, mode, b) /\ unused' \subseteq unused
        /\ lost' = lost \cup ((doc.text \ doc'.text) \ req[p].seen.text)
        /\ reborn' = IF req[p].seen.pk = doc.pk THEN reborn ELSE reborn \cup doc.text
        /\ UNCHANGED tangled /\ doc.exists
    BY <1>2 DEF PutExpected, Writable
  <2>2. Written  BY <1>2, <2>1, WriteIs
  <2>3. lost' \subseteq Bodies /\ reborn' \subseteq Bodies
    BY <2>1 DEF DocInv, Typed, DocType, Texts
  <2>4. ~tangled /\ req[p].seen.pk = doc.pk => doc.text \ req[p].seen.text \subseteq inplace
    BY <1>1, <1>2, <2>1 DEF DocInv, Fresh
  <2>5. ~tangled' => lost' \subseteq inplace' \cup reborn'
    <3>1. inplace \subseteq inplace'  BY <2>2 DEF Written, Advances
    <3>2. ~tangled => lost \subseteq inplace \cup reborn  BY DEF DocInv
    <3>3. CASE req[p].seen.pk = doc.pk  BY <2>1, <2>4, <3>1, <3>2, <3>3
    <3>4. CASE req[p].seen.pk # doc.pk  BY <2>1, <3>1, <3>2, <3>4
    <3>. QED  BY <3>3, <3>4
  <2>. QED  BY <1>1, <2>1, <2>2, <2>3, <2>5, WrittenKeeps DEF DocInv, Typed
<1>3. CASE ~(Writable(doc, mode) /\ ~doc.locked /\ doc.version = req[p].seen.version)
  BY <1>1, <1>3, IdleFresh, StillKeeps DEF PutExpected, Stays, DocInv, Typed
<1>. QED  BY <1>2, <1>3

LEMMA NeededIs ==
  ASSUME DocInv, doc.exists, NEW op \in Ops
  PROVE  /\ Needed(op) \in DocType /\ Needed(op).pk = doc.pk
         /\ op = "meta" => Needed(op).exists
         /\ op = "put" => Needed(op).version = doc.version /\ Needed(op).text = doc.text
<1>1. doc \in DocType /\ NoDoc \in DocType  BY NoDocType DEF DocInv, Typed
<1>2. CASE op = "put"  BY <1>1, <1>2 DEF Needed, DocType
<1>3. CASE op \in {"new_version", "overwrite", "restore", "prune"}
  BY <1>1, <1>3 DEF Needed, DocType
<1>4. CASE op = "sweep"  BY <1>1, <1>4 DEF Needed, DocType
<1>5. CASE op = "lock"  BY <1>1, <1>5 DEF Needed, DocType
<1>6. CASE op = "archive"  BY <1>1, <1>6 DEF Needed, DocType
<1>7. CASE op = "delete"  BY <1>1, <1>7 DEF Needed, DocType
<1>8. CASE op = "meta"  BY <1>1, <1>8 DEF Needed
<1>. QED
  BY <1>2, <1>3, <1>4, <1>5, <1>6, <1>7, <1>8 DEF Ops, Edits, Retains

LEMMA LoadKeeps == ASSUME DocInv, NEW p \in Procs, NEW op \in Ops, Load(p, op) PROVE DocInv'
<1> DEFINE s == [Idle EXCEPT !.pc = "loaded", !.op = op, !.seen = Needed(op),
                             !.old = op = "sweep" /\ idle]
<1>1. doc.exists /\ Goto(p, s) /\ UNCHANGED <<doc, versions, index, idle, unused>> /\ Stays
  BY DEF Load
<1>2. (op = "sweep" /\ idle) \in BOOLEAN  OBVIOUS
<1>3. s \in Req /\ s.pc = "loaded" /\ s.op = op /\ s.seen = Needed(op)
  BY <1>1, <1>2, IdleType, NeededIs DEF Req, Idle
<1> HIDE DEF s
<1>4. doc.version <= doc.version /\ doc.pk <= doc.pk /\ doc.pk \in Pks
  BY <1>1, HeadRuns DEF DocInv, Typed
<1>5. Fresh(s, doc, tangled, inplace)
  BY <1>1, <1>3, <1>4, NeededIs DEF Fresh
<1>. QED  BY <1>1, <1>3, <1>5, StillKeeps DEF Stays, DocInv, Typed

LEMMA EditKeeps ==
  ASSUME DocInv, NEW p \in Procs, NEW b \in unused, Edit(p, b) PROVE DocInv'
<1> DEFINE d == req[p].seen
           mode == req[p].op
<1>1. Goto(p, Idle) /\ mode \in Modes /\ d \in DocType
  BY DEF Edit, DocInv, Typed, Req, Modes
<1>2. CASE Writable(d, mode)
  <2>1. /\ WriteVersion(d, mode, b) /\ unused' \subseteq unused /\ UNCHANGED <<lost, reborn>>
        /\ tangled' = (tangled \/ d.head # doc.head) /\ doc.exists
    BY <1>2 DEF Edit, Writable
  <2>2. /\ tangled' \in BOOLEAN /\ (tangled => tangled')
        /\ ~tangled' => d.head = doc.head /\ ~tangled
    BY <2>1 DEF DocInv, Typed
  <2>3. Written  BY <1>1, <1>2, <2>1, <2>2, WriteIs
  <2>. QED
    BY <1>1, <2>1, <2>2, <2>3, WrittenKeeps DEF DocInv, Typed, Written, Advances
<1>3. CASE ~Writable(d, mode)
  BY <1>1, <1>3, IdleFresh, StillKeeps DEF Edit, Stays, DocInv, Typed
<1>. QED  BY <1>2, <1>3

LEMMA RestoreKeeps ==
  ASSUME DocInv, NEW p \in Procs, NEW n \in Numbers, Restore(p, n) PROVE DocInv'
<1> DEFINE d == req[p].seen
<1>1. Goto(p, Idle) /\ n \in Kept /\ d \in DocType
  BY DEF Restore, DocInv, Typed, Req
<1>2. CASE Writable(d, "new_version")
  <2>1. /\ versions' = [versions EXCEPT ![d.head + 1] = versions[n]]
        /\ SyncHead(doc, d.head + 1, versions[n])
        /\ UNCHANGED <<unused, inplace, lost, reborn>>
        /\ tangled' = (tangled \/ d.head # doc.head)
        /\ doc.exists /\ d.head \in Kept \cup {0} /\ d.head + 1 \in Numbers \ Kept
    BY <1>2 DEF Restore, Writable
  <2>2. /\ tangled' \in BOOLEAN /\ (tangled => tangled')
        /\ ~tangled' => d.head = doc.head /\ ~tangled
    BY <2>1 DEF DocInv, Typed
  <2>3. versions[n] \in Texts  BY <1>1, KeptIs DEF DocInv
  <2>4. doc \in DocType  BY DEF DocInv, Typed
  <2>5. Written  BY <1>1, <2>1, <2>2, <2>3, <2>4, NewVersion
  <2>. QED  BY <1>1, <2>1, <2>2, <2>5, WrittenKeeps DEF DocInv, Typed
<1>3. CASE ~Writable(d, "new_version")
  BY <1>1, <1>3, IdleFresh, StillKeeps DEF Restore, Stays, DocInv, Typed
<1>. QED  BY <1>2, <1>3

LEMMA ToIndexIs ==
  ASSUME NEW d \in DocType
  PROVE  /\ ToIndex(d) \in Req /\ ToIndex(d).pc = "saved"
         /\ ToIndex(d).seen.pk = d.pk /\ ToIndex(d).seen.text = d.text
<1> DEFINE seen == [NoDoc EXCEPT !.pk = d.pk, !.text = d.text]
<1>1. seen \in DocType /\ seen.pk = d.pk /\ seen.text = d.text
  BY NoDocType DEF DocType
<1>2. ToIndex(d) = [Idle EXCEPT !.pc = "saved", !.seen = seen]  BY DEF ToIndex
<1> HIDE DEF seen
<1>. QED  BY <1>1, <1>2, IdleType DEF Req, Idle

\* A save of the row: it says of the head what it said, or the step is remembered.
LEMMA RowSaved ==
  ASSUME DocInv, doc.exists, doc' \in DocType, doc'.exists, doc'.pk = doc.pk,
         NEW p \in Procs, NEW d \in DocType, d.pk = doc.pk,
         UNCHANGED <<versions, index, unused, blurred, inplace, lost, reborn>>, idle' = FALSE,
         tangled' \in BOOLEAN, tangled => tangled', ~tangled' => Head(doc') = Head(doc),
         Goto(p, ToIndex(d))
  PROVE  DocInv'
<1>1. ~tangled' => doc'.head = doc.head /\ doc'.version = doc.version /\ doc'.text = doc.text
  BY DEF Head
<1>2. doc.head <= doc.head /\ doc.pk <= doc.pk /\ doc.pk \in Pks
  BY HeadRuns DEF DocInv, Typed
<1>3. Advances  BY <1>1, <1>2 DEF Advances
<1>4. ~tangled' => HeadSound'
  BY <1>1 DEF DocInv, HeadSound, Kept
<1>5. Fresh(ToIndex(d), doc', tangled', inplace')  BY <1>2, ToIndexIs, Waiting
<1>. QED  BY <1>2, <1>3, <1>4, <1>5, ToIndexIs, StepKeeps DEF DocInv, Typed

\* What a save of a row still there makes of it.
LEMMA SavedIs ==
  ASSUME DocInv, NEW p \in Procs, req[p].pc = "loaded",
         req[p].op \in {"meta", "lock", "archive"}, Mine(p)
  PROVE  /\ Saved(p) \in DocType /\ Saved(p).exists /\ Saved(p).pk = doc.pk
         /\ req[p].op # "meta" => Head(Saved(p)) = Head(doc)
         /\ req[p].op = "meta" => Saved(p) = req[p].seen
<1>1. PICK x \in Req : x = req[p] /\ Fresh(x, doc, tangled, inplace)
  BY DEF DocInv, Typed
<1>2. doc \in DocType /\ x.seen \in DocType /\ doc.exists /\ x.seen.pk = doc.pk
  BY <1>1 DEF DocInv, Typed, Req, Mine
<1>3. CASE x.op = "meta"
  <2>1. Saved(p) = x.seen  BY <1>1, <1>3 DEF Saved
  <2>. QED  BY <1>1, <1>2, <1>3, <2>1 DEF Fresh
<1>4. CASE x.op = "lock"
  <2>1. Saved(p) = [doc EXCEPT !.locked = ~x.seen.locked]  BY <1>1, <1>4 DEF Saved
  <2>. QED  BY <1>1, <1>2, <1>4, <2>1 DEF DocType, Head
<1>5. CASE x.op = "archive"
  <2>1. Saved(p) = [doc EXCEPT !.archived = ~x.seen.archived]  BY <1>1, <1>5 DEF Saved
  <2>. QED  BY <1>1, <1>2, <1>5, <2>1 DEF DocType, Head
<1>. QED  BY <1>1, <1>3, <1>4, <1>5

LEMMA SaveKeeps == ASSUME DocInv, NEW p \in Procs, Save(p) PROVE DocInv'
<1>1. req[p].pc = "loaded" /\ req[p].op \in {"meta", "lock", "archive"}  BY DEF Save
<1>2. CASE Mine(p) /\ (req[p].op = "meta" => req[p].seen.head \in Kept \cup {0})
  <2>1. /\ doc' = Saved(p) /\ idle' = FALSE /\ Goto(p, ToIndex(req[p].seen))
        /\ tangled' = (tangled \/ (req[p].op = "meta" /\ Head(req[p].seen) # Head(doc)))
        /\ UNCHANGED <<versions, index, unused, blurred, inplace, lost, reborn>>
    BY <1>2 DEF Save
  <2>2. /\ tangled' \in BOOLEAN /\ (tangled => tangled')
        /\ ~tangled' => Head(doc') = Head(doc)
    BY <1>1, <1>2, <2>1, SavedIs DEF DocInv, Typed
  <2>3. doc.exists /\ req[p].seen.pk = doc.pk /\ req[p].seen \in DocType
    BY <1>1, <1>2, Loaded DEF Mine
  <2>. QED  BY <1>1, <1>2, <2>1, <2>2, <2>3, SavedIs, RowSaved
<1>3. CASE ~(Mine(p) /\ (req[p].op = "meta" => req[p].seen.head \in Kept \cup {0}))
  <2>1. /\ Goto(p, Idle) /\ UNCHANGED <<doc, versions, index, idle, unused>>
        /\ UNCHANGED <<tangled, blurred, inplace, lost, reborn>>
    BY <1>3 DEF Save
  <2>. QED  BY <2>1, IdleFresh, StillKeeps DEF DocInv, Typed
<1>. QED  BY <1>2, <1>3

\* The document goes, with its versions and its index row.
LEMMA RemovedKeeps ==
  ASSUME DocInv, NEW p \in Procs, req[p].pc \notin {"idle", "cleared"}, Removed(p),
         Goto(p, Idle), UNCHANGED <<unused, tangled, inplace, lost, reborn>>
  PROVE  DocInv'
<1>1. index' \in [Pks -> Texts \cup {None}] /\ blurred' \subseteq Pks
  BY RowType, Loaded DEF Removed, DocInv
<1>2. CASE Mine(p)
  <2>1. doc' = [NoDoc EXCEPT !.pk = doc.pk] /\ idle' = FALSE
        /\ versions' = [n \in Numbers |-> None]
    BY <1>2 DEF Removed
  <2>2. doc' \in DocType /\ ~doc'.exists /\ doc'.pk = doc.pk
    BY <2>1, NoDocType DEF DocType, DocInv, Typed
  <2>3. Advances  BY <2>2, HeadRuns DEF Advances, DocInv, Typed
  <2>4. versions' \in [Numbers -> Texts \cup {None}] /\ Kept' = {}  BY <2>1 DEF Kept
  <2>. QED  BY <1>1, <2>1, <2>2, <2>3, <2>4, IdleFresh, StepKeeps DEF DocInv, Typed
<1>3. CASE ~Mine(p)
  BY <1>1, <1>3, IdleFresh, StillKeeps DEF Removed, DocInv, Typed
<1>. QED  BY <1>2, <1>3

LEMMA DeleteKeeps == ASSUME DocInv, NEW p \in Procs, Delete(p) PROVE DocInv'
BY RemovedKeeps DEF Delete

\* What a policy that keeps something dooms is older than the newest version.
LEMMA BeyondIs ==
  ASSUME NEW n \in Nat \ {0}, NEW v \in Kept \ Latest(Kept, n)
  PROVE  \E m \in Kept : m > v
<1> SUFFICES ASSUME ~\E m \in Kept : m > v PROVE FALSE  OBVIOUS
<1>1. {w \in Kept : w > v} = {}  OBVIOUS
<1>2. Cardinality({w \in Kept : w > v}) = 0  BY <1>1, FS_EmptySet
<1>3. Cardinality({w \in Kept : w > v}) < n  BY <1>2
<1>. QED  BY <1>3 DEF Latest

\* What is listed is older than the head, unless the policy keeps nothing and the head is
\* not the one the prune knows of.
LEMMA ListKeeps == ASSUME DocInv, NEW p \in Procs, ListDoomed(p) PROVE DocInv'
<1>1. PICK x \in Req : x = req[p] /\ x.pc = "loaded" /\ Fresh(x, doc, tangled, inplace)
  BY DEF ListDoomed, DocInv, Typed
<1>2. PICK n \in KeepVersions, k \in 1..NumVersions + 1 :
        /\ Goto(p, [x EXCEPT !.pc = "doomed",
             !.doomed = IF Mine(p)
                        THEN ((Kept \ Latest(Kept, n)) \cup Aged(k)) \ {x.seen.head}
                        ELSE {}])
        /\ tangled' = (tangled \/ (n = 0 /\ Mine(p) /\ x.seen.head # doc.head))
  BY <1>1 DEF ListDoomed
<1> DEFINE doomed == IF Mine(p)
                     THEN ((Kept \ Latest(Kept, n)) \cup Aged(k)) \ {x.seen.head} ELSE {}
           s == [x EXCEPT !.pc = "doomed", !.doomed = doomed]
<1>3. Goto(p, s)  BY <1>2
<1>4. UNCHANGED <<doc, versions, index, idle, unused, blurred, inplace, lost, reborn>>
  BY DEF ListDoomed
<1>5. tangled' \in BOOLEAN /\ (tangled => tangled')  BY <1>2 DEF DocInv, Typed
<1>a. ~tangled' /\ n = 0 /\ Mine(p) => x.seen.head = doc.head  BY <1>2 DEF DocInv, Typed
<1>6. doomed \subseteq Kept /\ doomed \subseteq Numbers  BY DEF Kept, Aged
<1>7. doc.exists /\ ~tangled' => \A v \in doomed : v < doc.head
  <2> SUFFICES ASSUME doc.exists, ~tangled', NEW v \in doomed PROVE v < doc.head  OBVIOUS
  <2>1. HeadSound /\ v \in Kept /\ v <= doc.head
    BY <1>5, <1>6 DEF DocInv, HeadSound
  <2>2. v \in Int /\ doc.head \in Int
    BY <1>6, NumbersAre, HeadRuns DEF DocInv, Typed
  <2>3. Mine(p) /\ v # x.seen.head /\ v \in (Kept \ Latest(Kept, n)) \cup Aged(k)
    OBVIOUS
  <2>4. CASE v \in Aged(k)  BY <2>1, <2>2, <2>4 DEF Aged
  <2>5. CASE n = 0  BY <1>a, <2>1, <2>2, <2>3, <2>5
  <2>6. CASE n # 0 /\ v \in Kept \ Latest(Kept, n)
    <3>1. n \in Nat \ {0}  BY <2>6, DocumentsAssumption
    <3>2. PICK m \in Kept : m > v  BY <2>6, <3>1, BeyondIs
    <3>3. m \in Int /\ m <= doc.head  BY <2>1, NumbersAre DEF Kept, HeadSound
    <3>. QED  BY <2>2, <3>2, <3>3
  <2>. QED  BY <2>3, <2>4, <2>5, <2>6
<1> HIDE DEF doomed
<1>8. s \in Req /\ s.pc = "doomed" /\ s.doomed = doomed /\ s.seen = x.seen
  BY <1>6 DEF Req
<1> HIDE DEF s
<1>9. Fresh(s, doc, tangled', inplace)  BY <1>1, <1>7, <1>8 DEF Fresh
<1>. QED  BY <1>3, <1>4, <1>5, <1>8, <1>9, StillKeeps DEF DocInv, Typed

LEMMA DoomedKeeps == ASSUME DocInv, NEW p \in Procs, DeleteDoomed(p) PROVE DocInv'
<1>1. PICK x \in Req : x = req[p] /\ x.pc = "doomed" /\ Fresh(x, doc, tangled, inplace)
  BY DEF DeleteDoomed, DocInv, Typed
<1>2. PICK doomed \in SUBSET Numbers : doomed = IF Mine(p) THEN x.doomed ELSE {}
  BY DEF Req
<1>3. /\ versions' = [n \in Numbers |-> IF n \in doomed THEN None ELSE versions[n]]
      /\ doc' = IF doc.head \in doomed THEN [doc EXCEPT !.head = 0] ELSE doc
      /\ UNCHANGED <<index, idle, unused, tangled, blurred, inplace, lost, reborn>>
  BY <1>1, <1>2 DEF DeleteDoomed, Stays
<1>4. \E s \in Req : /\ Goto(p, s) /\ s.pc \in {"idle", "expiring"}
                     /\ s.pc = "expiring" => s.seen = x.seen
  <2>1. CASE x.op = "sweep" /\ x.old
    <3> DEFINE s == [x EXCEPT !.pc = "expiring", !.doomed = {}]
    <3>1. s \in Req /\ s.pc = "expiring" /\ s.seen = x.seen  BY DEF Req
    <3>2. Goto(p, s)  BY <1>1, <2>1 DEF DeleteDoomed
    <3> HIDE DEF s
    <3>. QED  BY <3>1, <3>2
  <2>2. CASE ~(x.op = "sweep" /\ x.old)
    BY <1>1, <2>2, IdleType DEF DeleteDoomed
  <2>. QED  BY <2>1, <2>2
<1>5. versions' \in [Numbers -> Texts \cup {None}] /\ Kept' = Kept \ doomed
  BY <1>3 DEF DocInv, Typed, Kept
<1>6. /\ doc' \in DocType /\ doc'.exists = doc.exists /\ doc'.version = doc.version
      /\ doc'.text = doc.text /\ doc'.pk = doc.pk
  BY <1>3, NumbersAre DEF DocInv, Typed, DocType
<1>7. ASSUME doc.exists, ~tangled PROVE doc' = doc /\ HeadSound'
  <2>1. doc.head \in Int /\ \A n \in doomed : n < doc.head
    BY <1>1, <1>2, <1>7, HeadRuns DEF Fresh, DocInv, Typed, Mine
  <2>2. doc.head \notin doomed  BY <2>1
  <2>3. HeadSound /\ doc' = doc  BY <1>3, <1>7, <2>2 DEF DocInv
  <2>4. doc.head \in Numbers  BY <2>3 DEF HeadSound, Kept
  <2>5. versions'[doc.head] = versions[doc.head]  BY <1>3, <2>2, <2>4
  <2>. QED  BY <1>5, <2>2, <2>3, <2>5 DEF HeadSound
<1>8. Advances
  BY <1>3, <1>6, <1>7, HeadRuns DEF Advances, DocInv, Typed
<1>9. \E s \in Req : Goto(p, s) /\ Fresh(s, doc', tangled', inplace')
  <2>1. x.seen.pk \in Pks /\ x.seen.pk <= doc'.pk  BY <1>1, <1>6 DEF Fresh
  <2>2. PICK s \in Req : /\ Goto(p, s) /\ s.pc \in {"idle", "expiring"}
                         /\ s.pc = "expiring" => s.seen = x.seen
    BY <1>4
  <2>3. s.pc \notin {"idle", "cleared"} => s.seen.pk \in Pks /\ s.seen.pk <= doc'.pk
    BY <2>1, <2>2
  <2>4. Fresh(s, doc', tangled', inplace')  BY <2>2, <2>3, Waiting
  <2>. QED  BY <2>2, <2>4
<1>10. /\ doc'.exists /\ ~tangled' => HeadSound'
       /\ ~doc'.exists => Kept' = {}
       /\ doc'.exists => doc'.pk \in Pks
       /\ ~tangled' => lost' \subseteq inplace' \cup reborn'
  BY <1>3, <1>5, <1>6, <1>7 DEF DocInv
<1>. QED
  BY <1>3, <1>5, <1>6, <1>8, <1>9, <1>10, StepKeeps DEF DocInv, Typed

LEMMA ExpireKeeps == ASSUME DocInv, NEW p \in Procs, Expire(p) PROVE DocInv'
<1>1. req[p].pc = "expiring" /\ UNCHANGED <<unused, tangled, inplace, lost, reborn>>
  BY DEF Expire
<1>2. CASE Goto(p, Idle) /\ UNCHANGED <<doc, versions, index, idle, blurred>>
  BY <1>1, <1>2, IdleFresh, StillKeeps DEF DocInv, Typed
<1>3. CASE Goto(p, Idle) /\ Removed(p)  BY <1>1, <1>3, RemovedKeeps
<1>4. CASE /\ Mine(p) /\ doc' = [doc EXCEPT !.archived = TRUE] /\ idle' = FALSE
           /\ Goto(p, ToIndex(req[p].seen))
           /\ UNCHANGED <<versions, index, blurred>>
  <2>1. doc' \in DocType /\ doc'.exists /\ Head(doc') = Head(doc) /\ doc'.pk = doc.pk
    BY <1>4 DEF DocInv, Typed, DocType, Head, Mine
  <2>2. req[p].seen \in DocType /\ req[p].seen.pk = doc.pk /\ doc.exists
    BY <1>1, <1>4, Loaded DEF Mine
  <2>. QED  BY <1>1, <1>4, <2>1, <2>2, RowSaved DEF DocInv, Typed
<1>. QED  BY <1>2, <1>3, <1>4 DEF Expire

\* Index rows written, a rebuild begun, time: the document is not touched.
LEMMA IndexKeeps ==
  ASSUME DocInv,
         \/ \E p \in Procs : IndexSaved(p) \/ RebuildClear(p) \/ RebuildRead(p)
         \/ TTLPasses \/ UNCHANGED vars
  PROVE  DocInv'
<1>1. CASE \E p \in Procs : IndexSaved(p)
  <2>1. PICK p \in Procs : IndexSaved(p)  BY <1>1
  <2>2. PICK d \in DocType : d = req[p].seen /\ d.pk \in Pks
    BY <2>1, Loaded DEF IndexSaved
  <2>3. d.text \in Texts  BY DEF DocType
  <2>4. index' \in [Pks -> Texts \cup {None}] /\ blurred' \subseteq Pks
    BY <2>1, <2>2, <2>3 DEF IndexSaved, DocInv, Typed
  <2>. QED  BY <2>1, <2>4, IdleFresh, StillKeeps DEF IndexSaved, DocInv, Typed
<1>2. CASE \E p \in Procs : RebuildClear(p)
  <2>1. PICK p \in Procs : RebuildClear(p)  BY <1>2
  <2> DEFINE s == [Idle EXCEPT !.pc = "cleared"]
  <2>2. s \in Req /\ s.pc = "cleared"  BY IdleType DEF Req
  <2>3. Goto(p, s)  BY <2>1 DEF RebuildClear
  <2> HIDE DEF s
  <2>4. Fresh(s, doc, tangled, inplace)  BY <2>2, Waiting
  <2>5. index' \in [Pks -> Texts \cup {None}] /\ blurred' \subseteq Pks
    BY <2>1 DEF RebuildClear
  <2>. QED  BY <2>1, <2>2, <2>3, <2>4, <2>5, StillKeeps DEF RebuildClear, DocInv, Typed
<1>3. CASE \E p \in Procs : RebuildRead(p)
  <2>1. PICK p \in Procs : RebuildRead(p)  BY <1>3
  <2>2. UNCHANGED <<doc, versions, index, idle, unused>> /\ Stays  BY <2>1 DEF RebuildRead
  <2>3. CASE doc.exists
    <3>1. doc \in DocType /\ doc.pk \in Pks /\ doc.pk <= doc.pk
      BY <2>3, HeadRuns DEF DocInv, Typed
    <3>2. Goto(p, ToIndex(doc))  BY <2>1, <2>3 DEF RebuildRead
    <3>3. Fresh(ToIndex(doc), doc, tangled, inplace)  BY <3>1, ToIndexIs, Waiting
    <3>. QED
      BY <2>2, <3>1, <3>2, <3>3, ToIndexIs, StillKeeps DEF Stays, DocInv, Typed
  <2>4. CASE ~doc.exists
    BY <2>1, <2>2, <2>4, IdleFresh, StillKeeps DEF RebuildRead, Stays, DocInv, Typed
  <2>. QED  BY <2>3, <2>4
<1>4. CASE TTLPasses \/ UNCHANGED vars
  BY <1>4, StillKeeps DEF TTLPasses, vars, Stays, DocInv, Typed
<1>. QED  BY <1>1, <1>2, <1>3, <1>4
-----------------------------------------------------------------------------
LEMMA InitDoc == Init => DocInv /\ IndexInv
<1> SUFFICES ASSUME Init PROVE DocInv /\ IndexInv  OBVIOUS
<1>1. Typed  BY NoDocType, IdleType DEF Init, Typed
<1>2. ~doc.exists /\ Kept = {} /\ \A p \in Procs : req[p].pc = "idle"
  BY NoDocType, IdleType DEF Init, Kept
<1>3. \A p \in Procs : Fresh(req[p], doc, tangled, inplace)  BY <1>2, Waiting
<1>4. \A k \in Pks : index[k] = None  BY DEF Init
<1>. QED  BY <1>1, <1>2, <1>3, <1>4 DEF Init, DocInv, IndexInv, IndexOk, Is

LEMMA NextDoc == DocInv /\ [Next]_vars => DocInv'
<1> SUFFICES ASSUME DocInv, [Next]_vars PROVE DocInv'  OBVIOUS
<1>1. CASE \E b \in unused : (\E locked \in BOOLEAN : Create(b, locked)) \/ Import(b)
  BY <1>1, CreateKeeps, ImportKeeps
<1>2. CASE \E b \in unused, mode \in Modes : Put(b, mode)  BY <1>2, PutKeeps
<1>3. CASE \E p \in Editors : WebStep(p)
  BY <1>3, LoadKeeps, PutExpectedKeeps, EditKeeps, RestoreKeeps, SaveKeeps, IndexKeeps,
     DeleteKeeps
  DEF WebStep, Ops, Procs
<1>4. CASE \E p \in Jobs : JobStep(p)
  BY <1>4, LoadKeeps, ListKeeps, DoomedKeeps, ExpireKeeps, IndexKeeps
  DEF JobStep, Ops, Procs
<1>5. CASE TTLPasses \/ UNCHANGED vars  BY <1>5, IndexKeeps
<1>. QED  BY <1>1, <1>2, <1>3, <1>4, <1>5 DEF Next

LEMMA DocHolds == Spec => []DocInv
BY InitDoc, NextDoc, PTL DEF Spec

\* However keyed writes, imports, prunes, sweeps, locks and archives interleave, the head
\* of a document is its newest version, its row says what that version says, and
\* retention never took it away, until a view, or a prune that keeps nothing, goes by a
\* head that is no longer the head: for any editors, jobs, texts, versions and policies.
THEOREM HeadHolds == Spec => []HeadIsNewest
<1>1. DocInv => HeadIsNewest
  <2> SUFFICES ASSUME DocInv PROVE HeadIsNewest  OBVIOUS
  <2>1. TypeOK  BY DEF DocInv, Typed, TypeOK, Req
  <2>2. ASSUME HeadSound PROVE doc.head = Newest
    <3>1. \A n \in Kept : n \in Int  BY NumbersAre DEF Kept
    <3>2. doc.head \in Kept /\ \A m \in Kept : m <= doc.head  BY <2>2 DEF HeadSound
    <3>3. Newest \in Kept /\ \A m \in Kept : m <= Newest  BY <3>2 DEF Newest
    <3>4. doc.head <= Newest /\ Newest <= doc.head  BY <3>2, <3>3
    <3>. QED  BY <3>1, <3>2, <3>3, <3>4
  <2>. QED  BY <2>1, <2>2 DEF DocInv, HeadSound, HeadIsNewest
<1>. QED  BY <1>1, DocHolds, PTL

\* What a put with expected_version replaces unread was written in place, or stood in a
\* document created under the key after the one its client read was deleted: for any
\* number of clients, writes, deletions and documents.
THEOREM LockHolds == Spec => []LockMissesOnlyRewritten
<1>1. DocInv => LockMissesOnlyRewritten  BY DEF DocInv, LockMissesOnlyRewritten
<1>. QED  BY <1>1, DocHolds, PTL
-----------------------------------------------------------------------------
(* The index: what a step does to the row of one document *)

Same(k) == index'[k] = index[k] /\ (k \in blurred' <=> k \in blurred)
StillIs(k) == Is(k) /\ Is(k)' /\ doc'.text = doc.text /\ (Pend(k) => Pend(k)')

LEMMA IndexStep ==
  ASSUME NEW k \in Pks, IndexOk(k),
         \/ k \in blurred' \/ index'[k] = IF Is(k)' THEN doc'.text ELSE None
         \/ Same(k) /\ ~Is(k) /\ ~Is(k)'
         \/ Is(k)' /\ Pend(k)'
         \/ Same(k) /\ StillIs(k)
  PROVE  IndexOk(k)'
BY DEF IndexOk, Same, StillIs

\* The row of one document is written, or raises; the other documents stay what they are.
LEMMA RowIndexed ==
  ASSUME Typed, IndexInv, NEW j \in Pks, NEW text, IndexRow(j, text),
         text = IF Is(j)' THEN doc'.text ELSE None,
         \A k \in Pks \ {j} : (~Is(k) /\ ~Is(k)') \/ StillIs(k)
  PROVE  IndexInv'
<1> SUFFICES ASSUME NEW k \in Pks PROVE IndexOk(k)'  BY DEF IndexInv
<1>1. CASE k = j
  <2>1. k \in blurred' \/ index'[k] = text  BY <1>1 DEF IndexRow, Typed
  <2>. QED  BY <1>1, <2>1, IndexStep DEF IndexInv
<1>2. CASE k # j
  <2>1. Same(k)  BY <1>2 DEF Same, IndexRow, Typed
  <2>. QED  BY <1>2, <2>1, IndexStep DEF IndexInv
<1>. QED  BY <1>1, <1>2

\* A head that is synced indexes the document under the key.
LEMMA SyncIndexes ==
  ASSUME Typed, IndexInv, NEW d \in DocType, d.exists, d.pk \in Pks,
         doc.exists => d.pk = doc.pk, NEW n, NEW text, SyncHead(d, n, text)
  PROVE  IndexInv'
<1>1. doc'.exists /\ doc'.pk = d.pk /\ doc'.text = text /\ IndexRow(d.pk, text)
  BY DEF SyncHead, DocType
<1>2. Is(d.pk)' /\ \A k \in Pks \ {d.pk} : ~Is(k) /\ ~Is(k)'
  BY <1>1 DEF Is
<1>. QED  BY <1>1, <1>2, RowIndexed

LEMMA WriteIndexes ==
  ASSUME DocInv, IndexInv, NEW d, NEW mode, Writable(d, mode), NEW b,
         WriteVersion(d, mode, b)
  PROVE  IndexInv'
<1> DEFINE text == Combined(d, mode, b)
<1>1. doc \in DocType /\ doc.exists /\ doc.pk \in Pks  BY DEF DocInv, Typed, Writable
<1>2. CASE mode \in {"new_version", "append_version"}
  <2>1. SyncHead(doc, d.head + 1, text)  BY <1>2 DEF WriteVersion
  <2> HIDE DEF text
  <2>. QED  BY <1>1, <2>1, SyncIndexes DEF DocInv
<1>3. CASE mode \notin {"new_version", "append_version"}
  <2>1. IndexRow(doc.pk, text) /\ doc' = [doc EXCEPT !.text = text]
    BY <1>3 DEF WriteVersion
  <2> HIDE DEF text
  <2>2. doc'.exists /\ doc'.pk = doc.pk /\ doc'.text = text  BY <1>1, <2>1 DEF DocType
  <2>3. Is(doc.pk)' /\ \A k \in Pks \ {doc.pk} : ~Is(k) /\ ~Is(k)'  BY <2>2 DEF Is
  <2>. QED  BY <1>1, <2>1, <2>2, <2>3, RowIndexed DEF DocInv
<1>. QED  BY <1>2, <1>3

\* A process that has no index row to write goes on, the document and the index as before.
LEMMA Leaving ==
  ASSUME Typed, IndexInv, UNCHANGED <<index, blurred>>, doc'.exists = doc.exists,
         doc'.pk = doc.pk, doc'.text = doc.text, NEW p \in Procs,
         req[p].pc \notin {"saved", "cleared"},
         \A q \in Procs : q # p => req'[q] = req[q]
  PROVE  IndexInv'
<1> SUFFICES ASSUME NEW k \in Pks PROVE IndexOk(k)'  BY DEF IndexInv
<1>1. Pend(k) => Pend(k)'  BY DEF Pend
<1>2. Same(k) /\ Is(k)' = Is(k)  BY DEF Same, Is
<1>. QED  BY <1>1, <1>2, IndexStep DEF IndexInv, StillIs

\* A process leaves somebody to write the row of the document under the key.
LEMMA SavedPends ==
  ASSUME Typed, IndexInv, NEW p \in Procs, doc.exists, doc'.exists, doc'.pk = doc.pk,
         NEW d \in DocType, d.pk = doc.pk, Goto(p, ToIndex(d)),
         UNCHANGED <<index, blurred>>
  PROVE  IndexInv'
<1> SUFFICES ASSUME NEW k \in Pks PROVE IndexOk(k)'  BY DEF IndexInv
<1>1. Pend(doc.pk)'
  <2>1. req'[p] = ToIndex(d)  BY DEF Goto, Typed
  <2>. QED  BY <2>1, ToIndexIs DEF Pend
<1>2. Same(k)  BY DEF Same
<1>3. CASE k = doc.pk  BY <1>1, <1>3, IndexStep DEF IndexInv, Is
<1>4. CASE k # doc.pk  BY <1>2, <1>4, IndexStep DEF IndexInv, Is
<1>. QED  BY <1>3, <1>4

LEMMA KeyedIndexes ==
  ASSUME DocInv, IndexInv,
         \/ \E b \in unused : (\E locked \in BOOLEAN : Create(b, locked)) \/ Import(b)
         \/ \E b \in unused, mode \in Modes : Put(b, mode)
  PROVE  IndexInv'
<1>1. doc \in DocType /\ NoDoc \in DocType /\ Typed  BY NoDocType DEF DocInv, Typed
<1>2. ASSUME NEW b \in unused, NEW locked \in BOOLEAN, Create(b, locked) PROVE IndexInv'
  <2> DEFINE base == [NoDoc EXCEPT !.exists = TRUE, !.pk = doc.pk + 1, !.locked = locked]
  <2>1. ~doc.exists /\ doc.pk + 1 \in Pks /\ SyncHead(base, 1, {b})  BY <1>2 DEF Create
  <2>2. base \in DocType /\ base.exists /\ base.pk = doc.pk + 1
    BY <1>1, <2>1, PksAre DEF DocType
  <2> HIDE DEF base
  <2>. QED  BY <1>1, <2>1, <2>2, SyncIndexes
<1>3. ASSUME NEW b \in unused, Import(b) PROVE IndexInv'
  <2> DEFINE base == [doc EXCEPT !.locked = TRUE]
  <2>1. doc.exists /\ SyncHead(base, doc.head + 1, {b})  BY <1>3 DEF Import, Writable
  <2>2. base \in DocType /\ base.exists /\ base.pk = doc.pk  BY <1>1, <2>1 DEF DocType
  <2> HIDE DEF base
  <2>3. doc.pk \in Pks  BY <2>1 DEF DocInv
  <2>. QED  BY <1>1, <2>1, <2>2, <2>3, SyncIndexes
<1>4. CASE \E b \in unused, mode \in Modes : Put(b, mode)
  BY <1>4, WriteIndexes DEF Put
<1>. QED  BY <1>2, <1>3, <1>4

LEMMA WebIndexes ==
  ASSUME DocInv, IndexInv, NEW p \in Procs, NEW b \in unused,
         Edit(p, b) \/ \E mode \in Modes : PutExpected(p, b, mode)
  PROVE  IndexInv'
<1>1. req[p].pc = "loaded" /\ Goto(p, Idle)  BY DEF PutExpected, Edit
<1>2. CASE \E d, mode : Writable(d, mode) /\ WriteVersion(d, mode, b)
  BY <1>2, WriteIndexes
<1>3. CASE UNCHANGED <<doc, index, blurred>>
  BY <1>1, <1>3, Leaving DEF DocInv, Typed, Goto
<1>. QED  BY <1>2, <1>3 DEF PutExpected, Edit, Stays

LEMMA RestoreIndexes ==
  ASSUME DocInv, IndexInv, NEW p \in Procs, NEW n \in Numbers, Restore(p, n)
  PROVE  IndexInv'
<1>1. req[p].pc = "loaded" /\ Goto(p, Idle)  BY DEF Restore
<1>2. CASE Writable(req[p].seen, "new_version")
  <2>1. doc \in DocType /\ doc.exists /\ doc.pk \in Pks
    BY <1>2 DEF Writable, DocInv, Typed
  <2>. QED  BY <1>2, <2>1, SyncIndexes DEF Restore, DocInv
<1>3. CASE ~Writable(req[p].seen, "new_version")
  BY <1>1, <1>3, Leaving DEF Restore, Stays, DocInv, Typed, Goto
<1>. QED  BY <1>2, <1>3

LEMMA SaveIndexes == ASSUME DocInv, IndexInv, NEW p \in Procs, Save(p) PROVE IndexInv'
<1>1. /\ req[p].pc = "loaded" /\ req[p].op \in {"meta", "lock", "archive"}
      /\ UNCHANGED <<index, blurred>>
  BY DEF Save
<1>2. CASE Mine(p) /\ (req[p].op = "meta" => req[p].seen.head \in Kept \cup {0})
  <2>1. doc' = Saved(p) /\ Goto(p, ToIndex(req[p].seen))  BY <1>2 DEF Save
  <2>2. /\ doc.exists /\ doc'.exists /\ doc'.pk = doc.pk
        /\ req[p].seen \in DocType /\ req[p].seen.pk = doc.pk
    BY <1>1, <1>2, <2>1, SavedIs, Loaded DEF Mine
  <2>. QED  BY <1>1, <2>1, <2>2, SavedPends DEF DocInv
<1>3. CASE ~(Mine(p) /\ (req[p].op = "meta" => req[p].seen.head \in Kept \cup {0}))
  <2>1. Goto(p, Idle) /\ UNCHANGED doc  BY <1>3 DEF Save
  <2>. QED  BY <1>1, <2>1, Leaving DEF DocInv, Typed, Goto
<1>. QED  BY <1>2, <1>3

\* Deleted by p, or deleted before: its row is removed, another document's stays.
LEMMA RemovedIndexes ==
  ASSUME DocInv, IndexInv, NEW p \in Procs, req[p].pc \in {"loaded", "expiring"},
         Removed(p), Goto(p, Idle)
  PROVE  IndexInv'
<1>1. PICK j \in Pks : j = req[p].seen.pk  BY Loaded
<1>2. IndexRow(j, None)  BY <1>1 DEF Removed
<1>3. CASE Mine(p)
  <2>1. doc' = [NoDoc EXCEPT !.pk = doc.pk] /\ doc.pk = j  BY <1>1, <1>3 DEF Removed, Mine
  <2>2. ~doc'.exists  BY <2>1, NoDocType DEF DocType
  <2>. QED  BY <1>2, <2>1, <2>2, RowIndexed DEF Is, DocInv
<1>4. CASE ~Mine(p)
  <2>1. UNCHANGED doc /\ ~Is(j)  BY <1>1, <1>4 DEF Removed, Mine, Is
  <2>2. \A k \in Pks : Pend(k) => Pend(k)'  BY DEF Pend, Goto, DocInv, Typed
  <2>3. Is(j)' = Is(j) /\ \A k \in Pks : (~Is(k) /\ ~Is(k)') \/ StillIs(k)
    BY <2>1, <2>2 DEF Is, StillIs
  <2>. QED  BY <1>2, <2>1, <2>3, RowIndexed DEF DocInv
<1>. QED  BY <1>3, <1>4

\* What is loaded, listed and pruned touches neither the text nor the index row.
LEMMA RetainIndexes ==
  ASSUME DocInv, IndexInv, NEW p \in Procs,
         \/ \E op \in Ops : Load(p, op)
         \/ ListDoomed(p) \/ DeleteDoomed(p)
  PROVE  IndexInv'
<1>1. req[p].pc \notin {"saved", "cleared"} /\ UNCHANGED <<index, blurred>>
  BY DEF Load, ListDoomed, DeleteDoomed, Stays
<1>2. doc'.exists = doc.exists /\ doc'.text = doc.text /\ doc'.pk = doc.pk
  BY DEF Load, ListDoomed, DeleteDoomed, DocInv, Typed, DocType
<1>3. \A q \in Procs : q # p => req'[q] = req[q]
  BY DEF Load, ListDoomed, DeleteDoomed, Goto, DocInv, Typed
<1>. QED  BY <1>1, <1>2, <1>3, Leaving DEF DocInv

LEMMA ExpireIndexes == ASSUME DocInv, IndexInv, NEW p \in Procs, Expire(p) PROVE IndexInv'
<1>1. req[p].pc = "expiring"  BY DEF Expire
<1>2. CASE Goto(p, Idle) /\ UNCHANGED <<doc, index, blurred>>
  BY <1>1, <1>2, Leaving DEF DocInv, Typed, Goto
<1>3. CASE Goto(p, Idle) /\ Removed(p)  BY <1>1, <1>3, RemovedIndexes
<1>4. CASE /\ Mine(p) /\ doc' = [doc EXCEPT !.archived = TRUE]
           /\ Goto(p, ToIndex(req[p].seen)) /\ UNCHANGED <<index, blurred>>
  <2>1. /\ doc.exists /\ doc'.exists /\ doc'.pk = doc.pk
        /\ req[p].seen \in DocType /\ req[p].seen.pk = doc.pk
    BY <1>1, <1>4, Loaded DEF DocInv, Typed, DocType, Mine
  <2>. QED  BY <1>4, <2>1, SavedPends DEF DocInv
<1>. QED  BY <1>2, <1>3, <1>4 DEF Expire

LEMMA IndexingIndexes ==
  ASSUME DocInv, IndexInv, NEW p \in Procs,
         IndexSaved(p) \/ RebuildClear(p) \/ RebuildRead(p)
  PROVE  IndexInv'
<1>1. CASE IndexSaved(p)
  <2>1. PICK d \in DocType : d = req[p].seen /\ d.pk \in Pks
    BY <1>1, Loaded DEF IndexSaved
  <2>2. /\ UNCHANGED doc
        /\ \/ /\ index' = [index EXCEPT ![d.pk] = d.text]
              /\ blurred' = IF Mine(p) /\ d.text = doc.text THEN blurred \ {d.pk}
                            ELSE blurred \cup {d.pk}
           \/ UNCHANGED index /\ blurred' = blurred \cup {d.pk}
    BY <1>1, <2>1 DEF IndexSaved
  <2> SUFFICES ASSUME NEW k \in Pks PROVE IndexOk(k)'  BY DEF IndexInv
  <2>3. CASE k = d.pk
    <3>1. k \in blurred' \/ (Is(k)' /\ index'[k] = doc'.text)
      BY <2>1, <2>2, <2>3 DEF Mine, Is, DocInv, Typed
    <3>. QED  BY <3>1, IndexStep DEF IndexInv
  <2>4. CASE k # d.pk
    <3>1. Same(k) /\ Is(k)' = Is(k)  BY <2>2, <2>4 DEF Same, Is, DocInv, Typed
    <3>2. \A q \in Procs : q # p => req'[q] = req[q]
      BY <1>1 DEF IndexSaved, Goto, DocInv, Typed
    <3>3. req[p].pc = "saved" /\ req[p].seen.pk # k
      BY <1>1, <2>1, <2>4 DEF IndexSaved
    <3>4. Pend(k) => Pend(k)'  BY <3>2, <3>3 DEF Pend
    <3>. QED  BY <2>2, <3>1, <3>4, IndexStep DEF IndexInv, StillIs
  <2>. QED  BY <2>3, <2>4
<1>2. CASE RebuildClear(p)
  <2>1. \A k \in Pks : Pend(k)'
    <3>1. req'[p].pc = "cleared"  BY <1>2 DEF RebuildClear, Goto, DocInv, Typed, Idle
    <3>. QED  BY <3>1 DEF Pend
  <2>2. \A k \in Pks : index'[k] = None  BY <1>2 DEF RebuildClear
  <2>. QED  BY <2>1, <2>2 DEF IndexInv, IndexOk
<1>3. CASE RebuildRead(p) /\ doc.exists
  BY <1>3, SavedPends DEF RebuildRead, Stays, DocInv, Typed
<1>4. CASE RebuildRead(p) /\ ~doc.exists
  BY <1>4 DEF RebuildRead, Stays, IndexInv, IndexOk, Is
<1>. QED  BY <1>1, <1>2, <1>3, <1>4

LEMMA NextIndex == DocInv /\ IndexInv /\ [Next]_vars => IndexInv'
<1> SUFFICES ASSUME DocInv, IndexInv, [Next]_vars PROVE IndexInv'  OBVIOUS
<1>1. CASE \/ \E b \in unused : (\E locked \in BOOLEAN : Create(b, locked)) \/ Import(b)
           \/ \E b \in unused, mode \in Modes : Put(b, mode)
  BY <1>1, KeyedIndexes
<1>2. CASE \E p \in Editors : WebStep(p)
  BY <1>2, RetainIndexes, WebIndexes, RestoreIndexes, SaveIndexes, IndexingIndexes,
     RemovedIndexes
  DEF WebStep, Delete, Ops, Procs
<1>3. CASE \E p \in Jobs : JobStep(p)
  BY <1>3, RetainIndexes, ExpireIndexes, IndexingIndexes DEF JobStep, Ops, Procs
<1>4. CASE TTLPasses \/ UNCHANGED vars
  <2>1. UNCHANGED <<doc, index, req, blurred>>  BY <1>4 DEF TTLPasses, vars, Stays
  <2>. QED  BY <2>1 DEF IndexInv, IndexOk, Is, Pend
<1>. QED  BY <1>1, <1>2, <1>3, <1>4 DEF Next

\* Once nobody is between a row and its index row, search has the document under its
\* head's text and nothing of the deleted ones, but for a document whose last index write
\* raised or came from an instance loaded before a change: for any number of editors,
\* jobs, documents under the key and policies.
THEOREM IndexHolds == Spec => []IndexFollows
<1>1. IndexInv => IndexFollows
  BY DEF IndexInv, IndexOk, IndexFollows, Is, Pend
<1>2. Spec => []IndexInv
  <2>1. Init => IndexInv  BY InitDoc
  <2>. QED  BY <2>1, NextIndex, DocHolds, PTL DEF Spec
<1>. QED  BY <1>1, <1>2, PTL
=============================================================================
