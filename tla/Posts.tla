-------------------------------- MODULE Posts --------------------------------
(***************************************************************************)
(* The posts of one blog of apps/blog and the runbook page one of them may   *)
(* follow.  Every view, tool and task loads a row and saves it later, most   *)
(* of them every column of it, and nothing but the service's own transaction *)
(* stands between the two.  Transactions are IMMEDIATE, so what a service    *)
(* operation does inside one is a single step; the load before it is not.    *)
(* The names are not those of Newsletter: BlogProofs extends both modules.   *)
(***************************************************************************)
EXTENDS Integers, FiniteSets

CONSTANTS
  Posts,
  Broken,       \* posts whose publication raises
  Authors,      \* web requests, MCP calls and commands that act on posts
  Writers,      \* processes that write the page
  Resyncers,    \* workers that run resync_post_task
  Tickers,      \* workers that run publish_scheduled_posts
  Limit,        \* limit of publish_due_posts
  MaxTime,      \* bound of the model
  NumVersions,  \* bound of the model: versions of the page
  NumEdits,     \* bound of the model: writes in place per version
  MaxActs,      \* bound of the model: what people do, and processes that die or fail
  Null

ASSUME PostsAssumption ==
  /\ IsFiniteSet(Posts)
  /\ Broken \subseteq Posts /\ Limit \in Nat /\ Cardinality(Broken) < Limit
  /\ NumVersions \in Nat \ {0} /\ NumEdits \in Nat
  /\ MaxTime \in Nat /\ MaxActs \in Nat
  /\ Null \notin Int

VARIABLES
  now,
  page,     \* the runbook document: version, and writes in place since
  post,     \* the Post rows
  queue,    \* READY resync tasks of each post
  req,      \* what each process is doing, with the post as it loaded it
  tick,     \* the due rows each ticker read and has yet to publish, and when it read them
  acts,     \* what was done and who died or failed so far
  past      \* history of each post, see Marks

postVars == <<now, page, post, queue, req, tick, acts, past>>

Procs == Authors \cup Writers \cup Resyncers
Times == 0..MaxTime
\* A text is what the page held, by version and edit, or what an author typed; the html of
\* a row that was never rendered is Null.
Typed == <<0, 0>>
PageText == <<page.version, page.edits>>
Texts == {Typed} \cup ((1..NumVersions) \X (0..NumEdits))
NoPost == [exists |-> FALSE, status |-> "draft", at |-> Null, due |-> Null,
          text |-> Typed, html |-> Typed, source |-> 0, sync |-> "manual"]
Draft == [NoPost EXCEPT !.exists = TRUE]
AtEase == [pc |-> "idle", op |-> "none", post |-> Null, seen |-> NoPost]
NoTick == [now |-> 0, rows |-> << >>]
Public(r) == r.exists /\ r.status = "published"
Linked(p) == post[p].exists /\ post[p].source # 0
AutoSynced(p) == Linked(p) /\ post[p].sync = "auto"
Turn(w, r) == req' = [req EXCEPT ![w] = r]
Do(w, pc, op) == req[w].pc = pc /\ req[w].op = op
Act == acts < MaxActs /\ acts' = acts + 1

\* A resync of p is queued or under way.
Pending(p) ==
  queue[p] > 0 \/ \E w \in Procs : req[w].op = "follow" /\ req[w].post = p
-----------------------------------------------------------------------------
(* Saves *)

(* What a post's history may hold:                                           *)
(*   made      the primary key has been used                                 *)
(*   torn      a form died between its saves, or a rerender raced a new text *)
(*   retyped   an editor put a text of the page back under another version   *)
(*   turned    a process that loaded an older row wrote an older source_version *)
(*   missed    the news of a page write, or its resync, died or was dropped   *)
(*   leftover  a resync was still pending when the post was manual           *)
Marks == {"made", "torn", "retyped", "turned", "missed", "leftover"}

Follows(r) == <<r.source, r.sync>>
Retyped(r) == r.text[1] \notin {0, r.source}
Editing(p) == \E w \in Authors : req[w].op \in {"edit", "form"} /\ req[w].post = p

Marked(p, row, seen) ==
  LET marks == [made |-> TRUE,
                torn |-> row.html # row.text /\ ("torn" \in past[p] \/ seen.text # post[p].text),
                retyped |-> Retyped(row) /\ ("retyped" \in past[p] \/ Editing(p) \/ Retyped(seen)),
                turned |-> /\ row.source < page.version
                           /\ \/ "turned" \in past[p]
                              \/ seen # post[p] /\ Follows(row) # Follows(post[p]),
                missed |-> row.source < page.version /\ "missed" \in past[p],
                leftover |-> (Pending(p) /\ row.sync = "manual") \/ "leftover" \in past[p]]
  IN [past EXCEPT ![p] = {m \in Marks : marks[m]}]

\* The unique (blog, source_document): a save that breaks it raises.
Duplicate(p, row) == row.source # 0 /\ \E q \in Posts \ {p} : Linked(q)

\* save(): every column, and a row that has gone is inserted again.
Save(p, row, seen) ==
  IF Duplicate(p, row) THEN UNCHANGED <<post, past>>
  ELSE /\ post' = [post EXCEPT ![p] = row]
       /\ past' = Marked(p, row, seen)

\* save(update_fields): the named columns, and it raises when the row has gone.
SaveFields(p, row) ==
  IF post[p].exists THEN Save(p, row, post[p]) ELSE UNCHANGED <<post, past>>
-----------------------------------------------------------------------------
(* The lifecycle *)

GoneLive(d, t) ==
  [d EXCEPT !.status = "published", !.at = t, !.due = Null, !.html = d.text]

Transitions == {"publish", "unpublish", "schedule", "archive"}
Ops == Transitions \cup {"edit", "form", "resync", "rerender"}

Loaded(op, p, row) ==
  [pc |-> "loaded", op |-> op, post |-> p,
   seen |-> IF op \in {"unpublish", "archive"} THEN NoPost ELSE row]

\* What has no page to follow cannot be resynced: InvalidState.
Load(w, p, op) ==
  /\ req[w].pc = "idle" /\ post[p].exists
  /\ op \in Ops
  /\ op = "resync" => Linked(p)
  /\ Act
  /\ Turn(w, Loaded(op, p, post[p]))
  /\ UNCHANGED <<now, page, post, queue, tick, past>>

Rest == UNCHANGED <<now, page, queue, tick, acts>>

Publish(w) ==
  LET d == req[w].seen
  IN /\ Do(w, "loaded", "publish")
     /\ IF d.status = "published" /\ d.at # Null
        THEN UNCHANGED <<post, past>>
        ELSE Save(req[w].post, GoneLive(d, IF d.at # Null THEN d.at ELSE now), d)
     /\ Turn(w, AtEase) /\ Rest

\* Mutant: the draft keeps its date.
UnpublishDated(w) ==
  LET p == req[w].post
  IN /\ Do(w, "loaded", "unpublish")
     /\ SaveFields(p, [post[p] EXCEPT !.status = "draft", !.due = Null])
     /\ Turn(w, AtEase) /\ Rest

Unpublish(w) ==
  LET p == req[w].post
  IN /\ Do(w, "loaded", "unpublish")
     /\ SaveFields(p, [post[p] EXCEPT !.status = "draft", !.at = Null, !.due = Null])
     /\ Turn(w, AtEase) /\ Rest

Schedule(w) ==
  LET d == req[w].seen
  IN /\ Do(w, "loaded", "schedule")
     /\ \E t \in {u \in Times : u > now} :
          Save(req[w].post,
               [d EXCEPT !.status = "scheduled", !.due = t, !.at = Null, !.html = d.text], d)
     /\ Turn(w, AtEase) /\ Rest

Archive(w) ==
  LET p == req[w].post
  IN /\ Do(w, "loaded", "archive")
     /\ SaveFields(p, [post[p] EXCEPT !.status = "archived", !.due = Null])
     /\ Turn(w, AtEase) /\ Rest
-----------------------------------------------------------------------------
(* Editing *)

\* What an editor submits: its author's words, or what the page said when it was opened.
Submitted == {Typed} \cup {<<v, 0>> : v \in 1..page.version}

\* The studio saves what was typed, text and html at once, then turns to the button
\* that was pressed with the same instance.
AndThen(w, p, row) ==
  \/ Turn(w, AtEase)
  \/ \E op \in Transitions : Turn(w, Loaded(op, p, row))

Create(w, p) ==
  /\ req[w].pc = "idle" /\ "made" \notin past[p]
  /\ Act
  /\ Save(p, Draft, NoPost)
  /\ AndThen(w, p, Draft)
  /\ UNCHANGED <<now, page, queue, tick>>

\* The console and REST insert a row without html, and render and save it after that.
FormCreate(w, p) ==
  LET row == [Draft EXCEPT !.html = Null]
  IN /\ req[w].pc = "idle" /\ "made" \notin past[p]
     /\ Act
     /\ Save(p, row, NoPost)
     /\ Turn(w, [pc |-> "half", op |-> "form", post |-> p, seen |-> row])
     /\ UNCHANGED <<now, page, queue, tick>>

Edit(w) ==
  LET p == req[w].post
  IN /\ Do(w, "loaded", "edit")
     /\ \E t \in Submitted :
          /\ SaveFields(p, [post[p] EXCEPT !.text = t, !.html = t])
          /\ IF post[p].exists THEN AndThen(w, p, [req[w].seen EXCEPT !.text = t, !.html = t])
                               ELSE Turn(w, AtEase)
     /\ Rest

\* The console's form and the REST update save the instance, then render and save again.
FormSave(w) ==
  /\ Do(w, "loaded", "form")
  /\ \E t \in Submitted :
       LET row == [req[w].seen EXCEPT !.text = t]
       IN /\ Save(req[w].post, row, req[w].seen)
          /\ Turn(w, IF Duplicate(req[w].post, row) THEN AtEase
                     ELSE [req[w] EXCEPT !.pc = "half", !.seen = row])
  /\ Rest

FormRender(w) ==
  LET d == req[w].seen
  IN /\ Do(w, "half", "form")
     /\ Save(req[w].post, [d EXCEPT !.html = d.text], d)
     /\ Turn(w, AtEase) /\ Rest

\* rerender_posts: the html of the text that was read.
Rerender(w) ==
  LET p == req[w].post
      row == [post[p] EXCEPT !.html = req[w].seen.text]
  IN /\ Do(w, "loaded", "rerender")
     /\ IF post[p].exists THEN Save(p, row, req[w].seen) ELSE UNCHANGED <<post, past>>
     /\ Turn(w, AtEase) /\ Rest

Delete(p) ==
  /\ post[p].exists /\ p \notin Broken
  /\ Act
  /\ post' = [post EXCEPT ![p] = NoPost]
  /\ UNCHANGED <<now, page, queue, req, tick, past>>
-----------------------------------------------------------------------------
(* The page, and the post that follows it *)

\* Mutant: source_version is set by the first import and left there.
FromPageOnce(d) == [d EXCEPT !.text = PageText, !.html = PageText,
                             !.source = IF @ = 0 THEN page.version ELSE @]

FromPage(d) == [d EXCEPT !.text = PageText, !.html = PageText, !.source = page.version]

\* publish_document reads the page, the post and writes it, in one transaction.
Import(p, live, sync) ==
  LET d == IF post[p].exists THEN post[p] ELSE Draft
      row == [FromPage(d) EXCEPT !.sync = sync]
  IN /\ IF \E q \in Posts : Linked(q) THEN Linked(p) ELSE "made" \notin past[p]
     /\ Act
     /\ Save(p, IF live THEN [row EXCEPT !.status = "published",
                                         !.at = IF d.at # Null THEN d.at ELSE now]
                        ELSE row, post[p])
     /\ UNCHANGED <<now, page, queue, req, tick>>

WritePage(w) ==
  /\ req[w].pc = "idle"
  /\ Act
  /\ \/ /\ page.version < NumVersions
        /\ page' = [version |-> page.version + 1, edits |-> 0]
     \/ /\ page.edits < NumEdits
        /\ page' = [page EXCEPT !.edits = @ + 1]
  /\ Turn(w, [AtEase EXCEPT !.pc = "written"])
  /\ UNCHANGED <<now, post, queue, tick, past>>

\* Mutant: every post of the page is told.
NotifyAll(w) ==
  /\ req[w].pc = "written"
  /\ IF \E p \in Posts : Linked(p)
     THEN \E p \in {q \in Posts : Linked(q)} :
            \/ queue' = [queue EXCEPT ![p] = @ + 1] /\ Turn(w, AtEase)
            \/ Turn(w, Loaded("follow", p, post[p])) /\ UNCHANGED queue
     ELSE Turn(w, AtEase) /\ UNCHANGED queue
  /\ UNCHANGED <<now, page, post, tick, acts, past>>

\* Mutant: an enqueue that raises is the end of it.
NotifyOnce(w) ==
  /\ req[w].pc = "written"
  /\ IF \E p \in Posts : AutoSynced(p)
     THEN \E p \in {q \in Posts : AutoSynced(q)} :
            queue' \in {queue, [queue EXCEPT ![p] = @ + 1]} /\ Turn(w, AtEase)
     ELSE Turn(w, AtEase) /\ UNCHANGED queue
  /\ UNCHANGED <<now, page, post, tick, acts, past>>

\* The receiver of document_written queues a resync, or runs it itself if that raises.
Notify(w) ==
  /\ req[w].pc = "written"
  /\ IF \E p \in Posts : AutoSynced(p)
     THEN \E p \in {q \in Posts : AutoSynced(q)} :
            \/ queue' = [queue EXCEPT ![p] = @ + 1] /\ Turn(w, AtEase)
            \/ Turn(w, Loaded("follow", p, post[p])) /\ UNCHANGED queue
     ELSE Turn(w, AtEase) /\ UNCHANGED queue
  /\ UNCHANGED <<now, page, post, tick, acts, past>>

\* resync_post_task, up to its load.
TakeResync(w, p) ==
  /\ req[w].pc = "idle" /\ queue[p] > 0
  /\ queue' = [queue EXCEPT ![p] = @ - 1]
  /\ IF post[p].exists THEN Turn(w, Loaded("follow", p, post[p])) ELSE UNCHANGED req
  /\ UNCHANGED <<now, page, post, tick, acts, past>>

\* resync_post: forced by a person; a task skips when the version has not moved.
Resync(w) ==
  LET d == req[w].seen
      p == req[w].post
  IN /\ Do(w, "loaded", "resync") \/ Do(w, "loaded", "follow")
     /\ IF d.source = 0 \/ (req[w].op = "follow" /\ d.source = page.version)
        THEN UNCHANGED <<post, past>>
        ELSE Save(p, FromPage(d), d)
     /\ Turn(w, AtEase) /\ Rest
-----------------------------------------------------------------------------
(* The publisher's tick *)

\* Mutant: whoever is scheduled is due.
DueEver == {p \in Posts : post[p].exists /\ post[p].status = "scheduled"}

Due == {p \in Posts : /\ post[p].exists /\ post[p].status = "scheduled"
                      /\ post[p].due # Null /\ post[p].due <= now}

\* A tick that finds nothing, or nothing but rows that raise, leaves no trace.
TickTake(t) ==
  /\ tick[t].rows = << >> /\ Due \ Broken # {}
  /\ \E S \in SUBSET Due :
       /\ Cardinality(S) = Limit \/ (S = Due /\ Cardinality(S) < Limit)
       /\ \A p \in S, q \in Due \ S : post[p].due <= post[q].due
       /\ tick' = [tick EXCEPT ![t] = [now |-> now, rows |-> [p \in S |-> post[p]]]]
  /\ UNCHANGED <<now, page, post, queue, req, acts, past>>

First(rows) ==
  CHOOSE p \in DOMAIN rows : \A q \in DOMAIN rows : rows[p].due <= rows[q].due

\* Mutant: the row that raises ends the tick.
TickRowRaising(t) ==
  LET rows == tick[t].rows
      p == First(rows)
  IN /\ rows # << >>
     /\ IF p \in Broken THEN UNCHANGED <<post, past>>
        ELSE Save(p, GoneLive(rows[p], tick[t].now), rows[p])
     /\ tick' = [tick EXCEPT ![t] =
                   IF DOMAIN rows = {p} \/ p \in Broken THEN NoTick
                   ELSE [@ EXCEPT !.rows = [q \in DOMAIN rows \ {p} |-> rows[q]]]]
     /\ UNCHANGED <<now, page, queue, req, acts>>

\* One row; the tick goes on past one that raises.
TickRow(t) ==
  LET rows == tick[t].rows
      p == First(rows)
  IN /\ rows # << >>
     /\ IF p \in Broken THEN UNCHANGED <<post, past>>
        ELSE Save(p, GoneLive(rows[p], tick[t].now), rows[p])
     /\ tick' = [tick EXCEPT ![t] =
                   IF DOMAIN rows = {p} THEN NoTick
                   ELSE [@ EXCEPT !.rows = [q \in DOMAIN rows \ {p} |-> rows[q]]]]
     /\ UNCHANGED <<now, page, queue, req, acts>>
-----------------------------------------------------------------------------
(* Deaths, errors and time *)

\* The post that would have heard of the page, or been brought up to it.
Bereaved(w) == {p \in Posts : \/ req[w].pc = "written" /\ AutoSynced(p)
                              \/ req[w].op = "follow" /\ req[w].post = p}

Abandon(w) ==
  /\ Act
  /\ past' = [p \in Posts |->
                past[p] \cup (IF p \in Bereaved(w) THEN {"missed"} ELSE {})
                        \cup (IF req[w].pc = "half" /\ req[w].post = p
                                 /\ post[p].html # post[p].text THEN {"torn"} ELSE {})]
  /\ Turn(w, AtEase)
  /\ UNCHANGED <<now, page, post, queue, tick>>

\* A request that dies elsewhere leaves what one that never goes on does.
Die(w) ==
  /\ req[w].pc \in {"half", "written"} \/ req[w].op = "follow"
  /\ Abandon(w)

\* What raises in resync_post_task or in the receiver is logged, and the process goes on.
Swallow(w) ==
  /\ req[w].pc = "written" \/ req[w].op = "follow"
  /\ Abandon(w)

DieTicking(t) ==
  /\ tick[t].rows # << >> /\ Act
  /\ tick' = [tick EXCEPT ![t] = NoTick]
  /\ UNCHANGED <<now, page, post, queue, req, past>>

Clock ==
  /\ now < MaxTime /\ now' = now + 1
  /\ UNCHANGED <<page, post, queue, req, tick, acts, past>>
-----------------------------------------------------------------------------
\* A broken post was scheduled before whatever broke it.
PostsInit ==
  /\ now = 0
  /\ page = [version |-> 1, edits |-> 0]
  /\ post = [p \in Posts |-> IF p \in Broken
                             THEN [Draft EXCEPT !.status = "scheduled", !.due = 0]
                             ELSE NoPost]
  /\ queue = [p \in Posts |-> 0]
  /\ req = [w \in Procs |-> AtEase]
  /\ tick = [t \in Tickers |-> NoTick]
  /\ acts = 0
  /\ past = [p \in Posts |-> IF p \in Broken THEN {"made"} ELSE {}]

Request(w) ==
  \/ Publish(w) \/ Unpublish(w) \/ Schedule(w) \/ Archive(w)
  \/ Edit(w) \/ FormSave(w) \/ FormRender(w) \/ Rerender(w) \/ Resync(w)

PostsNext ==
  \/ \E w \in Authors :
       \/ \E p \in Posts \ Broken :
            Create(w, p) \/ FormCreate(w, p) \/ \E op \in Ops : Load(w, p, op)
       \/ Request(w)
  \/ \E w \in Writers : WritePage(w) \/ Notify(w) \/ Resync(w)
  \/ \E p \in Posts \ Broken :
       Delete(p) \/ \E live \in BOOLEAN, sync \in {"manual", "auto"} : Import(p, live, sync)
  \/ \E w \in Resyncers : Resync(w) \/ \E p \in Posts : TakeResync(w, p)
  \/ \E t \in Tickers : TickTake(t) \/ TickRow(t) \/ DieTicking(t)
  \/ \E w \in Procs : Die(w) \/ Swallow(w)
  \/ Clock

\* Workers take what is queued and end what they began; the scheduler queues the tick
\* every five minutes; a request that has written the page goes on to its receivers.
PostsFairness ==
  /\ \A w \in Writers : WF_postVars(Notify(w) \/ Resync(w))
  /\ \A w \in Resyncers : WF_postVars(Resync(w) \/ \E p \in Posts : TakeResync(w, p))
  /\ \A t \in Tickers : WF_postVars(TickTake(t) \/ TickRow(t))

PostsSpec == PostsInit /\ [][PostsNext]_postVars /\ PostsFairness
-----------------------------------------------------------------------------
(* Properties *)

Row == [exists : BOOLEAN, status : {"draft", "scheduled", "published", "archived"},
        at : Times \cup {Null}, due : Times \cup {Null},
        text : Texts, html : Texts \cup {Null},
        source : 0..NumVersions, sync : {"manual", "auto"}]

\* Every variable has its type, and a row its dates: a live post has the moment it went
\* live, a scheduled one the moment it will, and a draft no date to look live by.
PostsTypeOK ==
  /\ now \in Times
  /\ page.version \in 1..NumVersions /\ page.edits \in 0..NumEdits
  /\ queue \in [Posts -> Nat]
  /\ \A p \in Posts :
       LET r == post[p]
       IN /\ r \in Row
          /\ r.status = "published" => r.at # Null
          /\ r.status = "scheduled" => r.due # Null /\ r.at = Null
          /\ r.status = "draft" => r.at = Null /\ r.due = Null
  /\ \A w \in Procs : req[w].seen \in Row
  /\ past \in [Posts -> SUBSET Marks]

\* What readers see is what the row says: the html is that of the text unless a form is
\* between its two saves, died there, or a rerender raced a new text; and a text that
\* came from the page is of the version source_version names, which is all the monitor
\* and the next resync go by, unless an editor put it back.
ShowsWhatItSays ==
  \A p \in Posts :
    /\ post[p].html # post[p].text =>
         "torn" \in past[p] \/ \E w \in Authors : req[w].pc = "half" /\ req[w].post = p
    /\ Retyped(post[p]) => "retyped" \in past[p]

\* The process a step on post p belongs to, and what it had read of it.
Steps(w, p) == req'[w] # req[w] /\ req[w].post = p
Ticks(t, p) == tick'[t] # tick[t] /\ p \in DOMAIN tick[t].rows
               /\ (p \notin DOMAIN tick'[t].rows)
Overlapped(p) == \/ \E w \in Procs : Steps(w, p) /\ req[w].seen # post[p]
                 \/ \E t \in Tickers : Ticks(t, p) /\ tick[t].rows[p] # post[p]
Imports(p) == UNCHANGED <<req, tick>> /\ post'[p].text = PageText

\* Somebody publishes a post that is not live, or was not when they read it; a process
\* puts back, with its date, a live row that it had read and that has changed since.
Publishes(w, p) == req[w].op = "publish" /\ (~Public(post[p]) \/ req[w].seen # post[p])
PutsBack(w, p) == /\ Public(req[w].seen) /\ req[w].seen # post[p]
                  /\ post'[p].at = req[w].seen.at

\* The date of a live post never moves, and a post goes live only because somebody
\* publishes or imports it, or because the hour it was scheduled for had come when a tick
\* read it (whatever was done to it since); or it goes live again because a live copy of
\* it is saved by a process that read it before it was changed.
GoesLiveAsMeant ==
  [][\A p \in Posts : Public(post'[p]) =>
       \/ Public(post[p]) /\ post'[p].at = post[p].at
       \/ \E w \in Authors : Steps(w, p) /\ Publishes(w, p)
       \/ ~Public(post[p]) /\ Imports(p)
       \/ \E t \in Tickers : Ticks(t, p) /\ tick[t].rows[p].due <= tick[t].now
       \/ \E w \in Procs : Steps(w, p) /\ PutsBack(w, p)]_postVars

\* A post's text changes by its author's hand, by an import, or because it follows its
\* page.  One that does not follow it is left alone, but for a resync still pending from
\* when it did, and for a process that had read the row before.
TextChangesAsMeant ==
  [][\A p \in Posts : post[p].exists /\ post'[p].exists /\ post'[p].text # post[p].text =>
       \/ \E w \in Authors : Steps(w, p) /\ req[w].op \in {"edit", "form", "resync"}
       \/ \E w \in Procs : Steps(w, p) /\ req[w].op = "follow" /\ req[w].seen.sync = "auto"
       \/ "leftover" \in past[p]
       \/ Imports(p) \/ Overlapped(p)]_postVars

\* A scheduled post goes live once its hour has come, rows that raise notwithstanding,
\* unless its author thinks better of it.
DueGoesLive ==
  \A p \in Posts \ Broken :
    (p \in Due) ~> (p \notin Due)

Behind(p) ==
  /\ AutoSynced(p) /\ post[p].source < page.version
  /\ past[p] \cap {"missed", "turned"} = {}

\* A post that follows the page catches up with its version, unless a process died or
\* failed over it or wrote back what it had read before.
AutoPostCatchesUp == \A p \in Posts \ Broken : Behind(p) ~> ~Behind(p)
=============================================================================
