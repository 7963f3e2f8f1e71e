------------------------------- MODULE Cases -------------------------------
(***************************************************************************)
(* The case store (workspace/cases.py, api/cases.py) with its editors and  *)
(* the teammate bot (workspace/bot.py).  Cases are shared: an editor reads *)
(* one with its ETag and patches it later with If-Match; pins and notes    *)
(* are unconditional, and the bot edits with "*".  No handler awaits, so   *)
(* each is one action.  The walk through their list is a machine of its    *)
(* own, at the end.                                                        *)
(***************************************************************************)
EXTENDS Etags, FiniteSets, Sequences, SequencesExt

CONSTANTS
  Editors,
  Titles,      \* names: words in either case, with and without outer spaces
  Summaries,   \* besides the bot's own
  Sessions,    \* sessions that can be pinned
  Interval,    \* bot.INTERVAL_S, in ticks
  MaxCatchUp,  \* bot.MAX_CATCH_UP
  Jumps,       \* by how much the clock moves at a time
  MaxCases, MaxEdits, MaxTime, MaxEras  \* bounds: cases, edits between resets, time, resets

ASSUME CaseConstants ==
  /\ MaxCases \in Nat /\ MaxCases >= 2
  /\ {Interval, MaxCatchUp} \subseteq Nat \ {0}
  /\ Jumps \subseteq Nat \ {0}
  /\ {MaxEdits, MaxTime, MaxEras} \subseteq Nat

ASSUME TitlesAreNames == Titles \subseteq Names({title.word : title \in Titles})

VARIABLES
  cases,    \* _cases, in order of creation: CASE-n is cases[n]
  notes,    \* _notes
  held,     \* editor -> the case it read last: id, version, content; and the resets before
  saves,    \* history: editor -> patches saved under the tag it held
  bot,      \* _step, _edits, and how long until _due
  elapsed,  \* time since the bot was started or reset
  resets    \* history: admin resets

caseVars == <<cases, notes, held, saves, bot, elapsed, resets>>

BotCase == 2
BotSummaries == <<"beacon", "one story">>

Plain(word) == [word |-> word, upper |-> FALSE, padded |-> FALSE]

Content == [title: Titles \cup {Plain("noise"), Plain("harbor")}, severity: {"low", "medium", "high"},
            summary: Summaries \cup {"seeded", "beacon", "one story"},
            evidence: SUBSET Sessions, notes: Seq(Int)]

Nothing == [case |-> 0]

CaseTypeOK ==
  /\ cases \in Seq([version: 1..MaxEdits + 1, content: Content]) /\ Len(cases) \in 2..MaxCases
  /\ notes \in Nat
  /\ \A e \in Editors :
       \/ held[e] = Nothing
       \/ held[e] \in [case: 1..MaxCases, version: 1..MaxEdits + 1, content: Content, resets: 0..MaxEras]
  /\ saves \in [Editors -> Nat]
  /\ bot \in [step: Nat, edits: Nat, wait: Int]
  /\ elapsed \in 0..MaxTime /\ resets \in 0..MaxEras

Seeded ==
  <<[version |-> 1, content |-> [title |-> Plain("noise"), severity |-> "low", summary |-> "seeded",
                                 evidence |-> {}, notes |-> <<-1>>]],
    [version |-> 1, content |-> [title |-> Plain("harbor"), severity |-> "medium", summary |-> "seeded",
                                 evidence |-> {}, notes |-> <<-2>>]]>>

CaseInit ==
  /\ cases = Seeded /\ notes = 2
  /\ held = [e \in Editors |-> Nothing]
  /\ saves = [e \in Editors |-> 0]
  /\ bot = [step |-> 0, edits |-> 0, wait |-> Interval]
  /\ elapsed = 0 /\ resets = 0

-----------------------------------------------------------------------------
(* _bump: every edit is a new version, also one that changes nothing.      *)
Bumped(case, content) == [version |-> case.version + 1, content |-> content]

EditsUpTo[c \in 0..Len(cases)] ==
  IF c = 0 THEN 0 ELSE EditsUpTo[c - 1] + cases[c].version - 1

Edits == EditsUpTo[Len(cases)]

Put(c, content) == Edits < MaxEdits /\ cases' = [cases EXCEPT ![c] = Bumped(@, content)]

TitlesBut(c) == {cases[d].content.title : d \in DOMAIN cases \ {c}}

CreateUnversioned(title, summary) ==
  /\ Len(cases) < MaxCases
  /\ ~Clashes(title, TitlesBut(0))
  /\ cases' = Append(cases, [version |-> 0,
                             content |-> [title |-> title, severity |-> "medium", summary |-> summary,
                                          evidence |-> {}, notes |-> <<>>]])
  /\ UNCHANGED <<notes, held, saves, bot, elapsed, resets>>

Create(title, summary) ==
  /\ Len(cases) < MaxCases
  /\ ~Clashes(title, TitlesBut(0))
  /\ cases' = Append(cases, [version |-> 1,
                             content |-> [title |-> title, severity |-> "medium", summary |-> summary,
                                          evidence |-> {}, notes |-> <<>>]])
  /\ UNCHANGED <<notes, held, saves, bot, elapsed, resets>>

Read(e, c) ==
  /\ held' = [held EXCEPT ![e] = [case |-> c, version |-> cases[c].version,
                                  content |-> cases[c].content, resets |-> resets]]
  /\ UNCHANGED <<cases, notes, saves, bot, elapsed, resets>>

(* patch: the precondition, then the title, then what was sent; anything   *)
(* refused changes nothing.  A saved patch answers with the new version.   *)
Patch(e, c, tags, changes) ==
  LET content == [k \in DOMAIN cases[c].content |->
                    IF k \in DOMAIN changes THEN changes[k] ELSE cases[c].content[k]]
  IN  /\ Precondition(tags, cases[c].version, TRUE) = "ok"
      /\ "title" \in DOMAIN changes => ~Clashes(changes.title, TitlesBut(c))
      /\ Put(c, content)
      /\ saves' = IF tags = {held[e].version} THEN [saves EXCEPT ![e] = @ + 1] ELSE saves
      /\ held' = [held EXCEPT ![e] = [case |-> c, version |-> cases[c].version + 1,
                                      content |-> content, resets |-> resets]]
      /\ UNCHANGED <<notes, bot, elapsed, resets>>

(* What an editor sends: the tag it holds, or "*".                         *)
Edit(e) ==
  /\ held[e] # Nothing
  /\ held[e].case \in DOMAIN cases
  /\ \E tags \in {{held[e].version}, {AnyTag}} :
       \/ \E t \in Titles : Patch(e, held[e].case, tags, [title |-> t])
       \/ \E s \in Summaries : Patch(e, held[e].case, tags, [summary |-> s])

Pin(c, s) ==
  /\ s \notin cases[c].content.evidence
  /\ Put(c, [cases[c].content EXCEPT !.evidence = @ \cup {s}])
  /\ UNCHANGED <<notes, held, saves, bot, elapsed, resets>>

UnpinQuietly(c, s) ==
  /\ s \in cases[c].content.evidence
  /\ cases' = [cases EXCEPT ![c].content.evidence = @ \ {s}]
  /\ UNCHANGED <<notes, held, saves, bot, elapsed, resets>>

Unpin(c, s) ==
  /\ s \in cases[c].content.evidence
  /\ Put(c, [cases[c].content EXCEPT !.evidence = @ \ {s}])
  /\ UNCHANGED <<notes, held, saves, bot, elapsed, resets>>

NotedByLength(content) == [content EXCEPT !.notes = Append(@, Len(@) + 1)]

Noted(content) == [content EXCEPT !.notes = Append(@, notes + 1)]

AddNote(c) ==
  /\ Put(c, Noted(cases[c].content))
  /\ notes' = notes + 1
  /\ UNCHANGED <<held, saves, bot, elapsed, resets>>

-----------------------------------------------------------------------------
(* The teammate bot: a note, then a summary, then the severity, and again. *)

BotEdit(case, step, note) ==
  LET round == step \div 3
      content == case.content
  IN  Bumped(case, CASE step % 3 = 0 -> [content EXCEPT !.notes = Append(@, note)]
                     [] step % 3 = 1 -> [content EXCEPT !.summary = BotSummaries[(round % 2) + 1]]
                     [] step % 3 = 2 -> [content EXCEPT !.severity = IF @ = "medium" THEN "high"
                                                                    ELSE "medium"])

(* Edits due: one, and one for every interval missed, but not too many.    *)
EditsDue ==
  LET due == IF bot.wait > 0 THEN 0 ELSE 1 + (-bot.wait) \div Interval
  IN  IF due < MaxCatchUp THEN due ELSE MaxCatchUp

NewNotes(n) == Cardinality({k \in 0..n - 1 : (bot.step + k) % 3 = 0})

BotDueStill(n) == bot.wait

BotDueAfter(n) ==
  LET wait == bot.wait + n * Interval
  IN  IF wait <= 0 THEN Interval ELSE wait

(* The case after each of the n edits of a tick.                           *)
BotEdits(n) ==
  LET edits[k \in 0..n] ==
        IF k = 0 THEN cases[BotCase]
        ELSE BotEdit(edits[k - 1], bot.step + k - 1, notes + NewNotes(k))
  IN  edits

BotTick ==
  LET n == EditsDue
  IN  /\ n > 0
      /\ Edits + n <= MaxEdits
      /\ cases' = [cases EXCEPT ![BotCase] = BotEdits(n)[n]]
      /\ notes' = notes + NewNotes(n)
      /\ bot' = [step |-> bot.step + n, edits |-> bot.edits + n, wait |-> BotDueAfter(n)]
      /\ UNCHANGED <<held, saves, elapsed, resets>>

Advance(d) ==
  /\ elapsed + d <= MaxTime
  /\ elapsed' = elapsed + d
  /\ bot' = [bot EXCEPT !.wait = @ - d]
  /\ UNCHANGED <<cases, notes, held, saves, resets>>

(* POST /v1/__admin/reset seeds the store again; what clients hold stays.  *)
ResetCases ==
  /\ resets < MaxEras
  /\ resets' = resets + 1
  /\ cases' = Seeded /\ notes' = 2
  /\ bot' = [step |-> 0, edits |-> 0, wait |-> Interval]
  /\ elapsed' = 0
  /\ UNCHANGED <<held, saves>>

CaseNext ==
  \/ \E t \in Titles, s \in Summaries : Create(t, s)
  \/ \E e \in Editors : (\E c \in DOMAIN cases : Read(e, c)) \/ Edit(e)
  \/ \E c \in DOMAIN cases :
       AddNote(c) \/ \E s \in Sessions : Pin(c, s) \/ Unpin(c, s)
  \/ BotTick \/ ResetCases
  \/ \E d \in Jumps : Advance(d)

CaseSpec == CaseInit /\ [][CaseNext]_caseVars

-----------------------------------------------------------------------------
(* An edit saved under a tag is an edit of what its author had read: no    *)
(* pin, note, patch or bot edit in between is lost (unless a reset began   *)
(* the versions again).                                                    *)
NoLostEdit ==
  [][\A e \in Editors :
       saves'[e] # saves[e] /\ held[e].resets = resets
         => cases[held[e].case].content = held[e].content]_caseVars

(* Notes are append-only and their ids name one note each.                 *)
NotesStay ==
  [][resets' = resets =>
       /\ \A c \in DOMAIN cases : IsPrefix(cases[c].content.notes, cases'[c].content.notes)
       /\ \A c, d \in DOMAIN cases' : c # d =>
            ToSet(cases'[c].content.notes) \cap ToSet(cases'[d].content.notes) = {}]_caseVars

(* The bot makes at most one edit for each interval that went by, however  *)
(* the clock jumps, and is never later than it may be made up for.         *)
BotKeepsPace ==
  /\ bot.edits * Interval <= elapsed
  /\ bot.wait <= Interval

(* No two cases have one title, up to case, unless it is stored with outer *)
(* spaces: whatever spaces the titles come with, and whichever of them is  *)
(* new, renamed or seeded again (_title_taken strips only the one asked).  *)
TitlesAreTaken ==
  \A c, d \in DOMAIN cases : c # d => KeptApart(cases[c].content.title, cases[d].content.title)

-----------------------------------------------------------------------------
(***************************************************************************)
(* The list of cases (GET /v1/cases, workspace/cases.py).  It is ordered   *)
(* newest first and a cursor is a signed offset into it, while new cases   *)
(* come in at its front.  CASE-n is n; no case is ever deleted.            *)
(***************************************************************************)
CONSTANTS
  Limits,      \* values of limit a client sends
  MostListed,  \* MAX_PAGE
  MaxListed    \* bound: cases

ASSUME PageConstants ==
  /\ Limits \subseteq Nat \ {0} /\ MostListed \in Nat \ {0}
  /\ MaxListed \in Nat /\ MaxListed >= 2

VARIABLES
  listed,  \* how many cases there are
  walk     \* a client's walk: next offset, pages seen in one, cases there at its start

pageVars == <<listed, walk>>

NoWalk == [offset |-> 0, seen |-> <<>>, start |-> 0, limit |-> 0]

PagesTypeOK ==
  /\ listed \in 2..MaxListed
  /\ walk \in [offset: 0..MaxListed, seen: Seq(1..MaxListed), start: 0..MaxListed, limit: Limits \cup {0}]

PagesInit == listed = 2 /\ walk = NoWalk

Ordered == Reverse([n \in 1..listed |-> n])

PageSize(limit) == IF limit < MostListed THEN limit ELSE MostListed

WindowAfter(offset, size) ==
  SubSeq(Ordered, offset + 2, IF offset + size < listed THEN offset + size ELSE listed)

Window(offset, size) == SubSeq(Ordered, offset + 1, IF offset + size < listed THEN offset + size ELSE listed)

CaseOpened ==
  /\ listed < MaxListed
  /\ listed' = listed + 1
  /\ UNCHANGED walk

StartWalk(limit) ==
  /\ walk' = [NoWalk EXCEPT !.start = listed, !.limit = limit]
  /\ UNCHANGED listed

(* The last page carries no cursor.                                        *)
HasNext == walk.limit > 0 /\ walk.offset < listed /\ 1 \notin ToSet(walk.seen)

NextPageBySize ==
  /\ HasNext
  /\ walk' = [walk EXCEPT !.offset = @ + PageSize(walk.limit),
                          !.seen = @ \o Window(walk.offset, PageSize(walk.limit))]
  /\ UNCHANGED listed

NextPage ==
  /\ HasNext
  /\ LET page == Window(walk.offset, PageSize(walk.limit))
     IN  walk' = [walk EXCEPT !.offset = @ + Len(page), !.seen = @ \o page]
  /\ UNCHANGED listed

PagesNext == CaseOpened \/ NextPage \/ \E limit \in Limits : StartWalk(limit)

PagesSpec == PagesInit /\ [][PagesNext]_pageVars

-----------------------------------------------------------------------------
(* A walk that has no next page has shown every case that was there when   *)
(* it began, however many were opened meanwhile; those may have pushed     *)
(* some onto two pages, and a case seen again is always one of the last.   *)
WalkMissesNothing ==
  walk.limit > 0 /\ ~HasNext => 1..walk.start \subseteq ToSet(walk.seen)
=============================================================================
