---------------------------- MODULE ResultScreen ----------------------------
(***************************************************************************)
(* The results screen of the web app watching one search: the status poll  *)
(* (use-search.ts), the pages of results (use-results.ts), the poll of the *)
(* page that can still grow (use-result-tail.ts), the Stop button          *)
(* (use-cancel-search.ts) and the choice of an order, against the search   *)
(* service of SearchJobs.                                                  *)
(*                                                                         *)
(* A call is three steps: it is sent, the server handles it, the answer is *)
(* heard (or lost).  The query library keeps one call per query in flight, *)
(* drops an aborted call's answer, and stores an answer when it arrives    *)
(* whatever was written to the same query in between.                      *)
(***************************************************************************)
EXTENDS SearchJobs

CONSTANTS
  Reader,    \* the family the screen is signed in with
  PageSize,  \* PAGE_SIZE, the limit every page is asked for with
  Orders,    \* the orders results can be read in
  ScanOrder, \* DEFAULT_SORT: the one a running search can be read in
  Losses     \* which answers the network may lose: "status", "page", "cancel"

ASSUME ScreenConstants ==
  /\ Reader \in Families
  /\ MaxSearches > 0
  /\ PageSize \in Nat \ {0}
  /\ ScanOrder \in Orders
  /\ Losses \subseteq {"status", "page", "cancel"}

VARIABLES
  status,     \* what useSearch holds
  statusCall, \* its poll
  sort,       \* the order in the address bar
  pages,      \* the cache: the pages held under each order
  pageCall,   \* the infinite query's read
  tailCall,   \* the tail's read
  cancelCall  \* the DELETE behind Stop

screen == <<status, statusCall, sort, pages, pageCall, tailCall, cancelCall>>
allVars == <<vars, screen>>

Watched == 1
Started == counter >= Watched

RunningStates == {"queued", "running"}
Gone == {"expired", "missing"}
Statuses == {"unknown"} \cup RunningStates \cup Finished \cup Gone

NoCall == [phase |-> "none"]
(* A cursor is a position in one order.                                    *)
NoCursor == [order |-> "none", offset |-> 0]
Cursor == {NoCursor} \cup [order: Orders, offset: 0..MaxTotal]
(* at: the page param.  more: next_cursor is set.                          *)
Page == [at: Cursor, order: Orders, rows: 0..PageSize, more: BOOLEAN, complete: BOOLEAN]

StatusCall == {NoCall} \cup [phase: {"sent"}] \cup [phase: {"answered"}, status: Statuses]
ReadCall == {NoCall} \cup [phase: {"sent"}, at: Cursor, order: Orders]
              \cup [phase: {"answered"}, page: Page] \cup [phase: {"refused"}, code: 400..410]
CancelCall == {NoCall} \cup [phase: {"sent"}] \cup [phase: {"answered"}]

ScreenTypeOK ==
  /\ status \in Statuses
  /\ statusCall \in StatusCall
  /\ sort \in Orders
  /\ pages \in [Orders -> Seq(Page)]
  /\ pageCall \in ReadCall
  /\ tailCall \in ReadCall
  /\ cancelCall \in CancelCall

(* The address bar may hold an order chosen for an earlier search.         *)
ScreenInit ==
  /\ Init
  /\ status = "unknown"
  /\ statusCall = NoCall
  /\ sort \in Orders
  /\ pages = [o \in Orders |-> << >>]
  /\ pageCall = NoCall /\ tailCall = NoCall /\ cancelCall = NoCall

-----------------------------------------------------------------------------
(* The service side of a read.                                             *)

(* A GET for the watched search, wherever it is.                           *)
ServeGet == Get(Reader, Watched) \/ GetMissing(Reader, Watched)

GoneStatus == IF Watched \in Range(expired') THEN "expired" ELSE "missing"
GoneCode == IF Watched \in Range(expired') THEN 410 ELSE 404

OffsetOf(cursor) == IF cursor = NoCursor THEN 0 ELSE cursor.offset

PageOfUnlimited(job, at, order) ==
  [at |-> at, order |-> order, rows |-> job.matched - OffsetOf(at), more |-> FALSE,
   complete |-> job.state \in Finished]

(* SearchService.results: a page of the first n matches.                   *)
PageOf(job, at, order) ==
  LET left == job.matched - OffsetOf(at)
      rows == IF left < PageSize THEN left ELSE PageSize
      more == rows < left
  IN  [at |-> at, order |-> order, rows |-> rows, more |-> more,
       complete |-> job.state \in Finished /\ ~more]

ResultsAnswer(job, at, order) ==
  IF order # ScanOrder /\ job.state # "done"
    THEN [phase |-> "refused", code |-> 409]
  ELSE IF at # NoCursor /\ at.order # order
    THEN [phase |-> "refused", code |-> 400]
  ELSE [phase |-> "answered", page |-> PageOf(job, at, order)]

(* What either handler answers, from the state it leaves behind.           *)
StatusAnswer ==
  [phase |-> "answered",
   status |-> IF Watched \in live' THEN jobs'[Watched].state ELSE GoneStatus]

ReadAnswer(read) ==
  IF Watched \in live' THEN ResultsAnswer(jobs'[Watched], read.at, read.order)
  ELSE [phase |-> "refused", code |-> GoneCode]

-----------------------------------------------------------------------------
(* The status poll: until there is an answer, and then while it runs.      *)

IsRunning == status \in RunningStates

AskStatusOnce ==
  /\ Started
  /\ statusCall = NoCall
  /\ status = "unknown"
  /\ statusCall' = [phase |-> "sent"]
  /\ UNCHANGED <<vars, status, sort, pages, pageCall, tailCall, cancelCall>>

AskStatus ==
  /\ Started
  /\ statusCall = NoCall
  /\ status = "unknown" \/ IsRunning
  /\ statusCall' = [phase |-> "sent"]
  /\ UNCHANGED <<vars, status, sort, pages, pageCall, tailCall, cancelCall>>

ServeStatus ==
  /\ statusCall.phase = "sent"
  /\ ServeGet
  /\ statusCall' = StatusAnswer
  /\ UNCHANGED <<status, sort, pages, pageCall, tailCall, cancelCall>>

(* A search that turns out to be gone has its reads of rows aborted; one   *)
(* that has ended only asks for no more, and a read in flight still lands. *)
HearStatus ==
  /\ statusCall.phase = "answered"
  /\ status' = statusCall.status
  /\ statusCall' = NoCall
  /\ IF status' \in Gone THEN pageCall' = NoCall /\ tailCall' = NoCall
                          ELSE UNCHANGED <<pageCall, tailCall>>
  /\ UNCHANGED <<vars, sort, pages, cancelCall>>

LoseStatus ==
  /\ "status" \in Losses
  /\ statusCall # NoCall
  /\ statusCall' = NoCall
  /\ UNCHANGED <<vars, status, sort, pages, pageCall, tailCall, cancelCall>>

-----------------------------------------------------------------------------
(* The pages.                                                              *)

LastPage(o) == pages[o][Len(pages[o])]
NextCursor(page) == [order |-> page.order, offset |-> OffsetOf(page.at) + page.rows]

RowsReadable == status # "unknown" /\ status \notin Gone

(* readResultsPage leaves the order out while the search runs.             *)
AskedOrder == IF IsRunning THEN ScanOrder ELSE sort

AskPageAgain ==
  /\ RowsReadable
  /\ pageCall = NoCall
  /\ \/ /\ pages[sort] = << >>
        /\ pageCall' = [phase |-> "sent", at |-> NoCursor, order |-> AskedOrder]
     \/ /\ pages[sort] # << >> /\ LastPage(sort).more
        /\ pageCall' = [phase |-> "sent", at |-> LastPage(sort).at, order |-> AskedOrder]
  /\ UNCHANGED <<vars, status, statusCall, sort, pages, tailCall, cancelCall>>

(* The first page, or the one a cursor leads to when the list nears its    *)
(* end.                                                                    *)
AskPage ==
  /\ RowsReadable
  /\ pageCall = NoCall
  /\ \/ /\ pages[sort] = << >>
        /\ pageCall' = [phase |-> "sent", at |-> NoCursor, order |-> AskedOrder]
     \/ /\ pages[sort] # << >> /\ LastPage(sort).more
        /\ pageCall' = [phase |-> "sent", at |-> NextCursor(LastPage(sort)), order |-> AskedOrder]
  /\ UNCHANGED <<vars, status, statusCall, sort, pages, tailCall, cancelCall>>

ServePage ==
  /\ pageCall.phase = "sent"
  /\ ServeGet
  /\ pageCall' = ReadAnswer(pageCall)
  /\ UNCHANGED <<status, statusCall, sort, pages, tailCall, cancelCall>>

HearPage ==
  /\ pageCall.phase \in {"answered", "refused"}
  /\ pageCall' = NoCall
  /\ pages' = IF pageCall.phase = "answered"
                THEN [pages EXCEPT ![sort] = Append(@, pageCall.page)]
                ELSE pages
  /\ UNCHANGED <<vars, status, statusCall, sort, tailCall, cancelCall>>

LosePage ==
  /\ "page" \in Losses
  /\ pageCall # NoCall
  /\ pageCall' = NoCall
  /\ UNCHANGED <<vars, status, statusCall, sort, pages, tailCall, cancelCall>>

-----------------------------------------------------------------------------
(* The tail: the last page is read again, at its own cursor, while the job *)
(* runs and the page ended with neither a cursor nor the end.              *)

CaughtUp ==
  pages[sort] # << >> /\ ~LastPage(sort).more /\ ~LastPage(sort).complete

AskTail ==
  /\ IsRunning /\ CaughtUp
  /\ tailCall = NoCall
  /\ tailCall' = [phase |-> "sent", at |-> LastPage(sort).at, order |-> AskedOrder]
  /\ UNCHANGED <<vars, status, statusCall, sort, pages, pageCall, cancelCall>>

ServeTail ==
  /\ tailCall.phase = "sent"
  /\ ServeGet
  /\ tailCall' = ReadAnswer(tailCall)
  /\ UNCHANGED <<status, statusCall, sort, pages, pageCall, cancelCall>>

(* tailChanged: the answer replaces the page when it says anything new.    *)
TailChanged(held, fresh) ==
  held.rows # fresh.rows \/ held.more # fresh.more \/ held.complete # fresh.complete

HearTailAppends ==
  /\ tailCall.phase \in {"answered", "refused"}
  /\ tailCall' = NoCall
  /\ pages' = IF tailCall.phase = "answered" /\ pages[sort] # << >>
                THEN [pages EXCEPT ![sort] = Append(@, tailCall.page)]
                ELSE pages
  /\ UNCHANGED <<vars, status, statusCall, sort, pageCall, cancelCall>>

HearTail ==
  /\ tailCall.phase \in {"answered", "refused"}
  /\ tailCall' = NoCall
  /\ pages' = IF /\ tailCall.phase = "answered"
                 /\ pages[sort] # << >>
                 /\ LastPage(sort).at = tailCall.page.at
                 /\ TailChanged(LastPage(sort), tailCall.page)
                THEN [pages EXCEPT ![sort][Len(pages[sort])] = tailCall.page]
                ELSE pages
  /\ UNCHANGED <<vars, status, statusCall, sort, pageCall, cancelCall>>

LoseTail ==
  /\ "page" \in Losses
  /\ tailCall # NoCall
  /\ tailCall' = NoCall
  /\ UNCHANGED <<vars, status, statusCall, sort, pages, pageCall, cancelCall>>

-----------------------------------------------------------------------------
(* The Stop button, shown while the search runs.                           *)

AskCancelEagerly ==
  /\ IsRunning
  /\ cancelCall = NoCall
  /\ cancelCall' = [phase |-> "sent"]
  /\ status' = "cancelled"
  /\ UNCHANGED <<vars, statusCall, sort, pages, pageCall, tailCall>>

AskCancel ==
  /\ IsRunning
  /\ cancelCall = NoCall
  /\ cancelCall' = [phase |-> "sent"]
  /\ UNCHANGED <<vars, status, statusCall, sort, pages, pageCall, tailCall>>

ServeCancel ==
  /\ cancelCall.phase = "sent"
  /\ Delete(Reader, Watched) \/ DeleteMissing(Reader, Watched)
  /\ cancelCall' = [phase |-> "answered"]
  /\ UNCHANGED <<status, statusCall, sort, pages, pageCall, tailCall>>

(* The 204 writes the ending into the cache, over whatever is there; a     *)
(* status that says the search is gone only gains a field nobody reads.    *)
HearCancel ==
  /\ cancelCall.phase = "answered"
  /\ cancelCall' = NoCall
  /\ status' = IF status \in Gone THEN status ELSE "cancelled"
  /\ UNCHANGED <<vars, statusCall, sort, pages, pageCall, tailCall>>

LoseCancel ==
  /\ "cancel" \in Losses
  /\ cancelCall # NoCall
  /\ cancelCall' = NoCall
  /\ UNCHANGED <<vars, status, statusCall, sort, pages, pageCall, tailCall>>

(* Another order, offered by the header of a table with rows once the      *)
(* search has finished: the reads of the order that is left are aborted.   *)
ShowsRows == \E p \in Orders : \E n \in DOMAIN pages[p] : pages[p][n].rows > 0

ChangeSort(o) ==
  /\ status \in Finished
  /\ ShowsRows
  /\ o # sort
  /\ sort' = o
  /\ pageCall' = NoCall /\ tailCall' = NoCall
  /\ UNCHANGED <<vars, status, statusCall, pages, cancelCall>>

-----------------------------------------------------------------------------
(* The search is started once; the service goes on by itself.              *)

Run ==
  /\ ~Started
  /\ \E b \in Bodies, failing \in ScanFaults : Create(Reader, NoKey, b, failing)
  /\ UNCHANGED screen

Serving ==
  /\ Tick \/ Reap \/ \E i \in Ids : Scan(i)
  /\ UNCHANGED screen

Poll == AskStatus \/ ServeStatus \/ HearStatus
PageRead == AskPage \/ ServePage \/ HearPage
TailRead == AskTail \/ ServeTail \/ HearTail
Stop == AskCancel \/ ServeCancel \/ HearCancel
Loss == LoseStatus \/ LosePage \/ LoseTail \/ LoseCancel

ScreenNext ==
  \/ Run \/ Serving \/ Poll \/ PageRead \/ TailRead \/ Stop \/ Loss
  \/ \E o \in Orders : ChangeSort(o)

ScreenSpec == ScreenInit /\ [][ScreenNext]_allVars

(* The tab stays open, the service is fair, and the network loses some     *)
(* polls but not every one.                                                *)
ScreenFairSpec ==
  /\ ScreenSpec
  /\ WF_allVars(AskStatus) /\ SF_allVars(ServeStatus) /\ SF_allVars(HearStatus)
  /\ \A i \in Ids : WF_allVars(Scan(i) /\ UNCHANGED screen)

-----------------------------------------------------------------------------
(* Properties.                                                             *)

(* The rows of a list of pages, up to one of them and in all.              *)
RowsUpTo(list) ==
  LET rows[n \in 0..Len(list)] == IF n = 0 THEN 0 ELSE rows[n - 1] + list[n].rows
  IN  rows

RowsShown(o) == RowsUpTo(pages[o])[Len(pages[o])]

(* Paging a search that is still appending, with a tail that is read again *)
(* and again, a lost answer here and there and the list being read while   *)
(* the search ends, is reading an append-only log: rows are never shown    *)
(* twice or withdrawn, and "that is every session" is only said of all of  *)
(* them (results-table.tsx:258).                                           *)
Log == INSTANCE AppendLog WITH
  log <- jobs[Watched].matched,
  closed <- jobs[Watched].state \in Finished,
  shown <- RowsShown(ScanOrder),
  ended <- pages[ScanOrder] # << >> /\ LastPage(ScanOrder).complete

ReadsALog == Log!Spec

(* The pages of a list join up: each starts where the one before it ends   *)
(* and was read in the same order, so no row is missing in between.        *)
PagesJoinUp ==
  \A o \in Orders : \A n \in 1..(Len(pages[o]) - 1) :
    pages[o][n + 1].at = NextCursor(pages[o][n])

(* Once the screen says a search is over, the server is not working on it: *)
(* "cancelled" after Stop means the slot is free.                          *)
OverMeansOver ==
  /\ status \in Finished => jobs[Watched].state \in Finished
  /\ status = "cancelled" => Watched \notin live

(* At every moment of the races between pages, tail, polls and Stop, what  *)
(* the screen shows is a stretch of the list without a hole, and "over" is *)
(* over.                                                                   *)
ScreenIsRight ==
  /\ ScreenTypeOK
  /\ PagesJoinUp
  /\ OverMeansOver

(* The poll of a running search ends: the screen comes to say how it ended.*)
PollingEnds == IsRunning ~> ~IsRunning

Settled == pageCall = NoCall /\ tailCall = NoCall /\ statusCall = NoCall
=============================================================================
