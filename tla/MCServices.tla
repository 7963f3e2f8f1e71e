----------------------------- MODULE MCServices -----------------------------
(* Instances of the live tap and the workspace services, one at a time.    *)
EXTENDS LiveTickets, LiveTap, Cases, Hunts, Imports, Exports

VARIABLE part

servicesVars == <<ticketVars, tapVars, caseVars, pageVars, huntVars, importVars, exportVars, part>>

ServicesInit ==
  /\ part \in {"tickets", "tap", "cases", "pages", "hunts", "imports", "exports"}
  /\ LiveInit /\ TapInit /\ CaseInit /\ PagesInit /\ HuntInit /\ ImportInit /\ ExportInit

TicketsPart ==
  /\ part = "tickets" /\ LiveNext
  /\ UNCHANGED <<tapVars, caseVars, pageVars, huntVars, importVars, exportVars, part>>

TapPart ==
  /\ part = "tap" /\ TapNext
  /\ UNCHANGED <<ticketVars, caseVars, pageVars, huntVars, importVars, exportVars, part>>

CasesPart ==
  /\ part = "cases" /\ CaseNext
  /\ UNCHANGED <<ticketVars, tapVars, pageVars, huntVars, importVars, exportVars, part>>

PagesPart ==
  /\ part = "pages" /\ PagesNext
  /\ UNCHANGED <<ticketVars, tapVars, caseVars, huntVars, importVars, exportVars, part>>

HuntsPart ==
  /\ part = "hunts" /\ HuntNext
  /\ UNCHANGED <<ticketVars, tapVars, caseVars, pageVars, importVars, exportVars, part>>

ImportsPart ==
  /\ part = "imports" /\ ImportNext
  /\ UNCHANGED <<ticketVars, tapVars, caseVars, pageVars, huntVars, exportVars, part>>

ExportsPart ==
  /\ part = "exports" /\ ExportNext
  /\ UNCHANGED <<ticketVars, tapVars, caseVars, pageVars, huntVars, importVars, part>>

ServicesNext ==
  TicketsPart \/ TapPart \/ CasesPart \/ PagesPart \/ HuntsPart \/ ImportsPart \/ ExportsPart

ServicesSpec == ServicesInit /\ [][ServicesNext]_servicesVars /\ LiveFairness

(* Two sensors, one of which lags; two rows share a millisecond.           *)
Rows == [s \in {"hq", "branch"} |-> IF s = "hq" THEN {<<1, 1>>, <<1, 2>>, <<2, 3>>} ELSE {<<1, 4>>}]
Lags == [s \in {"hq", "branch"} |-> IF s = "hq" THEN 0 ELSE 1]
TwoFilters ==
  [f \in {"all", "some"} |->
     IF f = "all" THEN {<<1, 1>>, <<1, 2>>, <<2, 3>>, <<1, 4>>} ELSE {<<1, 2>>}]
TwoOffers ==
  {[sensors |-> {"hq", "branch"}, channels |-> {"sessions"}, filter |-> "all"],
   [sensors |-> {"hq"}, channels |-> {"sessions", "stats"}, filter |-> "some"]}

(* One word: in two cases of letters, and with outer spaces.               *)
FewNames == {name \in Names({"x"}) : name.padded => ~ name.upper}

(* Captures of two parts, one too large, and one that is none.             *)
Sizes == [c \in {"a", "b", "big", "text"} |-> IF c = "big" THEN 3 ELSE 2]
Times == [c \in {"a", "b", "big", "text"} |-> IF c = "a" THEN 2 ELSE 1]
Good(c, k) == [capture |-> c, meta |-> "ok", key |-> k, declared |-> TRUE]
SomeUploads ==
  {Good("a", "k"), Good("a", "none"), Good("b", "k"), Good("big", "none"), Good("text", "none"),
   [Good("big", "none") EXCEPT !.declared = FALSE], [Good("a", "none") EXCEPT !.meta = "wrong digest"]}

(* A workspace edited from stale copies, by people and a bot, keeps what   *)
(* was written: no edit is undone unread, notes stay, names without outer  *)
(* spaces stay apart, the bot keeps its pace, and a walk through the pages *)
(* misses no case.                                                         *)
DocumentsHold ==
  /\ [](CaseTypeOK /\ BotKeepsPace /\ TitlesAreTaken)
  /\ [](PagesTypeOK /\ WalkMissesNothing)
  /\ [](HuntTypeOK /\ NamesAreTaken)
  /\ NoLostEdit
  /\ NotesStay
=============================================================================
