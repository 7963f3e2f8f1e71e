------------------------------- MODULE Etags -------------------------------
(* Conditional edits of cases and hunts (workspace/hunts.py): a document's  *)
(* ETag names its version, and If-Match is a list of tags.                  *)
EXTENDS Integers

AnyTag == 0   \* "*"; versions start at 1, and a tag that is malformed names none
Unsent == {-1}  \* no If-Match header, or a blank one

(* Cut off at a bound: the tags a request may carry.                       *)
Headers(versions) == {Unsent} \cup SUBSET (versions \cup {AnyTag})

MatchesEtag(tags, version) == AnyTag \in tags \/ version \in tags

(* check_if_match: what the request earns before it is looked at.          *)
Precondition(tags, version, required) ==
  IF tags = Unsent
  THEN IF required THEN "precondition_required" ELSE "ok"
  ELSE IF MatchesEtag(tags, version) THEN "ok" ELSE "etag_mismatch"

(* Names and titles: a word, in some case, perhaps between spaces.  The    *)
(* one asked for is stripped and folded, the stored ones are only folded.  *)
Names(words) == [word: words, upper: BOOLEAN, padded: BOOLEAN]

Asked(name) == [name EXCEPT !.upper = FALSE, !.padded = FALSE]
Stored(name) == [name EXCEPT !.upper = FALSE]

ClashesExactly(name, others) == name \in others

Clashes(name, others) == \E other \in others : Stored(other) = Asked(name)

(* A name stored with its outer spaces is never what a stripped one is     *)
(* compared with, so it holds nothing: it may be given again, and stripped. *)
KeptApart(name, other) == name.padded \/ Stored(name) # Stored(other)
=============================================================================
