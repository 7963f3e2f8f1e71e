------------------------------- MODULE Hunts -------------------------------
(***************************************************************************)
(* The hunt store (workspace/hunts.py, api/hunts.py): saved searches of    *)
(* one owner each, edited and deleted under their ETags, whose version an  *)
(* admin may raise as a second tab would.                                  *)
(***************************************************************************)
EXTENDS Etags, FiniteSets, Functions

CONSTANTS
  Owners,
  HuntNames,   \* names: words in either case, with and without outer spaces
  Queries,
  MaxHunts, MaxHuntVersion, MaxHuntEras  \* bounds

ASSUME HuntConstants ==
  /\ {MaxHunts, MaxHuntEras} \subseteq Nat
  /\ MaxHuntVersion \in Nat \ {0}

ASSUME HuntNamesAreNames == HuntNames \subseteq Names({name.word : name \in HuntNames})

VARIABLES
  hunts,    \* _hunts
  created,  \* _counter: ids are made from it
  read,     \* owner -> the hunt it read last, with its id and era
  huntEra   \* history: admin resets

huntVars == <<hunts, created, read, huntEra>>

Ids == 1..MaxHunts
Hunt == [owner: Owners, name: HuntNames, query: Queries, version: 1..MaxHuntVersion]
Unread == [id |-> 0]

HuntTypeOK ==
  /\ DOMAIN hunts \subseteq Ids /\ hunts \in [DOMAIN hunts -> Hunt]
  /\ created \in 0..MaxHunts
  /\ \A o \in Owners : read[o] = Unread \/ read[o] \in [id: Ids, hunt: Hunt, era: 0..MaxHuntEras]
  /\ huntEra \in 0..MaxHuntEras

HuntInit ==
  /\ hunts = [i \in {} |-> Unread]
  /\ created = 0
  /\ read = [o \in Owners |-> Unread]
  /\ huntEra = 0

Holds(id, hunt) == [id |-> id, hunt |-> hunt, era |-> huntEra]

(* The answer goes to the tab whose reading is kept, or to another one.    *)
Heard(o, answer) == read' \in {read, [read EXCEPT ![o] = answer]}

NamesOfOthers(o, but) == {hunts[i].name : i \in {j \in DOMAIN hunts \ {but} : hunts[j].owner # o}}

NamesOf(o, but) == {hunts[i].name : i \in {j \in DOMAIN hunts \ {but} : hunts[j].owner = o}}

(* _owned: for anyone else the hunt is not there.                          *)
Owned(o, i) == i \in DOMAIN hunts /\ hunts[i].owner = o

NewIdByCount == Cardinality(DOMAIN hunts) + 1

NewId == created + 1

CreateHunt(o, name, query) ==
  LET hunt == [owner |-> o, name |-> name, query |-> query, version |-> 1]
  IN  /\ created < MaxHunts
      /\ ~Clashes(name, NamesOf(o, 0))
      /\ created' = created + 1
      /\ hunts' = [i \in DOMAIN hunts \cup {NewId} |-> IF i = NewId THEN hunt ELSE hunts[i]]
      /\ Heard(o, Holds(NewId, hunt))
      /\ UNCHANGED huntEra

ReadHunt(o, i) ==
  /\ Owned(o, i)
  /\ read' = [read EXCEPT ![o] = Holds(i, hunts[i])]
  /\ UNCHANGED <<hunts, created, huntEra>>

RenewedAsSent(hunt, changes) ==
  [k \in DOMAIN changes \cup {"version", "owner"} |->
     IF k = "version" THEN hunt.version + 1 ELSE IF k = "owner" THEN hunt.owner ELSE changes[k]]

Renewed(hunt, changes) ==
  [k \in DOMAIN hunt |-> IF k = "version" THEN hunt.version + 1
                         ELSE IF k \in DOMAIN changes THEN changes[k] ELSE hunt[k]]

(* Keys that were not sent stay; a refused patch changes nothing.          *)
PatchHunt(o, i, tags, changes) ==
  /\ Owned(o, i) /\ hunts[i].version < MaxHuntVersion
  /\ Precondition(tags, hunts[i].version, TRUE) = "ok"
  /\ "name" \in DOMAIN changes => ~Clashes(changes.name, NamesOf(o, i))
  /\ hunts' = [hunts EXCEPT ![i] = Renewed(@, changes)]
  /\ Heard(o, Holds(i, Renewed(hunts[i], changes)))
  /\ UNCHANGED <<created, huntEra>>

DeleteHunt(o, i, tags) ==
  /\ Owned(o, i)
  /\ Precondition(tags, hunts[i].version, FALSE) = "ok"
  /\ hunts' = Restrict(hunts, DOMAIN hunts \ {i})
  /\ UNCHANGED <<created, read, huntEra>>

Touch(i) ==
  /\ i \in DOMAIN hunts /\ hunts[i].version < MaxHuntVersion
  /\ hunts' = [hunts EXCEPT ![i].version = @ + 1]
  /\ UNCHANGED <<created, read, huntEra>>

ResetHunts ==
  /\ huntEra < MaxHuntEras
  /\ hunts' = [i \in {} |-> Unread]
  /\ created' = 0
  /\ huntEra' = huntEra + 1
  /\ UNCHANGED read

(* The tags an owner sends: none, any, or the one it holds.                *)
Sends(o) == {Unsent, {AnyTag}} \cup (IF read[o] = Unread THEN {} ELSE {{read[o].hunt.version}})

Changes == {[name |-> n] : n \in HuntNames} \cup {[query |-> q] : q \in Queries}

HuntNext ==
  \/ \E o \in Owners :
       \/ \E n \in HuntNames, q \in Queries : CreateHunt(o, n, q)
       \/ \E i \in DOMAIN hunts :
            \/ ReadHunt(o, i)
            \/ \E tags \in Sends(o) :
                 DeleteHunt(o, i, tags) \/ \E changes \in Changes : PatchHunt(o, i, tags, changes)
  \/ \E i \in DOMAIN hunts : Touch(i)
  \/ ResetHunts

HuntSpec == HuntInit /\ [][HuntNext]_huntVars

-----------------------------------------------------------------------------
(* An id and a version name one hunt for as long as the server is not      *)
(* reset, through renames, deletions and another tab's edits: an ETag that *)
(* still matches is of what its holder read.                               *)
TagsNameHunts ==
  \A o \in Owners :
    read[o] # Unread /\ read[o].era = huntEra =>
      /\ read[o].id <= created
      /\ read[o].id \in DOMAIN hunts =>
           /\ hunts[read[o].id].version >= read[o].hunt.version
           /\ hunts[read[o].id].version = read[o].hunt.version => hunts[read[o].id] = read[o].hunt

(* One owner's hunts have different names, up to case, unless they are     *)
(* stored with outer spaces (_name_taken strips only the one asked for).   *)
NamesAreTaken ==
  \A i, j \in DOMAIN hunts :
    i # j /\ hunts[i].owner = hunts[j].owner => KeptApart(hunts[i].name, hunts[j].name)
=============================================================================
