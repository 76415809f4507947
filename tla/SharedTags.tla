----------------------------- MODULE SharedTags -----------------------------
(***************************************************************************)
(* FilterTags of the Splunk pump (pumps/splunk.go) removes excluded tags   *)
(* in place.  Every pump gets a copy of each record, but the copies share  *)
(* the array of the tags: the pumps write at the same time, so two Splunk  *)
(* pumps may filter one array together.  Each has its own slice header,    *)
(* here the length it believes in, and nothing orders the goroutines.      *)
(*                                                                         *)
(* copy is a memmove: it loads and stores in any order in which no place   *)
(* is overwritten before it has been loaded, so what it stores may be      *)
(* stale.  A string is two words: one that is read or written while        *)
(* another goroutine writes it may come out mixed of two.                  *)
(***************************************************************************)
EXTENDS Integers, Sequences, FiniteSets, SequencesExt

CONSTANTS
  TagLists,   \* the tags a record may come with: sequences
  Excluded,   \* of each pump and entry of its ignore_tag_prefix_list: the tags it matches
  SplunkPump, \* Splunk pumps that write the record
  Blank,      \* the empty string
  Torn        \* a string mixed of two

Tag == {Blank, Torn} \union UNION {ToSet(tags) : tags \in TagLists}

\* Everything begins with an empty entry, and nothing else matches the empty string.
ASSUME TagsAssumption ==
  /\ \A tags \in TagLists : tags \in Seq(Tag)
  /\ Torn # Blank
  /\ \A s \in SplunkPump : /\ Excluded[s] \in Seq(SUBSET Tag)
                           /\ \A i \in DOMAIN Excluded[s] : Blank \in Excluded[s][i] => Excluded[s][i] = Tag

VARIABLES
  array,      \* what is in the shared array
  filter,     \* of each pump: where its FilterTags is
  found,      \* what the last filter to begin found in the array
  alone       \* that filter, if none has shared the array with it since it began

tagVars == <<array, filter, found, alone>>

\* prefix: the entry at work; bound: the range of the inner loop; key: its index;
\* len: the length of filteredTags; loaded: what copy has loaded, by the place it
\* goes to; stored: the places where it has arrived.
Start(tags) == [step |-> "new", prefix |-> 1, bound |-> Len(tags), key |-> 1, len |-> Len(tags),
                loaded |-> <<>>, stored |-> {}]

TagsInit == /\ array \in TagLists
            /\ filter = [s \in SplunkPump |-> Start(array)]
            /\ found = array
            /\ alone = {}

-----------------------------------------------------------------------------
TagsAt(s, step) == filter[s].step = step

\* The places copy moves a tag to, and those it may store at now: what was there
\* has been loaded.  Then the last tag is set to the empty string.
Gap(f)      == f.key .. f.len - 1
Storable(f) == {i \in DOMAIN f.loaded \ f.stored : i = f.key \/ i - 1 \in DOMAIN f.loaded}
Storing(f)  == IF f.step # "copy" THEN {} ELSE IF f.stored = Gap(f) THEN {f.len} ELSE Storable(f)

\* What a read or a write of a tag at place i comes to.
Raced(s, i, tag) == {tag} \union {Torn : o \in {o \in SplunkPump \ {s} : i \in Storing(filter[o])}}

Begin(s) ==
  /\ TagsAt(s, "new")
  /\ filter' = [filter EXCEPT ![s].step = "look"]
  /\ found' = array
  /\ alone' = {a \in {s} : /\ \A o \in SplunkPump \ {s} : filter[o].step \in {"new", "done"}
                           /\ Torn \notin ToSet(array)}
  /\ UNCHANGED array

\* The inner loop ranges over the length the tags had when it began; the next
\* entry of the list ranges over what is left.
NextKey(s, f) ==
  IF f.key < f.bound THEN [f EXCEPT !.key = @ + 1]
  ELSE IF f.prefix < Len(Excluded[s])
       THEN [f EXCEPT !.prefix = @ + 1, !.key = 1, !.bound = f.len]
       ELSE [f EXCEPT !.step = "done"]

Nothing(s, f) == f.bound = 0 \/ f.prefix > Len(Excluded[s])

\* HasPrefix of a mixed string has any result, and may fault.
Look(s) ==
  /\ TagsAt(s, "look")
  /\ LET f == filter[s] IN
     \/ Nothing(s, f) /\ filter' = [filter EXCEPT ![s].step = "done"]
     \/ /\ ~Nothing(s, f)
        /\ \E tag \in Raced(s, f.key, array[f.key]) :
             \/ /\ tag \notin Excluded[s][f.prefix] \/ tag = Torn
                /\ filter' = [filter EXCEPT ![s] = NextKey(s, f)]
             \/ /\ tag \in Excluded[s][f.prefix] \/ tag = Torn
                /\ f.key <= f.len
                /\ filter' = [filter EXCEPT ![s].step = "copy"]
             \/ tag = Torn /\ filter' = [filter EXCEPT ![s].step = "panic"]
  /\ UNCHANGED <<array, found, alone>>

\* filteredTags[key+1:] is out of range for a match behind the length.
OutOfRange(s) ==
  /\ TagsAt(s, "look") /\ ~Nothing(s, filter[s])
  /\ \E tag \in Raced(s, filter[s].key, array[filter[s].key]) :
       tag \in Excluded[s][filter[s].prefix] \/ tag = Torn
  /\ filter[s].key > filter[s].len
  /\ filter' = [filter EXCEPT ![s].step = "panic"]
  /\ UNCHANGED <<array, found, alone>>

Load(s) ==
  /\ TagsAt(s, "copy")
  /\ \E i \in Gap(filter[s]) \ DOMAIN filter[s].loaded : \E tag \in Raced(s, i + 1, array[i + 1]) :
       filter' = [filter EXCEPT ![s].loaded = [j \in DOMAIN @ \union {i} |-> IF j = i THEN tag ELSE @[j]]]
  /\ UNCHANGED <<array, found, alone>>

Store(s) ==
  /\ TagsAt(s, "copy")
  /\ \E i \in Storable(filter[s]) : \E tag \in Raced(s, i, filter[s].loaded[i]) :
       /\ array' = [array EXCEPT ![i] = tag]
       /\ filter' = [filter EXCEPT ![s].stored = @ \union {i}]
  /\ UNCHANGED <<found, alone>>

Shortened(f, len) == [f EXCEPT !.step = "look", !.len = len, !.loaded = <<>>, !.stored = {}]

\* As Shorten, of a filter that cuts the tags at the one it removes.
ShortenToKey(s) ==
  /\ TagsAt(s, "copy") /\ filter[s].stored = Gap(filter[s])
  /\ \E tag \in Raced(s, filter[s].len, Blank) : array' = [array EXCEPT ![filter[s].len] = tag]
  /\ filter' = [filter EXCEPT ![s] = NextKey(s, Shortened(@, @.key - 1))]
  /\ UNCHANGED <<found, alone>>

Shorten(s) ==
  /\ TagsAt(s, "copy") /\ filter[s].stored = Gap(filter[s])
  /\ \E tag \in Raced(s, filter[s].len, Blank) : array' = [array EXCEPT ![filter[s].len] = tag]
  /\ filter' = [filter EXCEPT ![s] = NextKey(s, Shortened(@, @.len - 1))]
  /\ UNCHANGED <<found, alone>>

\* A panic ends the process.
TagsNext ==
  /\ \A s \in SplunkPump : ~TagsAt(s, "panic")
  /\ \E s \in SplunkPump : Begin(s) \/ Look(s) \/ OutOfRange(s) \/ Load(s) \/ Store(s) \/ Shorten(s)

-----------------------------------------------------------------------------
(* Properties.                                                              *)

TagsTypeOK ==
  /\ array \in Seq(Tag) /\ found \in Seq(Tag) /\ Len(array) = Len(found)
  /\ \A s \in SplunkPump : /\ filter[s].step \in {"new", "look", "copy", "done", "panic"}
                           /\ filter[s].len \in 0..Len(found)

Innocent(s, tag) == \A i \in DOMAIN Excluded[s] : tag \notin Excluded[s][i]

\* A tag that ought to go and stays: of the same entry as one before it, with
\* only excluded tags between the two.
Skipped(s, j) == \E i \in 1..(j - 1), p \in DOMAIN Excluded[s] :
                   /\ {found[i], found[j]} \subseteq Excluded[s][p]
                   /\ \A m \in i..j : ~Innocent(s, found[m])

\* The tags are those at these places of what the filter found, in their order:
\* all that ought to stay, and of the others only those that are stepped over.
KeepsPlaces(s, tags, places) ==
  /\ \A i, j \in DOMAIN tags : i < j => places[i] < places[j]
  /\ \A i \in DOMAIN tags : /\ tags[i] = found[places[i]]
                            /\ Innocent(s, tags[i]) \/ Skipped(s, places[i])
  /\ \A j \in DOMAIN found : Innocent(s, found[j]) => \E i \in DOMAIN tags : places[i] = j

\* A filter that has the tags for itself, the first or one that comes after
\* others have ended, runs out of the bounds of its slice only for an empty entry
\* of the list.  It never loses a tag it should keep, never reorders them, and
\* leaves no excluded tag but one that follows another of its prefix, which the
\* loop steps over as the tags move up (FilterTags, splunk.go:157-172).
FilteredAlone ==
  /\ TagsTypeOK
  /\ \A s \in alone :
       /\ TagsAt(s, "panic") => Blank \in Excluded[s][filter[s].prefix]
       /\ TagsAt(s, "done") =>
            \E places \in [1..filter[s].len -> DOMAIN found] :
              KeepsPlaces(s, SubSeq(array, 1, filter[s].len), places)
=============================================================================
