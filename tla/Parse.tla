------------------------------- MODULE Parse --------------------------------
(***************************************************************************)
(* parse_usage (parse.py), over payloads whose blocks and limits come, go  *)
(* and change one at a time, as the vendor's do from poll to poll.         *)
(*                                                                         *)
(* A top-level block is [pct, reset, shape]: a "plain" block; a credit,    *)
(* which is "fair", a "huge" amount that no grant has, or a "bare" limit   *)
(* with nothing said of its use; or a "deep" one, with a percentage        *)
(* inside.  A limits entry is about a limit (source), which the payload    *)
(* names by its scope or its kind, or not at all.                          *)
(***************************************************************************)
EXTENDS Integers, SequencesExt

CONSTANTS
    Pcts,      \* percentages
    MaxLimits  \* bound on the entries

ParseAssumption == Pcts \subseteq Nat /\ Pcts # {} /\ MaxLimits \in Nat

None == -1
ResetTime == 5

KnownWindows == {"five_hour", "seven_day"}      \* _WINDOW_LABELS
Blocks == KnownWindows \cup {"codename"}
WindowOfKind == [session |-> "five_hour", weekly_all |-> "seven_day"]

\* What names an entry: the scope, or without one the kind (or its group).
Scoped == {"fable", "second_fable"}
Name == [session |-> "session", weekly_all |-> "weekly_all", promo |-> "promo",
         fable |-> "fable", second_fable |-> "fable"]
Nameless == {"unnamed", "second_unnamed"}
Sources == DOMAIN Name \cup Nameless

\* An entry without any of these is called by its place in the array.
NameOf(source, index) ==
    IF source \in Nameless THEN <<"limit", index>> ELSE <<Name[source]>>

VARIABLES
    top,     \* block by key
    limits   \* the array

vars == <<top, limits>>

Absent == [pct |-> None, reset |-> None, shape |-> "plain"]
Numbers == [pct : Pcts, reset : {ResetTime}] \cup [pct : {Min(Pcts)}, reset : {None}]
Windows == {[pct |-> n.pct, reset |-> n.reset, shape |-> "plain"] : n \in Numbers}
Deep == [Absent EXCEPT !.shape = "deep"]
Credits == [pct : {Min(Pcts)}, reset : {ResetTime}, shape : {"fair", "huge", "bare"}]

Init ==
    /\ top = [key \in Blocks |-> Absent]
    /\ limits = <<>>

-----------------------------------------------------------------------------
(* Grants are known by their shape, windows we know by their name.         *)
IsGrantBlock(key) == key \notin KnownWindows /\ top[key].shape \notin {"plain", "deep"}
Grants == {<<key>> : key \in {k \in Blocks : IsGrantBlock(k) /\ top[k].shape = "fair"}}

HasPct(key) == ~IsGrantBlock(key) /\ top[key].pct # None

Reading(key, of, source) == [key |-> key, pct |-> of.pct, reset |-> of.reset, source |-> source]
Keys(readings) == {r.key : r \in readings}

(* The session is the one window whose undated value is kept.              *)
TopLevelWindows ==
    {Reading(<<k>>, top[k], k) :
        k \in {b \in Blocks : HasPct(b) /\ (top[b].reset # None \/ b = "five_hour")}}

IgnoredBlocks ==
    {<<key>> : key \in {k \in Blocks : \/ IsGrantBlock(k) /\ top[k].shape = "huge"
                                       \/ HasPct(k) /\ top[k].reset = None}}

(* The top-level window that an unscoped entry re-presents: by its kind,   *)
(* or by standing where that window stands.                                *)
DuplicateOf(entry, by) ==
    LET mapped == {<<WindowOfKind[k]>> : k \in {entry.source} \cap DOMAIN WindowOfKind}
    IN  IF mapped \cap Keys(by) # {} THEN mapped
        ELSE Keys({r \in by : Len(r.key) = 1 /\ r.pct = entry.pct /\ r.reset = entry.reset})

(* Fault: a limit is known by its place in the array.                      *)
KeyByIndex(name, by, index) == <<"limit", <<"entry">>, index>>

(* limit:<name>, with a suffix while that is taken, by fewer than index.    *)
LimitKey(name, by, index) ==
    <<"limit", name, Min({n \in 1..index : <<"limit", name, n>> \notin Keys(by)})>>

(* A duplicate leaves its severity only, an undated entry no reading.      *)
FoldEntry(acc, index) ==
    LET entry == limits[index]
        key == LimitKey(NameOf(entry.source, index), acc.by, index)
    IN  IF entry.source \notin Scoped /\ DuplicateOf(entry, acc.by) # {} THEN acc
        ELSE IF entry.reset = None
        THEN [acc EXCEPT !.ignored = @ \cup {<<"limits", index>>}]
        ELSE [acc EXCEPT !.by = {r \in @ : r.key # key} \cup {Reading(key, entry, entry.source)}]

FoldLimits ==
    LET folded[i \in 0..Len(limits)] ==
            IF i = 0 THEN [by |-> TopLevelWindows, ignored |-> IgnoredBlocks]
            ELSE FoldEntry(folded[i - 1], i)
    IN  folded[Len(limits)]

(* The generic walk: every percentage that is not a grant's.               *)
Walk ==
    {Reading(<<k>>, top[k], k) : k \in {b \in Blocks : HasPct(b)}}
    \cup {Reading(<<"limits", i>>, limits[i], limits[i].source) : i \in DOMAIN limits}
    \cup {Reading(<<k, "inside">>, [pct |-> Min(Pcts), reset |-> None], k) :
             k \in {b \in Blocks : top[b].shape = "deep"}}

ParseUsage ==
    LET folded == FoldLimits
    IN  IF folded.by # {}
        THEN [readings |-> folded.by, ignored |-> folded.ignored, fallback |-> FALSE]
        ELSE [readings |-> Walk, ignored |-> folded.ignored, fallback |-> TRUE]

-----------------------------------------------------------------------------
(* What the vendor may change from a poll to the next.                     *)
ChangeBlock ==
    /\ \E key \in Blocks : \E b \in {Absent} \cup Windows
                                       \cup (IF key \in KnownWindows THEN {} ELSE Credits \cup {Deep}) :
           top' = [top EXCEPT ![key] = b]
    /\ UNCHANGED limits

Listed == {limits[i].source : i \in DOMAIN limits}

AddLimit ==
    /\ Len(limits) < MaxLimits
    /\ \E source \in Sources \ Listed, n \in Numbers :
           limits' = Append(limits, [source |-> source, pct |-> n.pct, reset |-> n.reset])
    /\ UNCHANGED top

DropLimit ==
    /\ \E i \in DOMAIN limits : limits' = RemoveAt(limits, i)
    /\ UNCHANGED top

ReorderLimits == limits' = Reverse(limits) /\ UNCHANGED top

Next == ChangeBlock \/ AddLimit \/ DropLimit \/ ReorderLimits

Spec == Init /\ [][Next]_vars

-----------------------------------------------------------------------------
(* Every percentage of a block or an entry is a reading with its own       *)
(* number, a grant, a duplicate of a reading, or reported as ignored; one  *)
(* that is in none of these is a credit whose use the payload does not     *)
(* tell.  One deeper inside is read when nothing else is: total failure    *)
(* (ParseError) means there was none at all ("a generic tree walk keeps    *)
(* something on screen").                                                  *)
NoPercentageIsLost ==
    \A p \in {ParseUsage} :
        LET Tells(r, of) == r.pct = of.pct /\ r.reset = of.reset
        IN  /\ \A key \in Blocks : top[key].pct # None =>
                   \/ \E r \in p.readings : r.key = <<key>> /\ Tells(r, top[key])
                   \/ <<key>> \in p.ignored \cup Grants
                   \/ top[key].shape = "bare"
            /\ \A i \in DOMAIN limits :
                   \/ \E r \in p.readings : Tells(r, limits[i]) /\ r.source = limits[i].source
                   \/ limits[i].source \notin Scoped /\ DuplicateOf(limits[i], p.readings) # {}
                   \/ <<"limits", i>> \in p.ignored
            /\ \A r \in p.readings, key \in Blocks : r.key = <<key>> => Tells(r, top[key])
            /\ \A r, other \in p.readings : r.key = other.key => r = other
            /\ p.readings = {} =>
                   limits = <<>> /\ \A key \in Blocks : ~HasPct(key) /\ top[key].shape # "deep"

(* "Two scoped limits sharing a display name stay distinct" within a       *)
(* payload (_fold_limits); and from a payload to the next a key goes on    *)
(* naming the limit it named, wherever the vendor lists it, unless two     *)
(* share their name.  The key of a limit without a name, which is its      *)
(* place, does so only while every entry keeps its place; and it never     *)
(* goes from a named limit to one without a name.                          *)
Shared(seq, name) == Cardinality({i \in DOMAIN seq : NameOf(seq[i].source, i) = name}) > 1
\* The walk names what it finds by its path, and is taken when these are none.
Meanings == FoldLimits.by

KeepTheirPlaces == \A i \in DOMAIN limits : i \in DOMAIN limits' /\ limits'[i] = limits[i]

KeepsItsMeaning ==
    \A before \in Meanings, after \in Meanings' :
        before.key = after.key =>
            \/ before.source = after.source
            \/ Len(after.key) = 3 /\ \E seq \in {limits, limits'} : Shared(seq, after.key[2])
            \/ {before.source, after.source} \subseteq Nameless /\ ~KeepTheirPlaces
=============================================================================
