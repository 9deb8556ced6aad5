------------------------------- MODULE Spend --------------------------------
(***************************************************************************)
(* parse_spend (parse.py): what is stored of the extra usage, of which the *)
(* usage payload may speak twice and the overage endpoint once.            *)
(*                                                                         *)
(* A block is {} when it is absent or has no amount, else the set of one   *)
(* record.  An amount of Absent is a field that is not there.  The blocks  *)
(* of the usage payload come anew with each poll; the overage's payload is *)
(* the one of the start until the usage carries no block.                  *)
(***************************************************************************)
EXTENDS Integers

CONSTANTS
    Amounts,              \* in minor units
    Exponents,            \* what a payload may say of the currency
    PLAUSIBLE_EXPONENTS,
    DEFAULT_EXPONENT,
    Untils,               \* moments at which spending is allowed again
    Absent                \* not there

SpendAssumption ==
    /\ PLAUSIBLE_EXPONENTS \subseteq Exponents /\ DEFAULT_EXPONENT \in PLAUSIBLE_EXPONENTS
    /\ Absent \notin Amounts \cup Exponents \cup Untils

VARIABLES
    spend, extra, \* the two blocks of the usage payload
    overage       \* the overage endpoint's

vars == <<spend, extra, overage>>

OrAbsent(S) == S \cup {Absent}
SpendBlocks ==
    [used : Amounts, limit : OrAbsent(Amounts), usedExp : OrAbsent(Exponents),
     limitExp : OrAbsent(Exponents)]
ExtraBlocks ==
    [used : Amounts, limit : OrAbsent(Amounts), exp : OrAbsent(Exponents), until : OrAbsent(Untils)]
OverageBlocks == [used : Amounts, limit : OrAbsent(Amounts), until : OrAbsent(Untils)]
AtMostOne(S) == {{}} \cup {{b} : b \in S}

Init == spend = {} /\ extra = {} /\ overage = {}

-----------------------------------------------------------------------------
(* _exponent: the first that is there decides; {} when no currency has it.  *)
Exponent(first, second) ==
    LET said == IF first # Absent THEN first ELSE second
    IN  IF said = Absent THEN {DEFAULT_EXPONENT} ELSE {said} \cap PLAUSIBLE_EXPONENTS

Reading(b, exponent, until) ==
    [used |-> b.used, limit |-> b.limit, exponent |-> exponent, until |-> until, conflict |-> FALSE]

(* The three readers: a block with an implausible exponent is no reading;   *)
(* the overage endpoint sends none.                                         *)
FromSpend == UNION {{Reading(b, e, Absent) : e \in Exponent(b.usedExp, b.limitExp)} : b \in spend}
FromExtra == UNION {{Reading(b, e, b.until) : e \in Exponent(b.exp, Absent)} : b \in extra}
FromOverage == {Reading(b, DEFAULT_EXPONENT, b.until) : b \in overage}

(* Fault: the two blocks are compared on what is used alone.               *)
ConflictInUse(a, b) == a.used # b.used

Conflict(a, b) == a.used # b.used \/ (Absent \notin {a.limit, b.limit} /\ a.limit # b.limit)

(* The spend block with the state fields of the other. *)
Merged(a, b) == [a EXCEPT !.until = b.until, !.conflict = Conflict(a, b)]

(* _with_disabled_until: the overage's, for want of one. *)
WithDisabledUntil(reading) ==
    IF reading.until # Absent \/ overage = {} THEN {reading}
    ELSE {[reading EXCEPT !.until = b.until] : b \in overage}

ParseSpend ==
    IF FromSpend = {} /\ FromExtra = {} THEN FromOverage
    ELSE UNION {WithDisabledUntil(r) :
                   r \in IF FromSpend = {} THEN FromExtra
                         ELSE IF FromExtra = {} THEN FromSpend
                         ELSE {Merged(a, b) : a \in FromSpend, b \in FromExtra}}

\* The payloads differ from poll to poll, a block at a time.
NextSpend == spend' \in AtMostOne(SpendBlocks) /\ UNCHANGED <<extra, overage>>
NextExtra == extra' \in AtMostOne(ExtraBlocks) /\ UNCHANGED <<spend, overage>>
NextOverage == overage' \in AtMostOne(OverageBlocks) /\ UNCHANGED <<spend, extra>>

Next == NextSpend \/ NextExtra \/ NextOverage

Spec == Init /\ [][Next]_vars

-----------------------------------------------------------------------------
(* parse_spend, _exponent: a reading without the mark of a conflict says    *)
(* what every block that can be read says ("if the two blocks disagree on   *)
(* the amounts the result is flagged"); it is of a currency that exists,    *)
(* and it tells when spending returns if any block that can be read, or the *)
(* overage endpoint, does.                                                  *)
AmountsAreAgreed ==
    \A s \in ParseSpend : ~s.conflict =>
        \A b \in FromSpend \cup FromExtra :
            b.used = s.used /\ (b.limit = s.limit \/ Absent \in {b.limit, s.limit})

ReturnIsTold ==
    \A s \in ParseSpend : s.until = Absent => \A b \in FromExtra \cup overage : b.until = Absent

SpendIsAgreed ==
    AmountsAreAgreed /\ ReturnIsTold /\ \A s \in ParseSpend : s.exponent \in PLAUSIBLE_EXPONENTS

(* The same of the amounts in the currency's units: refuted by two blocks   *)
(* that say the same number with different exponents, which the comparison  *)
(* does not see.                                                            *)
MoneyIsAgreed ==
    \A s \in ParseSpend : ~s.conflict => \A b \in FromSpend \cup FromExtra : b.exponent = s.exponent
=============================================================================
