------------------------------ MODULE Estimates ------------------------------
(***************************************************************************)
(* What is read out of a payload and computed from the stored rows: the    *)
(* parser, the agreement of its spend blocks, the estimates over an        *)
(* account in use, and where a week lands.  As in Background one `task`    *)
(* moves in each behaviour, for they share no variable.                    *)
(***************************************************************************)
EXTENDS Integers, Sequences

CONSTANTS
    \* Account
    ResetDrop, MinSpan, Length, Hour, CellHour, Threshold, MinDelta, MinCompare, Anchor,
    WeekLength, Attribute, Offset, Full, Scale, BoostDrop, Lookbacks, FirstWeek, LastAccountTime,
    \* Pace
    WeekHours, MinElapsed, Out, PaceDrop, Levels, Weeks, Slack,
    \* Parse
    Pcts, MaxLimits,
    \* Spend
    Amounts, Exponents, PLAUSIBLE_EXPONENTS, DEFAULT_EXPONENT, Untils, NotThere

VARIABLES
    task,
    now, five, week, rows, boosts, spoke, used, openings, hidden, raised,
    hour, level, behind,
    top, limits,
    spend, extra, overage

accountVars == <<now, five, week, rows, boosts, spoke, used, openings, hidden, raised>>
paceVars == <<hour, level, behind>>
parseVars == <<top, limits>>
spendVars == <<spend, extra, overage>>
allVars == <<task, accountVars, paceVars, parseVars, spendVars>>

A == INSTANCE Account WITH MaxTime <- LastAccountTime
P == INSTANCE Pace WITH BoostDrop <- PaceDrop
Y == INSTANCE Parse
E == INSTANCE Spend WITH Absent <- NotThere

ASSUME EstimatesAssumption ==
    A!AccountAssumption /\ P!PaceAssumption /\ Y!ParseAssumption /\ E!SpendAssumption

Asleep == "asleep"
AccountAsleep ==
    /\ now = Asleep /\ five = Asleep /\ week = Asleep /\ rows = Asleep /\ boosts = Asleep
    /\ spoke = Asleep /\ used = Asleep /\ openings = Asleep /\ hidden = Asleep /\ raised = Asleep
PaceAsleep == hour = Asleep /\ level = Asleep /\ behind = Asleep
ParseAsleep == top = Asleep /\ limits = Asleep
SpendAsleep == spend = Asleep /\ extra = Asleep /\ overage = Asleep

Init ==
    \/ task = "account" /\ A!Init /\ PaceAsleep /\ ParseAsleep /\ SpendAsleep
    \/ task = "pace" /\ P!Init /\ AccountAsleep /\ ParseAsleep /\ SpendAsleep
    \/ task = "parse" /\ Y!Init /\ AccountAsleep /\ PaceAsleep /\ SpendAsleep
    \/ task = "spend" /\ E!Init /\ AccountAsleep /\ PaceAsleep /\ ParseAsleep

Next ==
    \/ task = "account" /\ A!Next /\ UNCHANGED <<task, paceVars, parseVars, spendVars>>
    \/ task = "pace" /\ P!Next /\ UNCHANGED <<task, accountVars, parseVars, spendVars>>
    \/ task = "parse" /\ Y!Next /\ UNCHANGED <<task, accountVars, paceVars, spendVars>>
    \/ task = "spend" /\ E!Next /\ UNCHANGED <<task, accountVars, paceVars, parseVars>>

Spec == Init /\ [][Next]_allVars

-----------------------------------------------------------------------------
(* Account: the rate on the page is what was used between its readings, and *)
(* a dated percentage is of the window that runs.                          *)
RunwayIsTrue == task = "account" => A!RateIsTrue /\ A!RunwayIsCurrent

(* Account: what a session window is said to have cost the week is honest. *)
CostsAreHonest == task = "account" => A!CostsAreHonest

(* Account: the hour bars hold every point of the window once, no session  *)
(* ran in a span shown as idle, and the heatmap counts every gain and every *)
(* moment once.                                                            *)
TimeIsAccountedFor == task = "account" => A!StripAddsUp /\ A!IdleIsTrue /\ A!CellsAddUp

(* Pace: the figure, its spread, and the moment of running out agree.      *)
PaceHangsTogether == task = "pace" => P!PaceHangsTogether

(* Parse: every percentage of a payload is accounted for, and from one     *)
(* payload to the next a key names the limit it named.                     *)
LimitsKeepTheirKeys ==
    /\ [](task = "parse" => Y!NoPercentageIsLost)
    /\ [][task = "parse" => Y!KeepsItsMeaning]_allVars

(* Spend: amounts are shown only when the blocks agree.                    *)
SpendIsAgreed == task = "spend" => E!SpendIsAgreed

=============================================================================
