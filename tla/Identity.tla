------------------------------ MODULE Identity ------------------------------
(***************************************************************************)
(* Whose numbers these are (client.py, plan.py): a cookie may name its     *)
(* organisation or leave it to /api/bootstrap, and the client keeps the    *)
(* first answer; usage, overage and plan are separate requests, between    *)
(* which the owner may switch the active organisation, leave one, or store *)
(* another cookie.  The plan is asked for once after a start, then daily.  *)
(***************************************************************************)
EXTENDS Integers, Sequences, SequencesExt

CONSTANTS
    Orgs,     \* organisations of the owner's account
    Bare,     \* those of them without capabilities and tier: plans nobody can name
    Cookies,
    Refresh,  \* plan.REFRESH_INTERVAL_S
    MaxTime   \* bound on the clock

None == "none"

IdentityAssumption ==
    /\ None \notin Cookies \cup Orgs /\ Bare \subseteq Orgs
    /\ {Refresh, MaxTime} \subseteq Nat \ {0}

(* What a request comes back with: no status when the transport failed, and *)
(* a body that is the answer, not JSON, or Cloudflare's challenge.          *)
Replies ==
    {[status |-> 0, body |-> "text"]} \cup
    [status : {200, 302, 401, 403, 429, 503}, body : {"answer", "text"}] \cup
    [status : {200, 403, 503}, body : {"challenge"}]

VARIABLES
    now,
    members,    \* at the vendor: account.memberships, in an order
    active,     \* at the vendor: account.lastActiveOrgId
    carries,    \* lastActiveOrg of each cookie, None without one
    cookie,     \* in the keyring
    client,     \* [cookie, org]: ClaudeClient._org_id, None until resolved
    stage,      \* of the poll: "idle", "usage", "overage", "plan"
    usageOrg,   \* whose reading was stored last
    overageOrg, \* whose overage _overage_raw holds
    overageFetched, planFetched,  \* the poller's flags
    plan,       \* the row: [checked, org, error], whose plan, and whether it was kept
    state,      \* PollerStatus.state
    mixed       \* history: the poller has held two cookies since its start

poller == <<client, stage, usageOrg, overageOrg, overageFetched, planFetched, plan, state,
            mixed>>
vendor == <<members, active>>
vars == <<now, vendor, carries, cookie, poller>>

NoClient == [cookie |-> None, org |-> None]
Never == 0 - 1
NoPlan == [checked |-> Never, org |-> None, error |-> FALSE] \* read_plan: no row

Init ==
    /\ now = 0
    /\ members = SetToSeq(Orgs) /\ active \in Orgs
    /\ carries \in [Cookies -> Orgs \cup {None}] /\ cookie \in Cookies
    /\ client = NoClient /\ stage = "idle" /\ usageOrg = None /\ overageOrg = None
    /\ overageFetched = FALSE /\ planFetched = FALSE /\ plan = NoPlan
    /\ state = "starting" /\ mixed = FALSE

-----------------------------------------------------------------------------
(* is_cloudflare_challenge *)
IsChallenge(r) == r.body = "challenge"

(* _get_json: an answer or one class of error, in this order. *)
Outcome(r) ==
    IF IsChallenge(r) THEN "blocked"
    ELSE IF r.status \in {302, 401, 403} THEN "auth_expired"
    ELSE IF r.status = 429 THEN "rate_limited"
    ELSE IF r.status = 200 /\ r.body = "answer" THEN "ok" ELSE "error"

(* An organisation one has left is refused, every other request may be      *)
(* answered in any way.                                                     *)
MayReply(org, outcome) == org \in Range(members) \/ outcome # "ok"

(* _org_from_bootstrap: the active one, else the first membership. *)
Bootstrapped == IF active # None THEN active ELSE IF members = <<>> THEN None ELSE Head(members)

(* resolve_org: what the client holds, else bootstrap's. *)
ResolveOrg(org) == IF org # None THEN org ELSE Bootstrapped

(* org_id_from_cookie *)
OrgIdFromCookie(c) == carries[c]

(* _client_for_current_cookie and __init__: the old client is kept as long  *)
(* as its cookie is.                                                        *)
Begin ==
    /\ stage = "idle" /\ stage' = "usage"
    /\ client' = IF client.cookie = cookie THEN client
                 ELSE [cookie |-> cookie, org |-> OrgIdFromCookie(cookie)]
    /\ mixed' = (mixed \/ client.cookie \notin {None, cookie})
    /\ UNCHANGED <<now, vendor, carries, cookie, usageOrg, overageOrg, overageFetched,
                   planFetched, plan, state>>

Fail(outcome) == state' = outcome /\ stage' = "idle"

(* due *)
Due(checked) == checked = Never \/ now - checked >= Refresh

(* _maybe_refresh_plan: after a start, then when due. *)
PlanIsAskedFor == ~planFetched \/ Due(plan.checked)

(* The poll has its readings: on to the plan, or done. *)
Continue ==
    IF PlanIsAskedFor THEN stage' = "plan" /\ planFetched' = TRUE /\ UNCHANGED state
    ELSE stage' = "idle" /\ state' = "ok" /\ UNCHANGED planFetched

(* fetch_usage; the client's organisation may take a request of its own.    *)
Bootstrap(outcome) ==
    /\ stage = "usage" /\ client.org = None
    /\ IF outcome # "ok" THEN Fail(outcome) /\ UNCHANGED client
       ELSE IF Bootstrapped = None THEN Fail("error") /\ UNCHANGED client
       ELSE client' = [client EXCEPT !.org = ResolveOrg(@)] /\ UNCHANGED <<state, stage>>
    /\ UNCHANGED <<now, vendor, carries, cookie, usageOrg, overageOrg, overageFetched,
                   planFetched, plan, mixed>>

(* _collect and _poll_overage: the overage is asked for after a start and   *)
(* whenever the usage has no block of it.                                   *)
Usage(outcome, carriesSpend) ==
    LET org == ResolveOrg(client.org)
    IN  /\ stage = "usage" /\ client.org # None /\ MayReply(org, outcome)
        /\ IF outcome # "ok"
           THEN Fail(outcome) /\ UNCHANGED <<usageOrg, overageFetched, planFetched>>
           ELSE /\ usageOrg' = org
                /\ IF overageFetched /\ carriesSpend
                   THEN Continue /\ UNCHANGED overageFetched
                   ELSE /\ stage' = "overage" /\ overageFetched' = TRUE
                        /\ UNCHANGED <<state, planFetched>>
        /\ UNCHANGED <<now, vendor, carries, cookie, client, overageOrg, plan, mixed>>

Overage(outcome) ==
    LET org == ResolveOrg(client.org)
    IN  /\ stage = "overage" /\ MayReply(org, outcome)
        /\ IF outcome = "auth_expired"
           THEN Fail("auth_expired") /\ UNCHANGED <<overageOrg, planFetched>>
           ELSE /\ Continue
                /\ overageOrg' = IF outcome = "ok" THEN org ELSE overageOrg
        /\ UNCHANGED <<now, vendor, carries, cookie, client, usageOrg, overageFetched, plan,
                       mixed>>

(* Fault: the plan of the active organisation, not of the client's. *)
PlanOfTheActive(org) == IF active \in Range(members) THEN active ELSE None

(* _active_org_id: bootstrap's own, for a client that has none. *)
ActiveOrgId(org) == IF org # None THEN org ELSE active

(* from_bootstrap: that membership; without an id, the only one. *)
FromBootstrap(org) ==
    LET wanted == ActiveOrgId(org)
    IN  CASE wanted \in Range(members) -> wanted
          [] wanted = None /\ Len(members) = 1 -> Head(members)
          [] OTHER -> None

(* from_row, stored: a row that names nothing is no plan. *)
FromRow(row) == IF row.org \in Bare THEN None ELSE row.org

WritePlan(org, error) == plan' = [checked |-> now, org |-> org, error |-> error]

(* _keep_plan *)
KeepPlan == WritePlan(FromRow(plan), TRUE)

(* refresh_plan: what cannot be read or found keeps the last. *)
RefreshPlan(outcome) ==
    LET found == IF outcome = "ok" THEN FromBootstrap(client.org) ELSE None
    IN  /\ stage = "plan"
        /\ IF found = None THEN KeepPlan ELSE WritePlan(found, FALSE)
        /\ stage' = "idle" /\ state' = "ok"
        /\ UNCHANGED <<now, vendor, carries, cookie, client, usageOrg, overageOrg,
                       overageFetched, planFetched, mixed>>

(* The plan and the readings are in the database, the rest is not.          *)
Restart ==
    /\ client' = NoClient /\ stage' = "idle" /\ overageOrg' = None
    /\ overageFetched' = FALSE /\ planFetched' = FALSE /\ state' = "starting" /\ mixed' = FALSE
    /\ UNCHANGED <<now, vendor, carries, cookie, usageOrg, plan>>

StoreCookie(c) == cookie' = c /\ UNCHANGED <<now, vendor, carries, poller>>

SwitchActive(org) ==
    /\ active' = org /\ UNCHANGED <<now, members, carries, cookie, poller>>

Leave(org) ==
    /\ members' = SelectSeq(members, LAMBDA o : o # org)
    /\ active' = IF active = org THEN None ELSE active
    /\ UNCHANGED <<now, carries, cookie, poller>>

Tick == now < MaxTime /\ now' = now + 1 /\ UNCHANGED <<vendor, carries, cookie, poller>>

Next ==
    \/ Begin
    \/ \E outcome \in {Outcome(r) : r \in Replies} :
          \/ Bootstrap(outcome) \/ Overage(outcome) \/ RefreshPlan(outcome)
          \/ \E carriesSpend \in BOOLEAN : Usage(outcome, carriesSpend)
    \/ Restart \/ Tick
    \/ \E c \in Cookies : StoreCookie(c)
    \/ \E org \in Range(members) : SwitchActive(org) \/ Leave(org)

Spec == Init /\ [][Next]_vars

-----------------------------------------------------------------------------
(* "Inside a poll that has already stored its reading, so client.org_id is  *)
(* the org usage was read for" (_maybe_refresh_plan): what a poll adds is   *)
(* of the organisation of its readings, whatever the owner switches to in   *)
(* between; a poll that ends well leaves a plan asked for within the day;   *)
(* a failure keeps the last.  Until another cookie is stored, the overage held  *)
(* is of the readings' organisation too.                                    *)
OfOneOrg ==
    /\ plan' # plan /\ ~plan'.error => plan'.org = usageOrg
    /\ plan' # plan /\ plan'.error => FromRow(plan') = FromRow(plan)
    /\ overageOrg' # overageOrg /\ overageOrg' # None => overageOrg' = usageOrg
    /\ stage # "idle" /\ stage' = "idle" /\ state' = "ok" =>
          plan'.checked # Never /\ now - plan'.checked < Refresh
    /\ stage = "idle" /\ overageOrg # None /\ ~mixed => overageOrg = usageOrg

NumbersAreOfOneOrg == [][OfOneOrg]_vars

=============================================================================
