------------------------------ MODULE Settings ------------------------------
(***************************************************************************)
(* The settings of one instance: flag, environment, config.json, default,  *)
(* in that order (config.py).  The panel (settings_view.py, api.py) and    *)
(* the command line (cli.cmd_config) both read the whole file, change keys *)
(* and replace it; they are two processes, so that their steps interleave. *)
(* The retention period has a route of its own, a first value written at   *)
(* start (retention.initialise), and deletes rows (Poller.prune_now).      *)
(***************************************************************************)
EXTENDS Integers, FiniteSets, FiniteSetsExt

CONSTANTS
    PANEL_KEYS,   \* the keys the panel owns
    FlagKeys,     \* those that also have a flag
    Values,       \* what a panel key may hold once it is validated
    Bad,          \* a value validate() refuses
    Default,      \* the default of a panel key
    Periods,      \* the retention options, as ages
    DEFAULT_RETENTION,
    Absent,       \* no opinion of a layer
    Null,         \* a key that is in the file without a value
    NoneText,     \* str(None), which is no option
    Envs,         \* the environments a process may run in
    Ages,         \* possible ages of the oldest row of an upgraded database
    MaxTime       \* bound on the clock

SettingsAssumption ==
    /\ FlagKeys \subseteq PANEL_KEYS /\ "retention" \notin PANEL_KEYS
    /\ Bad \notin Values
    /\ {Absent, Null, NoneText} \cap (Values \cup Periods) = {}
    /\ Default \in Values
    /\ Periods \subseteq Nat \ {0}
    /\ \E longest \in Periods : \A period \in Periods : period <= longest
    /\ DEFAULT_RETENTION \in Periods
    /\ \A e \in Envs : /\ \A k \in PANEL_KEYS : e[k] \in Values \cup {Absent}
                       /\ e["retention"] \in Periods \cup {Absent}
    /\ Ages \subseteq Nat \ {0}
    /\ MaxTime \in Nat

VARIABLES
    day,      \* the clock
    env,      \* the environment, for the whole behaviour
    file,     \* config.json
    running,  \* state.settings, which the poller has adopted; Stopped without a process
    form,     \* the panel in the browser: the values it shows, or Closed
    saving,   \* a panel save between its read of the file and its write
    command,  \* a command there
    rows,     \* the times of the stored rows
    asked,    \* history: the shortest period somebody asked for
    saved     \* history: the panel was the last to write its keys

vars == <<day, env, file, running, form, saving, command, rows, asked, saved>>

Stopped == [retention |-> Absent]
Closed == [k \in {} |-> Absent]
Nobody == [who |-> "nobody"]
Keys == PANEL_KEYS \cup {"retention"}
Longest == Max(Periods)
UPGRADE_RETENTION == Longest
Never == Longest + 1  \* nobody has asked: only what outlives every option goes

(* resolve_settings: the first layer that has an opinion. *)
Resolve(flags, stored) ==
    [k \in PANEL_KEYS |->
        CASE k \in DOMAIN flags     -> flags[k]
          [] k \notin DOMAIN flags /\ env[k] # Absent -> env[k]
          [] k \notin DOMAIN flags /\ env[k] = Absent /\ stored[k] # Absent -> stored[k]
          [] OTHER                  -> Default]

NoFlags == Closed

Valid(settings) == \A k \in PANEL_KEYS : settings[k] # Bad

Init ==
    /\ day = 0
    /\ env \in Envs
    /\ file = [k \in Keys |-> Absent]
    /\ running = Stopped
    /\ form = Closed
    /\ saving = Nobody
    /\ command = Nobody
    /\ rows \in {{}} \cup {{0 - age} : age \in Ages}
    /\ asked = Never
    /\ saved = FALSE

(* Fault: the shipped default, for a database with rows too. *)
InitialRetentionShipped == DEFAULT_RETENTION

(* initial_retention: the longest option when there is history, of a second *)
(* or more.                                                                 *)
InitialRetention ==
    IF rows # {} THEN UPGRADE_RETENTION ELSE DEFAULT_RETENTION

(* What a start makes of the stored period: _ensure_retention and           *)
(* initialise.  A key without a value becomes the text of None.              *)
StartRetention(stored) ==
    CASE env["retention"] # Absent -> env["retention"]
      [] env["retention"] = Absent /\ stored = Absent -> InitialRetention
      [] env["retention"] = Absent /\ stored = Null -> NoneText
      [] OTHER -> stored

Shortest(period) == IF period \in Periods THEN Min({asked, period}) ELSE asked

(* `quotalens serve`.  The default of a database without rows is what the   *)
(* documentation promises, so that it counts as asked for.                  *)
Start(flags) ==
    LET period == StartRetention(file["retention"])
    IN  /\ running = Stopped
        /\ running' = [k \in Keys |-> IF k = "retention" THEN period
                                      ELSE Resolve(flags, file)[k]]
        /\ file' = IF env["retention"] = Absent /\ file["retention"] = Absent
                   THEN [file EXCEPT !["retention"] = period] ELSE file
        /\ asked' = IF env["retention"] # Absent \/ rows = {} THEN Shortest(period) ELSE asked
        /\ saved' = (saved /\ flags = NoFlags)
        /\ UNCHANGED <<day, env, form, saving, command, rows>>

(* A request in the process dies with it. *)
Stop ==
    /\ running # Stopped
    /\ running' = Stopped
    /\ saving' = Nobody
    /\ UNCHANGED <<day, env, file, form, command, rows, asked, saved>>

(* GET /settings: the form holds what runs. *)
OpenPanel ==
    /\ running # Stopped
    /\ form' = [k \in PANEL_KEYS |-> running[k]]
    /\ form' # form
    /\ UNCHANGED <<day, env, file, running, saving, command, rows, asked, saved>>

(* POST /settings up to read_config_file: every field is validated before   *)
(* anything is written, and a refused form changes nothing.                 *)
Submit(key, value) ==
    LET offered == [form EXCEPT ![key] = value]
    IN  /\ running # Stopped /\ form # Closed /\ saving = Nobody
        /\ form' = Closed
        /\ saving' = IF Valid(offered)
                     THEN [retention |-> file["retention"], change |-> offered]
                     ELSE Nobody
        /\ UNCHANGED <<day, env, file, running, command, rows, asked, saved>>

(* Fault: the merge of flags, which keeps what it has over the default, as  *)
(* with_overrides keeps it over None.                                       *)
AdoptOverrides(settings) ==
    [k \in Keys |-> IF k \in PANEL_KEYS /\ settings[k] # Default
                    THEN settings[k] ELSE running[k]]

(* settings_save adopts the keys the panel owns, loaded without flags. *)
Adopt(settings) == [k \in Keys |-> IF k \in PANEL_KEYS THEN settings[k] ELSE running[k]]

(* write_config_file replaces the file; then the keys are loaded again. *)
SaveForm ==
    /\ saving # Nobody
    /\ file' = [k \in Keys |-> IF k \in PANEL_KEYS THEN saving.change[k]
                               ELSE saving.retention]
    /\ running' = Adopt(Resolve(NoFlags, file'))
    /\ saving' = Nobody
    /\ saved' = TRUE
    /\ UNCHANGED <<day, env, form, command, rows, asked>>

(* shrink_impact: the rows the period would delete now. *)
Shrinks(period) == \E t \in rows : t < day - period

MayRetain(period, confirm) ==
    /\ running.retention \in Periods
    /\ period >= running.retention \/ confirm \/ ~Shrinks(period)

(* POST /settings/retention: such a change needs a confirmation.  It is     *)
(* written and adopted, and a prune follows in a thread.                    *)
ChangeRetention(period, confirm) ==
    /\ running # Stopped /\ saving = Nobody
    /\ MayRetain(period, confirm)
    /\ file' = [file EXCEPT !["retention"] = period]
    /\ running' = [running EXCEPT !.retention = period]
    /\ asked' = IF confirm \/ ~Shrinks(period) THEN Shortest(period) ELSE asked
    /\ UNCHANGED <<day, env, form, saving, command, rows, saved>>

(* `quotalens config set` and `unset`; "" sets a key to null. *)
Command(key, value) ==
    /\ command = Nobody
    /\ value # file[key]
    /\ command' = [stored |-> file, key |-> key, value |-> value]
    /\ UNCHANGED <<day, env, file, running, form, saving, rows, asked, saved>>

SaveCommand ==
    /\ command # Nobody
    /\ file' = [command.stored EXCEPT ![command.key] = command.value]
    /\ command' = Nobody
    /\ saved' = FALSE
    /\ asked' = IF command.key = "retention" THEN Shortest(command.value) ELSE asked
    /\ UNCHANGED <<day, env, running, form, saving, rows>>

NewRow ==
    /\ running # Stopped
    /\ rows' = rows \cup {day}
    /\ rows' # rows
    /\ UNCHANGED <<day, env, file, running, form, saving, command, asked, saved>>

(* prune_now reads the running period when its thread gets to it: at any    *)
(* time after the poll or the change that started it.                       *)
PruneNow ==
    /\ running.retention \in Periods
    /\ rows' = {t \in rows : t >= day - running.retention}
    /\ rows' # rows
    /\ UNCHANGED <<day, env, file, running, form, saving, command, asked, saved>>

NextDay ==
    /\ day < MaxTime
    /\ day' = day + 1
    /\ UNCHANGED <<env, file, running, form, saving, command, rows, asked, saved>>

PanelValues == Values \cup {Bad}
CommandValues(key) ==
    {Absent} \cup IF key = "retention" THEN Periods \cup {Null} ELSE Values

Next ==
    \/ \E set \in SUBSET FlagKeys : \E flags \in [set -> Values] : Start(flags)
    \/ Stop
    \/ OpenPanel
    \/ \E key \in PANEL_KEYS, value \in PanelValues : Submit(key, value)
    \/ SaveForm
    \/ \E period \in Periods, confirm \in BOOLEAN : ChangeRetention(period, confirm)
    \/ \E key \in Keys : \E value \in CommandValues(key) : Command(key, value)
    \/ SaveCommand
    \/ NewRow
    \/ PruneNow
    \/ NextDay

Spec == Init /\ [][Next]_vars

-----------------------------------------------------------------------------
(* Every variable keeps its type: above all, no value that validate()       *)
(* refuses is ever stored, or every later start would be refused.           *)
TypeOK ==
    /\ day \in 0..MaxTime
    /\ \A k \in PANEL_KEYS : file[k] \in Values \cup {Absent}
    /\ file["retention"] \in Periods \cup {Absent, Null, NoneText}
    /\ running = Stopped \/ /\ \A k \in PANEL_KEYS : running[k] \in Values
                            /\ running.retention \in Periods \cup {NoneText}
    /\ form = Closed \/ form \in [PANEL_KEYS -> Values]
    /\ rows \subseteq {0 - age : age \in Ages} \cup 0..day
    /\ asked \in Periods \cup {Never}
    /\ saved \in BOOLEAN

(* api.settings_save: what the panel saved is what runs, and what the next  *)
(* start without flags will read, until a command writes the file: the      *)
(* environment keeps its rank, and a value equal to the default counts.     *)
SavedIsRunning ==
    saved /\ running # Stopped =>
        \A k \in PANEL_KEYS : running[k] = Resolve(NoFlags, file)[k]

(* retention.initialise, shrink_impact, prune_now: no row is deleted before *)
(* it is older than the shortest period somebody asked for (a command, the  *)
(* environment, a confirmed change, one that deleted nothing when it was    *)
(* made, the default of a new database) or than the longest option.         *)
GoesAsAsked == \A t \in rows \ rows' : day - t > Min({asked, Longest})
NothingGoesUnasked == [][GoesAsAsked]_vars

(* retention.py: the first value of an upgraded database "deletes nothing": *)
(* until somebody asks for a period, every row stays.                       *)
UpgradeDeletesNothing == [][asked = Never => rows \subseteq rows']_vars

(* config.validate: the period that runs is one of the options. *)
RunningPeriodIsAnOption == running # Stopped => running.retention \in Periods

=============================================================================
