------------------------------- MODULE Settings -------------------------------
(***************************************************************************)
(* The settings of the gateway and its credentials (internal/config,       *)
(* internal/api/settings.go, provisioning.go): one row each, changed by    *)
(* requests that may overlap, and what the running gateway makes of them.  *)
(* The log follows when a request applies its settings itself; name, token *)
(* and NATS parameters are read when the runtime starts, so a change of    *)
(* them is answered with a warning.  The settings page sends back all it   *)
(* has loaded, with what the user has changed.  Whatever is loaded may     *)
(* fail to load.                                                           *)
(***************************************************************************)
EXTENDS LogReload

CONSTANTS
  Requests,     \* requests that are made, each once
  Names,        \* names of the gateway (gw_id)
  Tokens,       \* tokens handed out by the platform
  MaxRestarts   \* bound: restarts of the runtime

NoToken == "none"

ASSUME SettingsAssumption ==
  /\ Names # {} /\ Tokens # {} /\ NoToken \notin Tokens
  /\ MaxRestarts \in Nat
  /\ "runtime" \notin Requests

Runtime == "runtime"

\* The row of gateway_settings, and what a page holds of it.
SettingsRows == [gw_id : Names, nats : BOOLEAN, log : Options]

NoRow == << >>

VARIABLES
  row,          \* gateway_settings
  token,        \* gateway_provisioning
  place,        \* place[r]: where request r is
  page,         \* page[r]: the settings a page holds and sends
  before,       \* before[r]: the row SaveSettings has found
  runtime,      \* where the goroutine of Restart is
  read,         \* the settings start has read, which the runtime uses
  used,         \* the token the runtime uses
  restarts,     \* restarts so far
  warned,       \* history: since start has read the settings, a request was answered with a warning
  excused,      \* history: a request was under way as start read them, or a load failed since
  overlapped    \* history: requests or a restart were under way at the same time

startVars == <<runtime, read, used, restarts>>
historyVars == <<warned, excused, overlapped>>
settingsVars == <<row, token, place, page, before, startVars, historyVars>>
logVars == <<ringVars, reloadVars>>
allVars == <<logVars, settingsVars>>

SettingsInit ==
  /\ row \in SettingsRows
  /\ token \in Tokens \cup {NoToken}
  /\ ReloadInit(row.log)
  /\ place = [r \in Requests |-> "free"]
  /\ page = [r \in Requests |-> NoRow]
  /\ before = [r \in Requests |-> NoRow]
  /\ runtime = "up"
  /\ read = row
  /\ used = IF row.nats THEN token ELSE NoToken
  /\ restarts = 0
  /\ warned = FALSE
  /\ excused = FALSE
  /\ overlapped = FALSE

Active(r) == place[r] \notin {"free", "open", "done"}

Starting == runtime \notin {"up", "down"}

Busy == Starting \/ \E r \in Requests : Active(r)

At(r, here, there) == place[r] = here /\ place' = [place EXCEPT ![r] = there]

-----------------------------------------------------------------------------
\* GetSettings, and SaveSettings with one change made on the page.

OpenPage(r) ==
  /\ At(r, "free", "open")
  /\ page' = [page EXCEPT ![r] = row]
  /\ UNCHANGED <<logVars, row, token, before, startVars, historyVars>>

Changes(s) ==
  {[s EXCEPT !.gw_id = n] : n \in Names} \cup {[s EXCEPT !.nats = b] : b \in BOOLEAN}
    \cup {[s EXCEPT !.log = o] : o \in Options}

\* The row as it was is loaded for the warnings; the request goes on without it.
LoadBefore(r) ==
  /\ At(r, "open", "store")
  /\ \/ before' = [before EXCEPT ![r] = row] /\ UNCHANGED excused
     \/ before' = [before EXCEPT ![r] = NoRow] /\ excused' = TRUE
  /\ page' \in {[page EXCEPT ![r] = s] : s \in Changes(page[r])}
  /\ overlapped' = (overlapped \/ Busy)
  /\ UNCHANGED <<logVars, row, token, startVars, warned>>

StoreSettings(r) ==
  /\ At(r, "store", "apply")
  /\ row' = page[r]
  /\ UNCHANGED <<logVars, token, page, before, startVars, historyVars>>

Forget(r) ==
  /\ page' = [page EXCEPT ![r] = NoRow]
  /\ before' = [before EXCEPT ![r] = NoRow]

SaveRefused(r) ==
  /\ At(r, "store", "done")
  /\ Forget(r)
  /\ UNCHANGED <<logVars, row, token, startVars, historyVars>>

ApplyLog(r) ==
  /\ At(r, "apply", "applying")
  /\ InitBegin(r, page[r].log)
  /\ UNCHANGED <<row, token, page, before, startVars, historyVars>>

\* Mutant of AnswerSaved: only the name is compared.
AnswerSavedName(r) ==
  /\ init.by # r
  /\ At(r, "applying", "done")
  /\ Forget(r)
  /\ warned' = (warned \/ (before[r] # NoRow /\ before[r].gw_id # page[r].gw_id))
  /\ UNCHANGED <<logVars, row, token, startVars, excused, overlapped>>

\* What is stored now differs from what was loaded before in what only a start reads.
Differs(r) ==
  /\ before[r] # NoRow
  /\ before[r].gw_id # page[r].gw_id \/ before[r].nats # page[r].nats

\* Init has come back: a change of name or NATS parameters is answered with a
\* warning, if there is something to compare.
AnswerSaved(r) ==
  /\ init.by # r
  /\ At(r, "applying", "done")
  /\ Forget(r)
  /\ warned' = (warned \/ Differs(r))
  /\ UNCHANGED <<logVars, row, token, startVars, excused, overlapped>>

-----------------------------------------------------------------------------
\* SaveProvisioning: both rows in one transaction; the settings are read again
\* for the warning.

Provision(r) ==
  /\ At(r, "free", "answer")
  /\ \E n \in Names, t \in Tokens : row' = [row EXCEPT !.gw_id = n] /\ token' = t
  /\ overlapped' = (overlapped \/ Busy)
  /\ UNCHANGED <<logVars, page, before, startVars, warned, excused>>

\* Both rows are stored when ProvisioningStatus fails, or provisioningWarnings
\* cannot read whether NATS is used: the answer has no warning then.
AnswerProvisioned(r) ==
  /\ At(r, "answer", "done")
  /\ \/ warned' = (warned \/ row.nats) /\ UNCHANGED excused
     \/ excused' = TRUE /\ UNCHANGED warned
  /\ UNCHANGED <<logVars, row, token, page, before, startVars, overlapped>>

-----------------------------------------------------------------------------
\* Restart: stop, and start as far as it reads settings.

RunAt(here, there) == runtime = here /\ runtime' = there

Restart ==
  /\ restarts < MaxRestarts
  /\ RunAt("up", "settings") \/ RunAt("down", "settings")
  /\ restarts' = restarts + 1
  /\ overlapped' = (overlapped \/ Busy)
  /\ UNCHANGED <<logVars, row, token, place, page, before, read, used, warned, excused>>

EnsureSettings ==
  /\ RunAt("settings", "log")
  /\ read' = row
  /\ warned' = FALSE
  /\ excused' = (\E r \in Requests : Active(r))
  /\ UNCHANGED <<logVars, row, token, place, page, before, used, restarts, overlapped>>

StartLog ==
  /\ RunAt("log", "token")
  /\ InitBegin(Runtime, read.log)
  /\ UNCHANGED <<row, token, place, page, before, read, used, restarts, historyVars>>

\* LoadProvisioning and natsclient.New, once Init has come back: a token that
\* cannot be read is an empty one, with a line in the log.
LoadProvisioning ==
  /\ init.by # Runtime
  /\ RunAt("token", "up")
  /\ \/ used' = (IF read.nats THEN token ELSE NoToken) /\ UNCHANGED excused
     \/ read.nats /\ used' = NoToken /\ excused' = TRUE
  /\ UNCHANGED <<logVars, row, token, place, page, before, read, restarts, warned, overlapped>>

\* EnsureSettings fails, or applyPlans after the log is set up.
StartFail ==
  /\ RunAt("settings", "down") \/ (RunAt("token", "down") /\ init.by # Runtime)
  /\ UNCHANGED <<logVars, row, token, place, page, before, read, used, restarts, historyVars>>

-----------------------------------------------------------------------------
RequestStep(r) ==
  \/ OpenPage(r) \/ LoadBefore(r) \/ StoreSettings(r) \/ SaveRefused(r) \/ ApplyLog(r)
  \/ AnswerSaved(r) \/ Provision(r) \/ AnswerProvisioned(r)

SettingsNext ==
  \/ \E r \in Requests \cap cast : RequestStep(r)
  \/ Runtime \in cast /\ Restart
  \/ EnsureSettings \/ StartLog \/ LoadProvisioning \/ StartFail
  \/ (\E by \in Requests \cup {Runtime} : InitStep(by)) /\ UNCHANGED settingsVars
  \/ LogStep /\ UNCHANGED settingsVars

SettingsSpec == SettingsInit /\ [][SettingsNext]_allVars

-----------------------------------------------------------------------------
\* Properties.

SettingsTypeOK ==
  /\ ReloadTypeOK
  /\ row \in SettingsRows
  /\ token \in Tokens \cup {NoToken}
  /\ place \in [Requests -> {"free", "open", "store", "apply", "applying", "answer", "done"}]
  /\ page \in [Requests -> SettingsRows \cup {NoRow}] /\ before \in [Requests -> SettingsRows \cup {NoRow}]
  /\ runtime \in {"up", "settings", "log", "token", "down"}
  /\ read \in SettingsRows
  /\ used \in Tokens \cup {NoToken}
  /\ restarts \in 0 .. MaxRestarts

\* settings.go:20: log settings apply at once.  What the log runs is what is
\* stored, whatever restarts and provisioning come between, until requests
\* overlap.
LogFollowsSettings == Busy \/ overlapped \/ options[curr] = row.log

\* The same of requests that may overlap: the older of two settings, or those
\* start has read, are applied last.  The code does not keep it.
LogAlwaysFollows == Busy \/ options[curr] = row.log

\* Does the runtime use a name, a token or NATS parameters that are stored no more?
Stale ==
  /\ runtime = "up"
  /\ \/ row.nats # read.nats
     \/ row.nats /\ (row.gw_id # read.gw_id \/ token # used)

\* settings.go:38: nothing is saved silently without taking effect.  When the
\* runtime is stale, a request since its start was answered with the warning to
\* restart it, however requests overlap: the row one of them compares with was
\* stored by another, which has its own warning to give.
StaleIsAnnounced == Busy \/ excused \/ (Stale => warned)

\* Nothing is saved without taking effect or a word about it.
SettingsTakeEffect == LogFollowsSettings /\ StaleIsAnnounced

\* The same when a load fails, or requests are under way as start reads the
\* settings.  The code does not keep it.
StaleAlwaysAnnounced == Busy \/ (Stale => warned)

\* settings.js sends all it has loaded: it changes what its user has changed and
\* nothing else.  A page that was loaded before a provisioning undoes it, also
\* the page it was made on (submitReprovision does not load the settings again).
PageKeepsOthers ==
  [][\A r \in Requests : StoreSettings(r) => page[r] \in Changes(row)]_allVars
=============================================================================
