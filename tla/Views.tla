------------------------------- MODULE Views -------------------------------
(***************************************************************************)
(* The desktop user interface as a client of the backend: the shell with   *)
(* its tabs, the dashboard with the knowledge graph and the sharing        *)
(* control of a page, the interview queue, the persona chat, and the       *)
(* settings with their sources, sharing and transfer tabs.                 *)
(*                                                                         *)
(* A view sends commands and waits for none of them: the owner goes on     *)
(* clicking and changes the tab while they are in flight, the backend      *)
(* handles them in any order, and their answers arrive in any order.  A    *)
(* view that was left is gone, yet a command it sent still takes effect.   *)
(* One action is one handler: a click, an answer with everything that runs *)
(* after the await, or the backend handling one command.                   *)
(***************************************************************************)
EXTENDS Naturals, Sequences, FiniteSets, SequencesExt

CONSTANTS
  Facts,        \* the pages of the graph
  CompanyFacts, \* those that the scope "Company" shows
  Questions,    \* the questions pending at first
  Projects,     \* the session projects the scope dialog offers
  Secrets,      \* the share tokens that may be issued
  Policies,     \* the transfer policies
  LlmModels,    \* the language models
  Null,         \* no page, no question, no token
  MaxClicks,    \* bound on what the owner clicks
  MaxOpens,     \* bound on the tabs the owner opens
  MaxInFlight,  \* bound on the commands in flight when the owner clicks
  MaxFaults     \* bound on the commands that fail

\* What commands touch besides pages, whose ids are no such names.
Resources == {"dashboard", "graph", "queue", "transfers", "thread", "shares", "config", "sources",
              "scope", "lock"}

ASSUME ViewsAssumption ==
  /\ CompanyFacts \subseteq Facts
  /\ Facts \cap Resources = {}
  /\ Policies # {} /\ LlmModels # {}
  /\ Null \notin Facts \cup Questions \cup Secrets
  /\ {MaxClicks, MaxOpens, MaxInFlight, MaxFaults} \subseteq Nat

VARIABLES
  ui,        \* what is mounted: the tab, its pane, the settings page around it, the panel in it
  inFlight,  \* the commands in flight, in the order they were sent
  vault,     \* the state behind the commands
  seen,      \* observer: secrets shown, resources whose calls overlapped, a token's view left
  spent      \* clicks, opened tabs and faults so far

viewVars == <<ui, inFlight, vault, seen, spent>>

-----------------------------------------------------------------------------
(* View states and mounted views.                                          *)

Loading == [status |-> "loading"]
Failed == [status |-> "error"]
Ready(data) == [status |-> "ready", data |-> data]
Shows(state) == state.status = "ready"

NoView == [view |-> "none"]
Dashboard == [view |-> "dashboard", stats |-> Loading, graph |-> Loading, scope |-> "all",
              selected |-> Null]
Queue == [view |-> "queue", items |-> Loading, busyId |-> Null, error |-> FALSE]
Persona == [view |-> "persona", messages |-> <<>>, sending |-> FALSE, loaded |-> FALSE,
            fresh |-> FALSE]
Sharing == [view |-> "sharing", status |-> Loading, loading |-> TRUE, busy |-> FALSE,
            error |-> FALSE, picked |-> FALSE, issued |-> Null]
Sources == [view |-> "sources", status |-> Loading, run |-> "idle", error |-> FALSE]
Unlocking == [view |-> "unlock", busy |-> FALSE, error |-> FALSE]
Home == [view |-> "home", config |-> Loading, model |-> Null, typed |-> {}, loading |-> TRUE,
         busy |-> FALSE, error |-> FALSE, saved |-> FALSE, transfers |-> 0]
Control == [view |-> "control", fact |-> Loading, visibility |-> "Private", category |-> "none",
            picked |-> {}, busy |-> FALSE, error |-> FALSE, saved |-> FALSE]
ScopeDialog == [view |-> "scope", shown |-> FALSE, selected |-> {}, toggled |-> {},
                saving |-> FALSE, error |-> FALSE]
ConnectDialog == [view |-> "connect", saving |-> FALSE, note |-> FALSE, error |-> FALSE]

SettingsTabs == {"general", "sources", "sharing", "transfers"}
Tabs == {"dashboard", "queue", "persona"} \cup SettingsTabs

-----------------------------------------------------------------------------
(* Commands: what they touch, and who awaits their answer.  "pane", "home",*)
(* "graph" and "panel" are parts of the mounted view, "load" the effect of *)
(* the sharing control that reads its page, "shell" and "app" the frames   *)
(* that stay; "nobody" awaits a command whose view is gone.                *)

Cmd(cmd, arg, for) ==
  [cmd |-> cmd, arg |-> arg, for |-> for, state |-> "sent", answer |-> Null]

Touches(c) ==
  CASE c.cmd \in {"get_fact", "set_fact_sharing"} -> {c.arg.fact}
    [] c.cmd = "get_dashboard" -> {"dashboard"}
    [] c.cmd = "get_graph" -> {"graph"}
    [] c.cmd \in {"queue_list", "queue_answer"} -> {"queue"}
    [] c.cmd = "trigger_ingest" -> {"queue", "transfers"}
    [] c.cmd = "list_transfers" -> {"transfers"}
    [] c.cmd \in {"persona_history_load", "persona_history_save"} -> {"thread"}
    [] c.cmd \in {"share_status", "set_sharing_enabled", "issue_share_token",
                  "revoke_share_token", "share_tunnel"} -> {"shares"}
    [] c.cmd = "load_settings" -> {"config", "transfers"}
    [] c.cmd \in {"get_config", "set_transfer_policy", "set_server_enabled",
                  "set_llm_config"} -> {"config"}
    [] c.cmd \in {"list_sources", "connect_source", "disconnect_source"} -> {"sources"}
    [] c.cmd \in {"get_session_scope", "set_session_scope"} -> {"scope"}
    [] c.cmd \in {"lock", "unlock", "get_status"} -> {"lock"}
    [] OTHER -> {}

Reads == {"get_dashboard", "get_graph", "get_fact", "queue_list", "persona_history_load",
          "share_status", "load_settings", "get_config", "list_transfers", "list_sources",
          "get_session_scope"}

\* Mutant: the callbacks end with the view that was given them.
LineUnmounted(c) ==
  IF c.cmd \in {"connect_source", "set_session_scope"} THEN <<"panel", "pane">> ELSE <<"pane">>

\* Who still runs after the await when the parts in `gone` were unmounted: the callbacks a
\* handler was given belong to the frames around its view and outlive it.
Line(c) ==
  CASE c.cmd = "queue_answer" -> <<"pane", "shell">>
    [] c.cmd = "trigger_ingest" -> <<"pane", "home", "shell">>
    [] c.cmd \in {"connect_source", "set_session_scope"} -> <<"panel", "pane">>
    [] c.cmd = "lock" -> <<"home", "app">>
    [] c.cmd = "unlock" -> <<"pane", "app">>
    [] OTHER -> <<>>

Heir(c, gone) ==
  LET left == {n \in DOMAIN Line(c) : Line(c)[n] \notin gone} IN
  IF c.for \notin gone THEN c.for
  ELSE IF left = {} THEN "nobody" ELSE Line(c)[CHOOSE n \in left : \A m \in left : n <= m]
Moved(c, gone) == [c EXCEPT !.for = Heir(c, gone)]

\* An answer nobody awaits, and a read for nobody, change nothing any more.
Matters(c) == c.for # "nobody" \/ (c.state = "sent" /\ c.cmd \notin Reads)

\* The commands in flight once `gone` is unmounted.
Heirs(cs, gone) ==
  LET kept[n \in 0..Len(cs)] ==
        IF n = 0 THEN <<>>
        ELSE IF Matters(Moved(cs[n], gone)) THEN Append(kept[n - 1], Moved(cs[n], gone))
        ELSE kept[n - 1]
  IN kept[Len(cs)]

\* A handler leaves the view `u` behind, unmounts `gone` and sends `sent`.
Show(cs, u, gone, sent) ==
  LET resources == UNION {Touches(sent[i]) : i \in DOMAIN sent}
      kept == Heirs(cs, gone) IN
  /\ ui' = u
  /\ inFlight' = kept \o sent
  /\ seen' = [seen EXCEPT
       !.shown = IF u.pane.view = "sharing" THEN @ \cup ({u.pane.issued} \ {Null}) ELSE @,
       !.overlapped = @ \cup {r \in resources : \E i \in DOMAIN kept : r \in Touches(kept[i])},
       !.left = @ \/ \E i \in DOMAIN cs :
                       cs[i].cmd = "issue_share_token" /\ cs[i].for \in gone]

Clicked(u, gone, sent) ==
  /\ spent.clicks < MaxClicks /\ Len(inFlight) < MaxInFlight
  /\ spent' = [spent EXCEPT !.clicks = @ + 1]
  /\ Show(inFlight, u, gone, sent)
  /\ UNCHANGED vault

\* The answer of command i reaches its handler.
Answers(i, cmds) ==
  i \in DOMAIN inFlight /\ inFlight[i].cmd \in cmds /\ inFlight[i].state # "sent"
Done(i) == inFlight[i].state = "done"
Answered(i, u, gone, sent) ==
  /\ Show(RemoveAt(inFlight, i), u, gone, sent)
  /\ UNCHANGED <<vault, spent>>

\* load: the state a view shows for the answer of a fetch.
Fetched(i) == IF Done(i) THEN Ready(inFlight[i].answer) ELSE Failed

-----------------------------------------------------------------------------
(* The shell: tabs, and the lock screen.                                   *)

\* What opening tab t mounts and asks for.
PaneOf(t) ==
  CASE t = "dashboard" -> Dashboard [] t = "queue" -> Queue [] t = "persona" -> Persona
    [] t = "sharing" -> Sharing [] t = "sources" -> Sources [] OTHER -> NoView
Asked(t) ==
  CASE t = "dashboard" -> <<Cmd("get_dashboard", Null, "pane")>>
    [] t = "queue" -> <<Cmd("queue_list", Null, "pane")>>
    [] t = "persona" -> <<Cmd("persona_history_load", Null, "pane")>>
    [] t = "sharing" -> <<Cmd("share_status", "mount", "pane")>>
    [] t = "sources" -> <<Cmd("list_sources", Null, "pane")>>
    [] t = "transfers" -> <<Cmd("list_transfers", Null, "home")>>
    [] OTHER -> <<>>
Mounted(t) ==
  [tab |-> t, pane |-> PaneOf(t), panel |-> NoView,
   home |-> IF t \in SettingsTabs THEN Home ELSE NoView]
HomeAsked(t) == IF t \in SettingsTabs THEN <<Cmd("load_settings", Null, "home")>> ELSE <<>>

InDialog == ui.panel.view \in {"scope", "connect"}
InSettings == ui.tab \in SettingsTabs
Inner == {"pane", "graph", "panel", "load"}

\* A click on a tab: the settings page opens on its general tab (or, from the dashboard, on
\* its sources) and stays mounted while its own tabs change.  A dialog covers the tabs.
Open(t) ==
  /\ ui.tab \notin {t, "unlock"} /\ ~InDialog
  /\ spent.opens < MaxOpens /\ Len(inFlight) < MaxInFlight
  /\ IF InSettings /\ t \in SettingsTabs
     THEN Show(inFlight, [ui EXCEPT !.tab = t, !.pane = PaneOf(t), !.panel = NoView],
               Inner, Asked(t))
     ELSE /\ t \notin {"sharing", "transfers"}
          /\ t = "sources" => ui.tab = "dashboard"
          /\ Show(inFlight, Mounted(t), Inner \cup {"home"}, HomeAsked(t) \o Asked(t))
  /\ spent' = [spent EXCEPT !.opens = @ + 1]
  /\ UNCHANGED vault

\* bump: a changed key mounts the dashboard anew, if it is what is shown.
Bump(i) ==
  IF Done(i) /\ ui.tab = "dashboard"
  THEN Answered(i, Mounted("dashboard"), Inner, Asked("dashboard"))
  ELSE Answered(i, ui, {}, <<>>)

Lock ==
  /\ ui.tab = "general" /\ ~ui.home.busy
  /\ Clicked([ui EXCEPT !.home.busy = TRUE, !.home.error = FALSE], {},
             <<Cmd("lock", Null, "home")>>)

\* The status is asked for even if the settings page was left meanwhile.
LockAnswered(i) ==
  /\ Answers(i, {"lock"})
  /\ LET home == IF inFlight[i].for = "home"
                 THEN [ui.home EXCEPT !.busy = FALSE, !.error = ~Done(i)] ELSE ui.home IN
     Answered(i, [ui EXCEPT !.home = home], {},
              IF Done(i) THEN <<Cmd("get_status", Null, "app")>> ELSE <<>>)

Unlock ==
  /\ ui.tab = "unlock" /\ ~ui.pane.busy
  /\ Clicked([ui EXCEPT !.pane.busy = TRUE, !.pane.error = FALSE], {},
             <<Cmd("unlock", Null, "pane")>>)

UnlockAnswered(i) ==
  /\ Answers(i, {"unlock"})
  /\ LET pane == IF inFlight[i].for = "pane" /\ ~Done(i)
                 THEN [ui.pane EXCEPT !.busy = FALSE, !.error = TRUE] ELSE ui.pane IN
     Answered(i, [ui EXCEPT !.pane = pane], {},
              IF Done(i) THEN <<Cmd("get_status", Null, "app")>> ELSE <<>>)

\* App.refresh: the status decides between the lock screen and the shell.
StatusAnswered(i) ==
  /\ Answers(i, {"get_status"})
  /\ LET open == inFlight[i].answer = "open" IN
     \/ /\ open /\ ui.tab = "unlock"
        /\ Answered(i, Mounted("dashboard"), {"pane"}, Asked("dashboard"))
     \/ /\ ~open /\ ui.tab # "unlock"
        /\ Answered(i, [tab |-> "unlock", pane |-> Unlocking, home |-> NoView, panel |-> NoView],
                    Inner \cup {"home"}, <<>>)
     \/ /\ open <=> ui.tab # "unlock"
        /\ Answered(i, ui, {}, <<>>)

-----------------------------------------------------------------------------
(* The dashboard, the graph in it, and the sharing control of a page.      *)

GraphShown == ui.tab = "dashboard" /\ Shows(ui.pane.stats)

\* The graph is mounted with the numbers and unmounted while they load.
DashboardAnswered(i) ==
  /\ Answers(i, {"get_dashboard"})
  /\ LET stays == GraphShown /\ Done(i)
         pane == IF stays THEN ui.pane ELSE Dashboard IN
     Answered(i, [ui EXCEPT !.pane = [pane EXCEPT !.stats = Fetched(i)],
                            !.panel = IF stays THEN @ ELSE NoView],
              IF stays THEN {} ELSE {"graph", "panel", "load"},
              IF Done(i) /\ ~stays THEN <<Cmd("get_graph", "all", "graph")>> ELSE <<>>)

RefreshDashboard ==
  /\ ui.tab = "dashboard"
  /\ Clicked([ui EXCEPT !.pane = Dashboard, !.panel = NoView], {"graph", "panel", "load"},
             Asked("dashboard"))

\* GraphView.refresh: a new scope, or the same after a failure.  Nothing cancels the fetch of
\* the scope chosen before.
ChooseScope(s) ==
  /\ GraphShown
  /\ s # ui.pane.scope \/ ui.pane.graph = Failed
  /\ Clicked([ui EXCEPT !.pane.scope = s, !.pane.graph = Loading, !.pane.selected = Null,
                        !.panel = NoView],
             {"panel", "load"}, <<Cmd("get_graph", s, "graph")>>)

GraphAnswered(i) ==
  /\ Answers(i, {"get_graph"})
  /\ Answered(i, [ui EXCEPT !.pane.graph = Fetched(i)], {}, <<>>)

\* Mutant: the read for the last selection is not cancelled by the next one.
SelectUncancelled(f) ==
  /\ GraphShown /\ Shows(ui.pane.graph) /\ f \in ui.pane.graph.data
  /\ IF f = ui.pane.selected
     THEN Clicked([ui EXCEPT !.pane.selected = Null, !.panel = NoView], {"panel", "load"}, <<>>)
     ELSE LET control == IF ui.panel = NoView THEN Control ELSE ui.panel IN
          Clicked([ui EXCEPT !.pane.selected = f,
                             !.panel = [control EXCEPT !.fact = Loading, !.error = FALSE,
                                                       !.saved = FALSE]],
                  {}, <<Cmd("get_fact", [fact |-> f], "load")>>)

\* A page is selected, or deselected: its control keeps its state when another page takes its
\* place, and starts over reading that page.
Select(f) ==
  /\ GraphShown /\ Shows(ui.pane.graph) /\ f \in ui.pane.graph.data
  /\ IF f = ui.pane.selected
     THEN Clicked([ui EXCEPT !.pane.selected = Null, !.panel = NoView], {"panel", "load"}, <<>>)
     ELSE LET control == IF ui.panel = NoView THEN Control ELSE ui.panel IN
          Clicked([ui EXCEPT !.pane.selected = f,
                             !.panel = [control EXCEPT !.fact = Loading, !.error = FALSE,
                                                       !.saved = FALSE]],
                  {"load"}, <<Cmd("get_fact", [fact |-> f], "load")>>)

FactAnswered(i) ==
  /\ Answers(i, {"get_fact"})
  /\ LET read == inFlight[i].answer IN
     Answered(i, IF Done(i)
                 THEN [ui EXCEPT !.panel.fact = Ready(inFlight[i].arg.fact),
                                 !.panel.visibility = read.visibility,
                                 !.panel.category = read.category, !.panel.picked = {}]
                 ELSE [ui EXCEPT !.panel.error = TRUE], {}, <<>>)

\* The controls of a page are enabled once it is read and while it is not being saved.
ControlEnabled == ui.panel.view = "control" /\ ~ui.panel.busy /\ Shows(ui.panel.fact)

PickVisibility(v) ==
  /\ ControlEnabled /\ v # ui.panel.visibility
  /\ Clicked([ui EXCEPT !.panel.visibility = v, !.panel.saved = FALSE,
                        !.panel.picked = @ \cup {"visibility"}], {}, <<>>)

\* Mutant: picking a category leaves the note that the page was saved.
PickCategoryQuietly(k) ==
  /\ ControlEnabled /\ k # ui.panel.category
  /\ Clicked([ui EXCEPT !.panel.category = k, !.panel.picked = @ \cup {"category"}], {}, <<>>)

PickCategory(k) ==
  /\ ControlEnabled /\ k # ui.panel.category
  /\ Clicked([ui EXCEPT !.panel.category = k, !.panel.saved = FALSE,
                        !.panel.picked = @ \cup {"category"}], {}, <<>>)

\* `picked` goes with the command for the properties only.
SaveSharing ==
  /\ ControlEnabled
  /\ ~(ui.panel.visibility = "Shared" /\ ui.panel.category = "none")
  /\ Clicked([ui EXCEPT !.panel.busy = TRUE, !.panel.error = FALSE, !.panel.saved = FALSE], {},
             <<Cmd("set_fact_sharing",
                   [fact |-> ui.pane.selected, visibility |-> ui.panel.visibility,
                    category |-> ui.panel.category, picked |-> ui.panel.picked], "panel")>>)

SharingSaved(i) ==
  /\ Answers(i, {"set_fact_sharing"})
  /\ Answered(i, [ui EXCEPT !.panel.busy = FALSE, !.panel.saved = Done(i),
                            !.panel.error = ~Done(i)], {}, <<>>)

-----------------------------------------------------------------------------
(* The interview queue.                                                    *)

RefreshQueue ==
  /\ ui.tab = "queue"
  /\ Clicked([ui EXCEPT !.pane.items = Loading], {}, Asked("queue"))

QueueListed(i) ==
  /\ Answers(i, {"queue_list"})
  /\ Answered(i, [ui EXCEPT !.pane.items = Fetched(i)], {}, <<>>)

AnswerQuestion(q, input) ==
  /\ ui.tab = "queue" /\ Shows(ui.pane.items)
  /\ q \in ui.pane.items.data /\ q # ui.pane.busyId
  /\ Clicked([ui EXCEPT !.pane.busyId = q, !.pane.error = FALSE], {},
             <<Cmd("queue_answer", [id |-> q, input |-> input], "pane")>>)

\* An answer taken tells the shell and reads the queue again, an answer refused is shown.
QuestionAnswered(i) ==
  /\ Answers(i, {"queue_answer"})
  /\ \/ /\ inFlight[i].for = "pane" /\ Done(i)
        /\ Answered(i, [ui EXCEPT !.pane.busyId = Null, !.pane.items = Loading], {}, Asked("queue"))
     \/ /\ inFlight[i].for = "pane" /\ ~Done(i)
        /\ Answered(i, [ui EXCEPT !.pane.busyId = Null, !.pane.error = TRUE], {}, <<>>)
     \/ inFlight[i].for = "shell" /\ Bump(i)

-----------------------------------------------------------------------------
(* The persona chat.                                                       *)

Message(by, text) == [by |-> by, text |-> text, error |-> FALSE]

\* The thread is saved after every change, once it was loaded; nobody awaits the save.
Persisted(pane) ==
  IF pane.loaded
  THEN <<Cmd("persona_history_save", [thread |-> pane.messages, fresh |-> pane.fresh], "nobody")>>
  ELSE <<>>
Chat(pane) == [ui EXCEPT !.pane = pane]

HistoryLoaded(i) ==
  /\ Answers(i, {"persona_history_load"})
  /\ LET pane == [ui.pane EXCEPT !.messages = IF Done(i) THEN inFlight[i].answer ELSE @,
                                 !.loaded = TRUE, !.fresh = ~Done(i)] IN
     Answered(i, Chat(pane), {}, Persisted(pane))

\* send, from the composer (one at a time), an example (shown while the thread is empty) or
\* the retry button of a failed turn.
Send ==
  /\ ui.tab = "persona"
  /\ \/ ~ui.pane.sending
     \/ ui.pane.messages = <<>>
     \/ \E i \in DOMAIN ui.pane.messages : ui.pane.messages[i].error
  /\ LET pane == [ui.pane EXCEPT !.messages = Append(@, Message("user", "asked")),
                                 !.sending = TRUE] IN
     Clicked(Chat(pane), {}, <<Cmd("persona_chat", Null, "pane")>> \o Persisted(pane))

\* Mutant: the reply is appended to the thread as it was before the question.
RepliedToSnapshot(i) ==
  /\ Answers(i, {"persona_chat"})
  /\ LET old == ui.pane.messages
         before == IF old = <<>> THEN old ELSE Front(old)
         new == IF Done(i) THEN Append(before, Message("persona", "reply"))
                ELSE [n \in DOMAIN old |-> IF n < Len(old) THEN old[n]
                                           ELSE [old[n] EXCEPT !.error = TRUE]]
         pane == [ui.pane EXCEPT !.messages = new, !.sending = FALSE] IN
     Answered(i, Chat(pane), {}, Persisted(pane))

\* A failed reply marks whatever message is the last one by then.
Replied(i) ==
  /\ Answers(i, {"persona_chat"})
  /\ LET old == ui.pane.messages
         new == IF Done(i) THEN Append(old, Message("persona", "reply"))
                ELSE [n \in DOMAIN old |-> IF n < Len(old) THEN old[n]
                                           ELSE [old[n] EXCEPT !.error = TRUE]]
         pane == [ui.pane EXCEPT !.messages = new, !.sending = FALSE] IN
     Answered(i, Chat(pane), {}, Persisted(pane))

StartNew ==
  /\ ui.tab = "persona" /\ ui.pane.messages # <<>> /\ ~ui.pane.sending
  /\ LET pane == [ui.pane EXCEPT !.messages = <<>>, !.fresh = TRUE] IN
     Clicked(Chat(pane), {}, Persisted(pane))

-----------------------------------------------------------------------------
(* The settings page: configuration, language model form, transfer log.    *)

InHome(home) == [ui EXCEPT !.home = home]
HomeIdle == ui.tab = "general" /\ ~ui.home.loading /\ ~ui.home.busy /\ Shows(ui.home.config)
Dirty(home) ==
  Shows(home.config) /\ (home.model # home.config.data.model \/ "key" \in home.typed)

\* syncLlmForm: the form starts over from the configuration just read.
Synced(home, config) == [home EXCEPT !.config = Ready(config), !.model = config.model, !.typed = {}]

SettingsLoaded(i) ==
  /\ Answers(i, {"load_settings"})
  /\ LET read == inFlight[i].answer IN
     Answered(i, InHome(IF Done(i)
                        THEN [Synced(ui.home, read.config) EXCEPT !.transfers = read.transfers,
                                                                  !.loading = FALSE]
                        ELSE [ui.home EXCEPT !.error = TRUE, !.loading = FALSE]), {}, <<>>)

ChoosePolicy(p) ==
  /\ HomeIdle /\ p # ui.home.config.data.policy
  /\ Clicked(InHome([ui.home EXCEPT !.busy = TRUE, !.error = FALSE]), {},
             <<Cmd("set_transfer_policy", p, "home")>>)

ToggleServer ==
  /\ HomeIdle
  /\ Clicked(InHome([ui.home EXCEPT !.busy = TRUE, !.error = FALSE]), {},
             <<Cmd("set_server_enabled", ~ui.home.config.data.server, "home")>>)

EditModel(m) ==
  /\ HomeIdle /\ m # ui.home.model
  /\ Clicked(InHome([ui.home EXCEPT !.model = m, !.typed = @ \cup {"model"}, !.saved = FALSE]),
             {}, <<>>)

EditKey ==
  /\ HomeIdle /\ "key" \notin ui.home.typed
  /\ Clicked(InHome([ui.home EXCEPT !.typed = @ \cup {"key"}, !.saved = FALSE]), {}, <<>>)

\* A key that was not typed is sent as none and left as it is stored.
SaveLlm ==
  /\ HomeIdle /\ Dirty(ui.home)
  /\ Clicked(InHome([ui.home EXCEPT !.busy = TRUE, !.error = FALSE, !.saved = FALSE]), {},
             <<Cmd("set_llm_config", [model |-> ui.home.model, typed |-> ui.home.typed], "home")>>)

\* Each save reads the configuration back before its controls are enabled again.
ConfigChanged(i) ==
  /\ Answers(i, {"set_transfer_policy", "set_server_enabled", "set_llm_config"})
  /\ IF Done(i) THEN Answered(i, ui, {}, <<Cmd("get_config", inFlight[i].cmd, "home")>>)
     ELSE Answered(i, InHome([ui.home EXCEPT !.busy = FALSE, !.error = TRUE]), {}, <<>>)

ConfigRead(i) ==
  /\ Answers(i, {"get_config"})
  /\ LET idle == [ui.home EXCEPT !.busy = FALSE]
         config == inFlight[i].answer IN
     Answered(i, InHome(
       IF ~Done(i) THEN [idle EXCEPT !.error = TRUE]
       ELSE IF inFlight[i].arg = "set_llm_config" THEN [Synced(idle, config) EXCEPT !.saved = TRUE]
       ELSE [idle EXCEPT !.config = Ready(config)]), {}, <<>>)

TransfersListed(i) ==
  /\ Answers(i, {"list_transfers"})
  /\ Answered(i, InHome([ui.home EXCEPT !.transfers = IF Done(i) THEN inFlight[i].answer ELSE @]),
              {}, <<>>)

-----------------------------------------------------------------------------
(* The sharing tab: the servers, the tunnel and the tokens.                *)

Shares(pane) == [ui EXCEPT !.pane = pane]
OnSharing == ui.tab = "sharing"
Enabled == OnSharing /\ Shows(ui.pane.status) /\ ui.pane.status.data.enabled
SharesIdle == Enabled /\ ~ui.pane.busy
Busied == [ui.pane EXCEPT !.busy = TRUE, !.error = FALSE]

\* The first read of the tab, and the refresh after every change.
SharesRead(i) ==
  /\ Answers(i, {"share_status"})
  /\ LET pane == IF inFlight[i].arg = "mount" THEN [ui.pane EXCEPT !.loading = FALSE]
                 ELSE [ui.pane EXCEPT !.busy = FALSE] IN
     Answered(i, Shares(IF Done(i) THEN [pane EXCEPT !.status = Ready(inFlight[i].answer)]
                        ELSE [pane EXCEPT !.error = TRUE]), {}, <<>>)

SwitchSharing ==
  /\ OnSharing /\ ~ui.pane.loading /\ ~ui.pane.busy
  /\ Clicked(Shares(Busied), {}, <<Cmd("set_sharing_enabled", ~Enabled, "pane")>>)

\* The form of a token, a label and categories: the label may be typed while a command runs,
\* and typing hides the secret shown last.
FillIn ==
  /\ Enabled /\ (ui.pane.busy => ui.pane.picked)
  /\ ~ui.pane.picked \/ ui.pane.issued # Null
  /\ Clicked(Shares([ui.pane EXCEPT !.picked = TRUE, !.issued = Null]), {}, <<>>)

IssueToken ==
  /\ SharesIdle /\ ui.pane.picked
  /\ Clicked(Shares([Busied EXCEPT !.issued = Null]), {},
             <<Cmd("issue_share_token", Null, "pane")>>)

RevokeToken(t) ==
  /\ SharesIdle /\ t \in ui.pane.status.data.live
  /\ Clicked(Shares(Busied), {}, <<Cmd("revoke_share_token", t, "pane")>>)

ToggleTunnel ==
  /\ SharesIdle
  /\ Clicked(Shares(Busied), {}, <<Cmd("share_tunnel", ~ui.pane.status.data.tunnel, "pane")>>)

SharesRefresh == <<Cmd("share_status", "refresh", "pane")>>
\* Mutant: a failure is shown and the controls stay disabled.
SharesFailedBusy(i) == Answered(i, Shares([ui.pane EXCEPT !.error = TRUE]), {}, <<>>)

SharesFailed(i) == Answered(i, Shares([ui.pane EXCEPT !.busy = FALSE, !.error = TRUE]), {}, <<>>)

SharesChanged(i) ==
  /\ Answers(i, {"set_sharing_enabled", "revoke_share_token", "share_tunnel"})
  /\ IF Done(i) THEN Answered(i, ui, {}, SharesRefresh) ELSE SharesFailed(i)

\* Mutant: the secret shown last is cleared after the await instead of before it.
TokenIssuedCleared(i) ==
  /\ Answers(i, {"issue_share_token"})
  /\ IF Done(i)
     THEN Answered(i, Shares([ui.pane EXCEPT !.issued = Null, !.picked = FALSE]), {}, SharesRefresh)
     ELSE SharesFailed(i)

\* The secret is shown before the tab is refreshed: it cannot be read again.
TokenIssued(i) ==
  /\ Answers(i, {"issue_share_token"})
  /\ IF Done(i)
     THEN Answered(i, Shares([ui.pane EXCEPT !.issued = inFlight[i].answer, !.picked = FALSE]), {},
                   SharesRefresh)
     ELSE SharesFailed(i)

-----------------------------------------------------------------------------
(* The sources tab, with its two dialogs.                                  *)

OnSources == ui.tab = "sources" /\ ~InDialog
Connected == OnSources /\ Shows(ui.pane.status) /\ ui.pane.status.data

\* A list that could not be read leaves the one shown.
SourcesListed(i) ==
  /\ Answers(i, {"list_sources"})
  /\ Answered(i, IF Done(i) THEN [ui EXCEPT !.pane.status = Fetched(i), !.pane.error = FALSE]
                 ELSE [ui EXCEPT !.pane.error = TRUE], {}, <<>>)

Sync ==
  /\ Connected /\ ui.pane.run # "running"
  /\ Clicked([ui EXCEPT !.pane.run = "running"], {}, <<Cmd("trigger_ingest", Null, "pane")>>)

\* A collection that ends tells the settings page and the shell, whatever is left of them.
SyncEnded(i) ==
  /\ Answers(i, {"trigger_ingest"})
  /\ LET transfers == IF Done(i) THEN Asked("transfers") ELSE <<>> IN
     \/ /\ inFlight[i].for = "pane"
        /\ Answered(i, [ui EXCEPT !.pane.run = IF Done(i) THEN "done" ELSE "error"], {}, transfers)
     \/ inFlight[i].for = "home" /\ Answered(i, ui, {}, transfers)
     \/ inFlight[i].for = "shell" /\ Bump(i)

\* The toast of a finished run goes away by itself.
ToastGone ==
  /\ ui.pane.view = "sources" /\ ui.pane.run \in {"done", "error"}
  /\ Show(inFlight, [ui EXCEPT !.pane.run = "idle"], {}, <<>>)
  /\ UNCHANGED <<vault, spent>>

Disconnect ==
  /\ Connected
  /\ Clicked(ui, {}, <<Cmd("disconnect_source", Null, "pane")>>)

Disconnected(i) ==
  /\ Answers(i, {"disconnect_source"})
  /\ IF Done(i) THEN Answered(i, ui, {}, Asked("sources"))
     ELSE Answered(i, [ui EXCEPT !.pane.error = TRUE], {}, <<>>)

OpenDialog(dialog) ==
  /\ OnSources
  /\ IF dialog = ScopeDialog THEN ui.pane.run # "running" ELSE Shows(ui.pane.status)
  /\ Clicked([ui EXCEPT !.panel = dialog], {},
             IF dialog = ScopeDialog THEN <<Cmd("get_session_scope", Null, "panel")>> ELSE <<>>)

\* A click beside a dialog closes it, whatever it is doing.
Closed == [ui EXCEPT !.panel = NoView]
CloseDialog == InDialog /\ Clicked(Closed, {"panel"}, <<>>)

Connect ==
  /\ ui.panel.view = "connect" /\ ~ui.panel.saving /\ ~ui.panel.note
  /\ Clicked([ui EXCEPT !.panel.saving = TRUE, !.panel.error = FALSE], {},
             <<Cmd("connect_source", Null, "panel")>>)

\* The list of sources is read again even if the dialog was closed meanwhile.
ConnectAnswered(i) ==
  /\ Answers(i, {"connect_source"})
  /\ LET panel == IF inFlight[i].for # "panel" THEN ui.panel
                  ELSE [ui.panel EXCEPT !.saving = FALSE, !.note = Done(i), !.error = ~Done(i)] IN
     Answered(i, [ui EXCEPT !.panel = panel], {}, IF Done(i) THEN Asked("sources") ELSE <<>>)

ScopeRead(i) ==
  /\ Answers(i, {"get_session_scope"})
  /\ Answered(i, IF Done(i)
                 THEN [ui EXCEPT !.panel.shown = TRUE, !.panel.selected = inFlight[i].answer]
                 ELSE [ui EXCEPT !.panel.error = TRUE], {}, <<>>)

ToggleProject(p) ==
  /\ ui.panel.view = "scope" /\ ui.panel.shown
  /\ Clicked([ui EXCEPT !.panel.selected = SymDiff(@, {p}), !.panel.toggled = @ \cup {p}],
             {}, <<>>)

SaveScope ==
  /\ ui.panel.view = "scope" /\ ui.panel.shown /\ ~ui.panel.saving
  /\ Clicked([ui EXCEPT !.panel.saving = TRUE], {},
             <<Cmd("set_session_scope",
                   [roots |-> ui.panel.selected, toggled |-> ui.panel.toggled], "panel")>>)

\* A scope stored closes the dialog: any scope dialog open by then.
ScopeSaved(i) ==
  /\ Answers(i, {"set_session_scope"})
  /\ IF Done(i) /\ ui.panel.view = "scope" THEN Answered(i, Closed, {"panel"}, <<>>)
     ELSE Answered(i, IF ~Done(i) /\ inFlight[i].for = "panel"
                      THEN [ui EXCEPT !.panel.saving = FALSE, !.panel.error = TRUE] ELSE ui, {}, <<>>)

-----------------------------------------------------------------------------
(* The backend, command by command; what the commands do inside is the     *)
(* business of the other modules.                                          *)

\* Everything but these needs the vault to be open.
Anytime == {"get_status", "lock", "unlock", "list_transfers"}

Refused(c) ==
  \/ c.cmd \notin Anytime /\ ~vault.open
  \/ c.cmd = "queue_answer" /\ c.arg.id \notin vault.pending
  \/ c.cmd = "issue_share_token" /\ vault.minted = Secrets

NewSecret == CHOOSE t \in Secrets : t \notin vault.minted

\* What a command answers, and what it leaves in the vault.
Ok(answer, after) == [answer |-> answer, vault |-> after]

SessionCommand(c) ==
  CASE c.cmd = "get_status" -> Ok(IF vault.open THEN "open" ELSE "locked", vault)
    [] c.cmd = "lock" -> Ok(Null, [vault EXCEPT !.open = FALSE])
    [] c.cmd = "unlock" -> Ok(Null, [vault EXCEPT !.open = TRUE])

\* A key that was not typed stays; the key itself is never read back.
ConfigCommand(c) ==
  CASE c.cmd = "load_settings" -> Ok([config |-> vault.config, transfers |-> vault.sent], vault)
    [] c.cmd = "get_config" -> Ok(vault.config, vault)
    [] c.cmd = "list_transfers" -> Ok(vault.sent, vault)
    [] c.cmd = "set_transfer_policy" -> Ok(Null, [vault EXCEPT !.config.policy = c.arg])
    [] c.cmd = "set_server_enabled" -> Ok(Null, [vault EXCEPT !.config.server = c.arg])

LlmCommand(c) ==
  Ok(Null, [vault EXCEPT !.config.model = c.arg.model,
                         !.config.keys = IF "key" \in c.arg.typed THEN @ + 1 ELSE @])

\* Sharing off takes the tunnel with it.
SharesCommand(c) ==
  CASE c.cmd = "share_status" -> Ok(vault.shares, vault)
    [] c.cmd = "set_sharing_enabled" ->
         Ok(Null, [vault EXCEPT !.shares.enabled = c.arg, !.shares.tunnel = @ /\ c.arg])
    [] c.cmd = "share_tunnel" -> Ok(Null, [vault EXCEPT !.shares.tunnel = c.arg])
    [] c.cmd = "issue_share_token" ->
         Ok(NewSecret, [vault EXCEPT !.minted = @ \cup {NewSecret},
                                     !.shares.live = @ \cup {NewSecret}])
    [] c.cmd = "revoke_share_token" -> Ok(Null, [vault EXCEPT !.shares.live = @ \ {c.arg}])

\* The read views; a page's sharing state is read and set through the wiki inspector.
ViewCommand(c) ==
  CASE c.cmd = "get_dashboard" ->
         Ok([facts |-> vault.facts, pending |-> Cardinality(vault.pending)], vault)
    [] c.cmd = "get_graph" -> Ok(IF c.arg = "all" THEN Facts ELSE CompanyFacts, vault)
    [] c.cmd = "get_fact" -> Ok(vault.sharing[c.arg.fact], vault)
    [] c.cmd = "set_fact_sharing" ->
         Ok(Null, [vault EXCEPT !.sharing[c.arg.fact] = [visibility |-> c.arg.visibility,
                                                         category |-> c.arg.category]])
    [] c.cmd = "persona_chat" -> Ok(Null, vault)

\* A skipped question stays pending, a confirmed one becomes a fact.
QueueCommand(c) ==
  IF c.cmd = "queue_list" THEN Ok(vault.pending, vault)
  ELSE IF c.arg.input = "skip" THEN Ok(Null, vault)
  ELSE Ok(Null, [vault EXCEPT !.pending = @ \ {c.arg.id},
                              !.facts = IF c.arg.input = "yes" THEN @ + 1 ELSE @])

SourceCommand(c) ==
  CASE c.cmd = "list_sources" -> Ok(vault.connected, vault)
    [] c.cmd = "connect_source" -> Ok(Null, [vault EXCEPT !.connected = TRUE])
    [] c.cmd = "disconnect_source" -> Ok(Null, [vault EXCEPT !.connected = FALSE])

HistoryCommand(c) ==
  IF c.cmd = "persona_history_load" THEN Ok(vault.thread, vault)
  ELSE Ok(Null, [vault EXCEPT !.thread = c.arg.thread])

ScopeCommand(c) ==
  IF c.cmd = "get_session_scope" THEN Ok(vault.scope, vault)
  ELSE Ok(Null, [vault EXCEPT !.scope = c.arg.roots])

\* A collection that finds something adds a fact and sends a request to the language model.
IngestCommand == Ok(Null, [vault EXCEPT !.facts = @ + 1, !.sent = @ + 1])

Handled(c) ==
  IF c.cmd = "set_llm_config" THEN LlmCommand(c)
  ELSE IF c.cmd = "trigger_ingest" THEN IngestCommand
  ELSE
  CASE "lock" \in Touches(c) -> SessionCommand(c)
    [] "config" \in Touches(c) \/ "transfers" \in Touches(c) -> ConfigCommand(c)
    [] "shares" \in Touches(c) -> SharesCommand(c)
    [] "queue" \in Touches(c) -> QueueCommand(c)
    [] "sources" \in Touches(c) -> SourceCommand(c)
    [] "thread" \in Touches(c) -> HistoryCommand(c)
    [] "scope" \in Touches(c) -> ScopeCommand(c)
    [] OTHER -> ViewCommand(c)

\* Command i ends; one that nobody awaits leaves nothing behind.
Ended(i, state, answer) ==
  inFlight' = IF inFlight[i].for = "nobody" THEN RemoveAt(inFlight, i)
              ELSE [inFlight EXCEPT ![i].state = state, ![i].answer = answer]

Handle(i) ==
  /\ i \in DOMAIN inFlight /\ inFlight[i].state = "sent" /\ ~Refused(inFlight[i])
  /\ vault' = Handled(inFlight[i]).vault
  /\ Ended(i, "done", Handled(inFlight[i]).answer)
  /\ UNCHANGED <<ui, seen, spent>>

Refuse(i) ==
  /\ i \in DOMAIN inFlight /\ inFlight[i].state = "sent" /\ Refused(inFlight[i])
  /\ Ended(i, "failed", Null)
  /\ UNCHANGED <<ui, vault, seen, spent>>

\* A command of several writes may have taken effect before the step that fails.
Stepwise == {"queue_answer", "set_llm_config", "set_session_scope", "trigger_ingest"}
Fail(i) ==
  /\ i \in DOMAIN inFlight /\ inFlight[i].state = "sent" /\ ~Refused(inFlight[i])
  /\ inFlight[i].cmd \notin {"get_status", "list_transfers", "lock"}
  /\ spent.faults < MaxFaults
  /\ \/ UNCHANGED vault
     \/ inFlight[i].cmd \in Stepwise /\ vault' = Handled(inFlight[i]).vault
  /\ Ended(i, "failed", Null)
  /\ spent' = [spent EXCEPT !.faults = @ + 1]
  /\ UNCHANGED <<ui, seen>>

-----------------------------------------------------------------------------
\* The owner has just unlocked the vault and opened a tab.
ViewsInit ==
  /\ vault = [open |-> TRUE,
              sharing |-> [f \in Facts |-> IF f \in CompanyFacts
                            THEN [visibility |-> "Shared", category |-> "topic"]
                            ELSE [visibility |-> "Private", category |-> "none"]],
              pending |-> Questions, facts |-> Cardinality(Facts),
              thread |-> <<Message("user", "earlier")>>,
              config |-> [policy |-> CHOOSE p \in Policies : TRUE, server |-> FALSE,
                          model |-> CHOOSE m \in LlmModels : TRUE, keys |-> 0],
              shares |-> [enabled |-> TRUE, tunnel |-> FALSE, live |-> {}],
              minted |-> {}, connected |-> TRUE, scope |-> {}, sent |-> 0]
  /\ \E t \in Tabs \ {"transfers"} : ui = Mounted(t) /\ inFlight = HomeAsked(t) \o Asked(t)
  /\ seen = [shown |-> {}, overlapped |-> {}, left |-> FALSE]
  /\ spent = [clicks |-> 0, opens |-> 0, faults |-> 0]

Click ==
  \/ \E t \in Tabs : Open(t)
  \/ Lock \/ Unlock
  \/ RefreshDashboard \/ \E s \in {"all", "Company"} : ChooseScope(s)
  \/ \E f \in Facts : Select(f)
  \/ \E v \in {"Private", "Shared"} : PickVisibility(v)
  \/ \E k \in {"none", "topic"} : PickCategory(k)
  \/ SaveSharing
  \/ RefreshQueue
  \/ \E q \in Questions, input \in {"yes", "no", "skip"} : AnswerQuestion(q, input)
  \/ Send \/ StartNew
  \/ \E p \in Policies : ChoosePolicy(p)
  \/ \E m \in LlmModels : EditModel(m)
  \/ ToggleServer \/ EditKey \/ SaveLlm
  \/ SwitchSharing \/ FillIn \/ IssueToken \/ ToggleTunnel
  \/ \E t \in Secrets : RevokeToken(t)
  \/ Sync \/ Disconnect \/ Connect \/ CloseDialog \/ SaveScope
  \/ \E d \in {ScopeDialog, ConnectDialog} : OpenDialog(d)
  \/ \E p \in Projects : ToggleProject(p)

Answer(i) ==
  \/ LockAnswered(i) \/ UnlockAnswered(i) \/ StatusAnswered(i)
  \/ DashboardAnswered(i) \/ GraphAnswered(i) \/ FactAnswered(i) \/ SharingSaved(i)
  \/ QueueListed(i) \/ QuestionAnswered(i) \/ HistoryLoaded(i) \/ Replied(i)
  \/ SettingsLoaded(i) \/ ConfigChanged(i) \/ ConfigRead(i) \/ TransfersListed(i)
  \/ SharesRead(i) \/ SharesChanged(i) \/ TokenIssued(i)
  \/ SourcesListed(i) \/ SyncEnded(i) \/ Disconnected(i) \/ ConnectAnswered(i)
  \/ ScopeRead(i) \/ ScopeSaved(i)

Backend == \E i \in DOMAIN inFlight : Handle(i) \/ Refuse(i) \/ Fail(i)
Arrival == \E i \in DOMAIN inFlight : Answer(i)

ViewsNext == Click \/ Backend \/ Arrival \/ ToastGone

ViewsSpec == ViewsInit /\ [][ViewsNext]_viewVars

\* Commands that await a language model or Notion, whose HTTP clients have no timeout.
Asking == {"persona_chat", "queue_answer", "trigger_ingest", "connect_source"}

\* Commands that shut a server down gracefully: until its open connections have ended they
\* hold the mutex that the others pass.
Stopping(c) ==
  \/ c.cmd \in {"lock", "unlock", "set_llm_config"}
  \/ c.cmd \in {"set_server_enabled", "set_sharing_enabled"} /\ ~c.arg

Unanswered(c) == \E i \in DOMAIN inFlight : inFlight[i].cmd = c /\ inFlight[i].state = "sent"
MutexHeld == \E i \in DOMAIN inFlight : Stopping(inFlight[i]) /\ inFlight[i].state = "sent"

\* The commands that only read and write the vault, and find the mutex free.
Local ==
  /\ ~MutexHeld
  /\ \E i \in DOMAIN inFlight : inFlight[i].cmd \notin Asking /\ (Handle(i) \/ Refuse(i) \/ Fail(i))

\* A local command ends, and an answer given arrives; a command that waits for a server may
\* never end, and the owner need not click.
FairSpec == ViewsSpec /\ WF_viewVars(Local) /\ WF_viewVars(Arrival)

-----------------------------------------------------------------------------
(* Properties.  What a view shows is promised while the calls on the same  *)
(* resource did not overlap: two reads, or a read and a write sent from a  *)
(* view that was left, may be answered out of order.                       *)

Alone(r) == r \notin seen.overlapped

\* The mounted views and the commands in flight have the shape the handlers rely on.
ViewsTypeOK ==
  /\ ui.tab \in Tabs \cup {"unlock"}
  /\ ui.tab \in SettingsTabs <=> ui.home # NoView
  /\ ui.panel.view = "control" =>
       /\ ui.tab = "dashboard" /\ ui.pane.selected \in Facts
       /\ Shows(ui.panel.fact) => ui.panel.fact.data = ui.pane.selected
  /\ InDialog => ui.tab = "sources"
  /\ ui.pane.view = (IF ui.tab \in {"general", "transfers"} THEN "none" ELSE ui.tab)
  /\ \A i \in DOMAIN inFlight :
       /\ inFlight[i].state \in {"sent", "done", "failed"}
       /\ inFlight[i].for \in {"load", "panel"} => ui.panel # NoView
       /\ inFlight[i].for = "nobody" => inFlight[i].state = "sent" /\ inFlight[i].cmd \notin Reads

\* A save changes only what the owner changed: the visibility or category of a page that were
\* picked on that page, the model or key that were typed, the projects that were ticked.  It
\* never writes back a value that was not read, was read for another page, or is stale
\* (GraphView.tsx setFact(null) and the active flag; HomeView.tsx and the scope dialog).
SentBy(cmd, Fits(_)) == \E i \in DOMAIN inFlight : inFlight[i].cmd = cmd /\ Fits(inFlight[i].arg)
SettingsAreEdited ==
  /\ \A f \in Facts, field \in {"visibility", "category"} :
       Alone(f) /\ vault'.sharing[f][field] # vault.sharing[f][field] =>
         SentBy("set_fact_sharing", LAMBDA arg : arg.fact = f /\ field \in arg.picked)
  /\ Alone("config") /\ vault'.config.model # vault.config.model =>
       SentBy("set_llm_config", LAMBDA arg : "model" \in arg.typed)
  /\ Alone("config") /\ vault'.config.keys # vault.config.keys =>
       SentBy("set_llm_config", LAMBDA arg : "key" \in arg.typed)
  /\ Alone("scope") /\ vault'.scope # vault.scope =>
       SentBy("set_session_scope",
              LAMBDA arg : SymDiff(vault'.scope, vault.scope) \subseteq arg.toggled)

\* The stored conversation only grows, but for a new conversation the owner asked for and a
\* thread that could not be read at first (PersonaChatView.tsx: a save before the load has
\* settled would overwrite the vault with an empty list).
Texts(thread) == [i \in DOMAIN thread |-> [by |-> thread[i].by, text |-> thread[i].text]]
ThreadIsKept ==
  Alone("thread") /\ vault'.thread # vault.thread =>
    \/ IsPrefix(Texts(vault.thread), Texts(vault'.thread))
    \/ SentBy("persona_history_save", LAMBDA arg : arg.fresh /\ arg.thread = vault'.thread)

\* Nothing that is stored changes but as the owner changed it on the screen.
OnlyEditsAreSaved == [][SettingsAreEdited /\ ThreadIsKept]_viewVars

\* A view at rest, with no command in flight and no error shown, shows what the backend holds:
\* the lock screen stands for a locked vault, the dashboard is mounted anew for an answer or a
\* collection that ends after the tab was changed, no answered question is offered again, and
\* the switches, tokens, configuration, transfer log, sources and conversation are those
\* stored.  Views that swallow an error are held to it only if nothing failed.
RestingViewIsTrue ==
  inFlight = <<>> =>
    /\ Alone("lock") => (ui.tab = "unlock" <=> ~vault.open)
    /\ GraphShown /\ Alone("dashboard") /\ spent.faults = 0 =>
         ui.pane.stats.data = [facts |-> vault.facts, pending |-> Cardinality(vault.pending)]
    /\ GraphShown /\ Shows(ui.pane.graph) /\ Alone("graph") =>
         ui.pane.graph.data = IF ui.pane.scope = "all" THEN Facts ELSE CompanyFacts
    /\ ui.tab = "queue" /\ Shows(ui.pane.items) /\ ~ui.pane.error /\ Alone("queue") =>
         ui.pane.items.data \subseteq vault.pending
    /\ ui.tab = "persona" /\ ui.pane.loaded /\ Alone("thread") /\ Alone("lock")
         /\ spent.faults = 0 /\ vault.open =>
         ui.pane.messages = vault.thread
    /\ ui.tab = "sharing" /\ Shows(ui.pane.status) /\ ~ui.pane.error /\ Alone("shares") =>
         ui.pane.status.data = vault.shares
    /\ InSettings /\ Shows(ui.home.config) /\ ~ui.home.error /\ Alone("config") /\ Alone("lock") =>
         ui.home.config.data = vault.config
    /\ ui.tab = "transfers" /\ Alone("transfers") /\ spent.faults = 0 =>
         ui.home.transfers = vault.sent
    /\ ui.tab = "sources" /\ Shows(ui.pane.status) /\ ~ui.pane.error /\ Alone("sources") =>
         ui.pane.status.data = vault.connected

\* "Saved" is shown only for what is stored: the sharing state of the selected page, also when
\* the page was changed while the save was in flight, and the language model of the form
\* (GraphView.tsx SharingControl; HomeView.tsx `llmSaved && !dirty`).
SavedIsStored ==
  /\ /\ ui.panel.view = "control" /\ ui.panel.saved /\ Shows(ui.panel.fact)
     /\ Alone(ui.pane.selected)
     =>
       vault.sharing[ui.pane.selected] =
         [visibility |-> ui.panel.visibility, category |-> ui.panel.category]
  /\ InSettings /\ ui.home.saved /\ ~Dirty(ui.home) /\ Alone("config") =>
       vault.config.model = ui.home.model

\* The secret of every token issued was on the screen, unless the tab was left while it was
\* being issued: it is stored only as a hash and cannot be shown later (SharingSettings.tsx).
MintedIsShown ==
  \/ seen.left
  \/ vault.minted \subseteq seen.shown \cup
       {inFlight[i].answer : i \in {j \in DOMAIN inFlight : inFlight[j].cmd = "issue_share_token"}}

\* Whatever fails, disabled controls are enabled again: no busy flag stays set once nothing is
\* left that it may wait for.  A silent server keeps the question, chat, collection or
\* connection disabled that waits for it, and no other control; only a server that does not
\* shut down holds up the rest.
Disabled ==
  \/ ui.pane.view = "unlock" /\ ui.pane.busy /\ Alone("lock")
  \/ ui.pane.view = "sharing" /\ (ui.pane.busy \/ ui.pane.loading)
  \/ ui.pane.view = "queue" /\ ui.pane.busyId # Null /\ ~Unanswered("queue_answer")
  \/ ui.pane.view = "persona" /\ ui.pane.sending /\ ~Unanswered("persona_chat")
  \/ ui.pane.view = "sources" /\ ui.pane.run = "running" /\ ~Unanswered("trigger_ingest")
  \/ InSettings /\ (ui.home.busy \/ ui.home.loading)
  \/ ui.panel.view = "control" /\ ui.panel.busy
  \/ ui.panel.view = "scope" /\ ui.panel.saving
  \/ ui.panel.view = "connect" /\ ui.panel.saving /\ ~Unanswered("connect_source")
Waiting == Disabled /\ ~MutexHeld
ControlsComeBack == Waiting ~> ~Waiting
=============================================================================
