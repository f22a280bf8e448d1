--------------------------- MODULE ViewsHandlers ---------------------------
(***************************************************************************)
(* The handlers of the settings page, the lock screen, the dashboard and   *)
(* the sharing control, and every view mounted anew: each keeps the        *)
(* invariant of ViewsInvariant, which says how the lemmas are named.       *)
(***************************************************************************)
EXTENDS ViewsInvariant

-----------------------------------------------------------------------------
(* The settings page.                                                      *)

HomeOnly(h) == ui' = View(ui.tab, ui.pane, ui.panel, h)

LEMMA HomeTurn ==
    ASSUME Shape, InSettings, NEW new, NEW out, Turn({}, new, out), NEW h, HomeOnly(h),
           HomeShape(h), \A c \in new : FromPane(c), NEW rs,
           \A c \in new \cup out : Touches(c) \subseteq rs
    PROVE  /\ Shape' /\ AtMostOne' /\ Frame(rs)
           /\ ui'.pane = ui.pane /\ ui'.panel = ui.panel /\ ui'.home = h
<1>1. ui'.tab = ui.tab /\ ui'.pane = ui.pane /\ ui'.panel = ui.panel /\ ui'.home = h
      /\ ui' = View(ui'.tab, ui'.pane, ui'.panel, ui'.home)
  BY DEF HomeOnly, View
<1>2. UiShape /\ ui.tab # "dashboard"
  BY DEF Shape, InSettings, SettingsTabs
<1>3. ui.panel.view # "control"
  <2>1. NoView.view = "none"
    BY DEF NoView
  <2> QED BY <1>2, <2>1 DEF UiShape
<1>4. UiShape'
  BY <1>1, <1>2 DEF UiShape, InSettings
<1>5. MountsStay({}, ui, ui')
  BY <1>1, <1>2, <1>3 DEF MountsStay
<1>6. \A c \in new : Routed(c, ui')
  BY <1>1 DEF Routed, Named, FromPane
<1>7. Shape' /\ AtMostOne'
  BY <1>4, <1>5, <1>6, TurnShape
<1>8. \A r : r \notin rs => On(inFlight', r) = On(inFlight, r)
  <2> SUFFICES ASSUME NEW r, r \notin rs PROVE On(inFlight', r) = On(inFlight, r)
    OBVIOUS
  <2> QED BY Untouched
<1>9. Frame(rs)
  <2>1. \A c \in new : ~Saving(c)
    BY DEF FromPane, Saving
  <2> QED BY <1>1, <1>8, <2>1 DEF Frame, Turn, Traffic, Watched, SavesKept
<1> QED BY <1>1, <1>7, <1>9

HomeStep ==
    \/ \E p \in Policies : ChoosePolicy(p)
    \/ \E m \in LlmModels : EditModel(m)
    \/ ToggleServer \/ EditKey \/ SaveLlm
    \/ \E i \in DOMAIN inFlight : \/ SettingsLoaded(i) \/ ConfigChanged(i) \/ ConfigRead(i)
                                  \/ TransfersListed(i)
                                  \/ SyncEnded(i) /\ inFlight[i].for = "home"

ConfigClicks == {"set_transfer_policy", "set_server_enabled", "set_llm_config"}
\* What the handlers of the page do.
FormSame(h) == h.config = ui.home.config /\ h.model = ui.home.model /\ h.typed = ui.home.typed
RestSame(h) == h.error = ui.home.error /\ h.saved = ui.home.saved
FormSent(h, new, out) ==
    /\ out = {} /\ Shows(ui.home.config) /\ FormSame(h) /\ h.transfers = ui.home.transfers
    /\ h.saved = FALSE \/ h.saved = ui.home.saved
    /\ \E c : /\ new = {c} /\ c.cmd \in ConfigClicks /\ c.for = "home" /\ c.state = "sent"
              /\ c.cmd = "set_llm_config" => /\ c.arg.typed = ui.home.typed /\ h.saved = FALSE
                                             /\ c.arg.model = ui.home.model
FormTyped(h, new, out) ==
    /\ new = {} /\ out = {} /\ h.config = ui.home.config /\ h.transfers = ui.home.transfers
    /\ h.error = ui.home.error /\ h.saved = FALSE
    /\ \/ h.typed = ui.home.typed \cup {"model"}
       \/ h.typed = ui.home.typed \cup {"key"} /\ h.model = ui.home.model
PageRead(h, new, out) ==
    /\ new = {}
    /\ \E i \in DOMAIN inFlight :
          /\ inFlight[i].cmd = "load_settings" /\ out = {inFlight[i]} /\ h.saved = ui.home.saved
          /\ IF inFlight[i].state = "done"
             THEN /\ h.config = Ready(inFlight[i].answer.config) /\ h.typed = {}
                  /\ h.model = inFlight[i].answer.config.model /\ h.error = ui.home.error
             ELSE h.error = TRUE /\ FormSame(h)
FormTold(h, new, out) ==
    /\ FormSame(h) /\ h.transfers = ui.home.transfers /\ h.saved = ui.home.saved
    /\ \E i \in DOMAIN inFlight :
          /\ inFlight[i].cmd \in ConfigClicks /\ inFlight[i].for = "home" /\ out = {inFlight[i]}
          /\ \/ h.error = TRUE /\ new = {}
             \/ \E c : new = {c} /\ c.cmd = "get_config" /\ c.for = "home" /\ c.state = "sent"
FormRead(h, new, out) ==
    /\ new = {} /\ h.transfers = ui.home.transfers
    /\ \E i \in DOMAIN inFlight :
          /\ inFlight[i].cmd = "get_config" /\ out = {inFlight[i]}
          /\ \/ h.error = TRUE /\ FormSame(h) /\ h.saved = ui.home.saved
             \/ /\ inFlight[i].state = "done" /\ h.config = Ready(inFlight[i].answer)
                /\ \/ h.model = inFlight[i].answer.model /\ h.typed = {}
                   \/ /\ h.model = ui.home.model /\ h.typed = ui.home.typed
                      /\ h.saved = ui.home.saved
LogRead(h, new, out) ==
    /\ new = {} /\ FormSame(h) /\ RestSame(h)
    /\ \E i \in DOMAIN inFlight :
          /\ inFlight[i].cmd = "list_transfers" /\ out = {inFlight[i]}
          /\ inFlight[i].state # "sent"
          /\ inFlight[i].state = "done" => h.transfers = inFlight[i].answer
SyncTold(h, new, out) ==
    /\ h = ui.home /\ (new = {} \/ new = {TransfersRead})
    /\ \E i \in DOMAIN inFlight : inFlight[i].cmd = "trigger_ingest" /\ out = {inFlight[i]}
HomeMove(h, new, out) ==
    /\ InSettings /\ HomeOnly(h) /\ HomeShape(h) /\ Turn({}, new, out)
    /\ \/ FormSent(h, new, out) \/ FormTyped(h, new, out) \/ PageRead(h, new, out)
       \/ FormTold(h, new, out) \/ FormRead(h, new, out) \/ LogRead(h, new, out)
       \/ SyncTold(h, new, out)
HomeMoves == \E h, new, out : HomeMove(h, new, out)

LEMMA InHomeOnly ==
    ASSUME Shape, NEW h, ui' = InHome(h)
    PROVE  HomeOnly(h)
<1>1. PICK tab, pane, panel, home : ui = View(tab, pane, panel, home)
  BY DEF Shape, UiShape
<1> QED BY <1>1 DEF HomeOnly, View, InHome

LEMMA HomeIdleFacts ==
    ASSUME HomeIdle
    PROVE  InSettings /\ ui.tab \in SettingsTabs /\ Shows(ui.home.config)
<1> QED BY DEF HomeIdle, InSettings, SettingsTabs

LEMMA SwitchMove ==
    ASSUME Shape, AtMostOne, HomeIdle, NEW cmd \in ConfigClicks, cmd # "set_llm_config", NEW arg,
           Clicked(InHome([ui.home EXCEPT !.busy = TRUE, !.error = FALSE]), {},
                   <<Cmd(cmd, arg, "home")>>)
    PROVE  HomeMoves
<1>1. PICK tab, pane, panel, cfg, model, typed, loading, busy, error, sav, transfers :
         ui = View(tab, pane, panel,
                   HomeView(cfg, model, typed, loading, busy, error, sav, transfers))
  BY HomeIdleFacts, HomeUi
<1>2. PICK h : h = [ui.home EXCEPT !.busy = TRUE, !.error = FALSE]
  OBVIOUS
<1>3. HomeShape(h) /\ FormSame(h) /\ h.transfers = ui.home.transfers /\ h.saved = ui.home.saved
  <2>1. h = HomeView(cfg, model, typed, loading, TRUE, FALSE, sav, transfers)
    BY <1>1, <1>2 DEF View, HomeView
  <2> QED BY <1>1, <2>1 DEF View, HomeView, HomeShape, FormSame
<1>4. PICK c : c = Cmd(cmd, arg, "home")
  OBVIOUS
<1>5. c.cmd = cmd /\ c.for = "home" /\ c.state = "sent"
  BY <1>4, CmdFacts
<1>6. Turn({}, {c}, {}) /\ ui' = InHome(h)
  BY <1>2, <1>4, ClickOne
<1>7. FormSent(h, {c}, {})
  BY <1>3, <1>5, HomeIdleFacts DEF FormSent
<1> QED BY <1>3, <1>6, <1>7, HomeIdleFacts, InHomeOnly DEF HomeMoves, HomeMove

LEMMA ChoosePolicyMove ==
    ASSUME Shape, AtMostOne, NEW p, ChoosePolicy(p)
    PROVE  HomeMoves
<1> QED BY SwitchMove DEF ChoosePolicy, ConfigClicks

LEMMA ToggleServerMove ==
    ASSUME Shape, AtMostOne, ToggleServer
    PROVE  HomeMoves
<1> PICK on : on = ~ui.home.config.data.server
  OBVIOUS
<1> QED BY SwitchMove DEF ToggleServer, ConfigClicks

LEMMA SaveLlmMove ==
    ASSUME Shape, AtMostOne, SaveLlm
    PROVE  HomeMoves
<1> PICK arg : arg = [model |-> ui.home.model, typed |-> ui.home.typed]
  OBVIOUS
<1>1. PICK h : h = [ui.home EXCEPT !.busy = TRUE, !.error = FALSE, !.saved = FALSE]
  OBVIOUS
<1>2. HomeIdle /\ Clicked(InHome(h), {}, <<Cmd("set_llm_config", arg, "home")>>)
  BY <1>1 DEF SaveLlm
<1>3. PICK tab, pane, panel, cfg, model, typed, loading, busy, error, sav, transfers :
         ui = View(tab, pane, panel,
                   HomeView(cfg, model, typed, loading, busy, error, sav, transfers))
  BY <1>2, HomeIdleFacts, HomeUi
<1>4. HomeShape(h) /\ FormSame(h) /\ h.transfers = ui.home.transfers /\ h.saved = FALSE
  <2>1. h = HomeView(cfg, model, typed, loading, TRUE, FALSE, FALSE, transfers)
    BY <1>1, <1>3 DEF View, HomeView
  <2> QED BY <1>3, <2>1 DEF View, HomeView, HomeShape, FormSame
<1>5. PICK c : c = Cmd("set_llm_config", arg, "home")
  OBVIOUS
<1>6. /\ c.cmd = "set_llm_config" /\ c.for = "home" /\ c.state = "sent"
      /\ c.arg.model = ui.home.model /\ c.arg.typed = ui.home.typed
  BY <1>5, CmdFacts
<1>7. Turn({}, {c}, {}) /\ ui' = InHome(h)
  BY <1>2, <1>5, ClickOne
<1>8. FormSent(h, {c}, {})
  BY <1>2, <1>4, <1>6, HomeIdleFacts DEF FormSent, ConfigClicks
<1> QED BY <1>2, <1>4, <1>7, <1>8, HomeIdleFacts, InHomeOnly DEF HomeMoves, HomeMove

LEMMA EditModelMove ==
    ASSUME Shape, AtMostOne, NEW m, EditModel(m)
    PROVE  HomeMoves
<1>1. PICK h : h = [ui.home EXCEPT !.model = m, !.typed = @ \cup {"model"}, !.saved = FALSE]
  OBVIOUS
<1>2. HomeIdle /\ Clicked(InHome(h), {}, <<>>)
  BY <1>1 DEF EditModel
<1>3. PICK tab, pane, panel, cfg, model, typed, loading, busy, error, sav, transfers :
         ui = View(tab, pane, panel,
                   HomeView(cfg, model, typed, loading, busy, error, sav, transfers))
  BY <1>2, HomeIdleFacts, HomeUi
<1>4. PICK more : more = typed \cup {"model"}
  OBVIOUS
<1>5. h = HomeView(cfg, m, more, loading, busy, error, FALSE, transfers)
  <2>1. h = [ui.home EXCEPT !.model = m, !.typed = more, !.saved = FALSE]
    BY <1>1, <1>3, <1>4 DEF View, HomeView
  <2> QED BY <1>3, <2>1 DEF View, HomeView
<1>6. Turn({}, {}, {}) /\ ui' = InHome(h)
  BY <1>2, ClickNone
<1>7. HomeShape(h) /\ FormTyped(h, {}, {})
  BY <1>3, <1>4, <1>5 DEF View, HomeView, HomeShape, FormTyped
<1> QED BY <1>2, <1>6, <1>7, HomeIdleFacts, InHomeOnly DEF HomeMoves, HomeMove

LEMMA EditKeyMove ==
    ASSUME Shape, AtMostOne, EditKey
    PROVE  HomeMoves
<1>1. PICK h : h = [ui.home EXCEPT !.typed = @ \cup {"key"}, !.saved = FALSE]
  OBVIOUS
<1>2. HomeIdle /\ Clicked(InHome(h), {}, <<>>)
  BY <1>1 DEF EditKey
<1>3. PICK tab, pane, panel, cfg, model, typed, loading, busy, error, sav, transfers :
         ui = View(tab, pane, panel,
                   HomeView(cfg, model, typed, loading, busy, error, sav, transfers))
  BY <1>2, HomeIdleFacts, HomeUi
<1>4. PICK more : more = typed \cup {"key"}
  OBVIOUS
<1>5. h = HomeView(cfg, model, more, loading, busy, error, FALSE, transfers)
  <2>1. h = [ui.home EXCEPT !.typed = more, !.saved = FALSE]
    BY <1>1, <1>3, <1>4 DEF View, HomeView
  <2> QED BY <1>3, <2>1 DEF View, HomeView
<1>6. Turn({}, {}, {}) /\ ui' = InHome(h)
  BY <1>2, ClickNone
<1>7. HomeShape(h) /\ FormTyped(h, {}, {})
  BY <1>3, <1>4, <1>5 DEF View, HomeView, HomeShape, FormTyped
<1> QED BY <1>2, <1>6, <1>7, HomeIdleFacts, InHomeOnly DEF HomeMoves, HomeMove

LEMMA SettingsLoadedMove ==
    ASSUME Shape, AtMostOne, NEW i, SettingsLoaded(i)
    PROVE  HomeMoves
<1>1. i \in DOMAIN inFlight /\ inFlight[i].cmd = "load_settings"
  BY DEF SettingsLoaded, Answers
<1>2. ui.tab \in SettingsTabs
  BY <1>1, CallFacts, RoutedFacts
<1>3. PICK tab, pane, panel, cfg, model, typed, loading, busy, error, sav, transfers :
         ui = View(tab, pane, panel,
                   HomeView(cfg, model, typed, loading, busy, error, sav, transfers))
  BY <1>2, HomeUi
<1>4. PICK read : read = inFlight[i].answer
  OBVIOUS
<1>5. PICK h : /\ h = IF Done(i)
                      THEN [Synced(ui.home, read.config) EXCEPT !.transfers = read.transfers,
                                                                !.loading = FALSE]
                      ELSE [ui.home EXCEPT !.error = TRUE, !.loading = FALSE]
               /\ Answered(i, InHome(h), {}, <<>>)
  BY <1>4 DEF SettingsLoaded
<1>6. Turn({}, {}, {inFlight[i]}) /\ ui' = InHome(h)
  BY <1>1, <1>5, AnswerNone
<1>7. HomeShape(h) /\ PageRead(h, {}, {inFlight[i]})
  <2>1. CASE Done(i)
    <3>1. PICK shown : shown = Ready(read.config)
      OBVIOUS
    <3>2. PICK first : first = read.config.model
      OBVIOUS
    <3>3. PICK log : log = read.transfers
      OBVIOUS
    <3>4. PICK s : s = Synced(ui.home, read.config)
      OBVIOUS
    <3>5. s = HomeView(shown, first, {}, loading, busy, error, sav, transfers)
      <4>1. s = [ui.home EXCEPT !.config = shown, !.model = first, !.typed = {}]
        BY <3>1, <3>2, <3>4 DEF Synced
      <4> QED BY <1>3, <4>1 DEF View, HomeView
    <3>6. h = HomeView(shown, first, {}, FALSE, busy, error, sav, log)
      <4>1. h = [s EXCEPT !.transfers = log, !.loading = FALSE]
        BY <1>5, <2>1, <3>3, <3>4
      <4> QED BY <3>5, <4>1 DEF HomeView
    <3>7. HomeShape(h) /\ h.config = shown /\ h.typed = {} /\ h.model = first
          /\ h.error = ui.home.error /\ h.saved = ui.home.saved
      BY <1>3, <3>6 DEF View, HomeView, HomeShape
    <3>8. inFlight[i].state = "done"
      BY <2>1 DEF Done
    <3> QED BY <1>1, <1>4, <3>1, <3>2, <3>7, <3>8 DEF PageRead
  <2>2. CASE ~Done(i)
    <3>1. h = [ui.home EXCEPT !.error = TRUE, !.loading = FALSE]
      BY <1>5, <2>2
    <3>2. h = HomeView(cfg, model, typed, FALSE, busy, TRUE, sav, transfers)
      BY <1>3, <3>1 DEF View, HomeView
    <3>3. HomeShape(h) /\ FormSame(h) /\ h.saved = ui.home.saved /\ h.error = TRUE
      BY <1>3, <3>2 DEF View, HomeView, HomeShape, FormSame
    <3>4. inFlight[i].state # "done"
      BY <2>2 DEF Done
    <3> QED BY <1>1, <3>3, <3>4 DEF PageRead
  <2> QED BY <2>1, <2>2
<1>8. InSettings
  BY <1>2 DEF InSettings
<1> QED BY <1>6, <1>7, <1>8, InHomeOnly DEF HomeMoves, HomeMove

LEMMA ConfigChangedMove ==
    ASSUME Shape, AtMostOne, NEW i, ConfigChanged(i)
    PROVE  HomeMoves
<1>1. i \in DOMAIN inFlight /\ inFlight[i].cmd \in ConfigClicks /\ inFlight[i].state # "sent"
  BY DEF ConfigChanged, Answers, ConfigClicks
<1>2. ui.tab \in SettingsTabs /\ inFlight[i].for = "home"
  BY <1>1, CallFacts, RoutedFacts DEF ConfigClicks
<1>3. PICK tab, pane, panel, cfg, model, typed, loading, busy, error, sav, transfers :
         ui = View(tab, pane, panel,
                   HomeView(cfg, model, typed, loading, busy, error, sav, transfers))
  BY <1>2, HomeUi
<1>4. InSettings
  BY <1>2 DEF InSettings
<1>5. CASE Done(i)
  <2>1. PICK arg : arg = inFlight[i].cmd
    OBVIOUS
  <2>2. PICK c : c = Cmd("get_config", arg, "home")
    OBVIOUS
  <2>3. Answered(i, ui, {}, <<Cmd("get_config", arg, "home")>>)
    BY <1>5, <2>1 DEF ConfigChanged
  <2>4. Turn({}, {c}, {inFlight[i]}) /\ ui' = ui
    BY <1>1, <2>2, <2>3, AnswerOne
  <2>5. c.cmd = "get_config" /\ c.for = "home" /\ c.state = "sent"
    BY <2>2, CmdFacts
  <2>6. HomeOnly(ui.home) /\ HomeShape(ui.home)
    BY <1>3, <2>4 DEF HomeOnly, View, HomeView, HomeShape
  <2>7. FormTold(ui.home, {c}, {inFlight[i]})
    BY <1>1, <1>2, <2>5 DEF FormTold, FormSame
  <2> QED BY <1>4, <2>4, <2>6, <2>7 DEF HomeMoves, HomeMove
<1>6. CASE ~Done(i)
  <2>1. PICK h : h = [ui.home EXCEPT !.busy = FALSE, !.error = TRUE]
    OBVIOUS
  <2>2. Answered(i, InHome(h), {}, <<>>)
    BY <1>6, <2>1 DEF ConfigChanged
  <2>3. Turn({}, {}, {inFlight[i]}) /\ ui' = InHome(h)
    BY <1>1, <2>2, AnswerNone
  <2>4. h = HomeView(cfg, model, typed, loading, FALSE, TRUE, sav, transfers)
    BY <1>3, <2>1 DEF View, HomeView
  <2>5. HomeShape(h) /\ FormTold(h, {}, {inFlight[i]})
    BY <1>1, <1>2, <1>3, <2>4 DEF View, HomeView, HomeShape, FormTold, FormSame
  <2> QED BY <1>4, <2>3, <2>5, InHomeOnly DEF HomeMoves, HomeMove
<1> QED BY <1>5, <1>6

LEMMA ConfigReadMove ==
    ASSUME Shape, AtMostOne, NEW i, ConfigRead(i)
    PROVE  HomeMoves
<1>1. i \in DOMAIN inFlight /\ inFlight[i].cmd = "get_config"
  BY DEF ConfigRead, Answers
<1>2. ui.tab \in SettingsTabs
  BY <1>1, CallFacts, RoutedFacts
<1>3. PICK tab, pane, panel, cfg, model, typed, loading, busy, error, sav, transfers :
         ui = View(tab, pane, panel,
                   HomeView(cfg, model, typed, loading, busy, error, sav, transfers))
  BY <1>2, HomeUi
<1>4. PICK read, idle : read = inFlight[i].answer /\ idle = [ui.home EXCEPT !.busy = FALSE]
  OBVIOUS
<1>5. PICK h : /\ h = IF ~Done(i) THEN [idle EXCEPT !.error = TRUE]
                      ELSE IF inFlight[i].arg = "set_llm_config"
                      THEN [Synced(idle, read) EXCEPT !.saved = TRUE]
                      ELSE [idle EXCEPT !.config = Ready(read)]
               /\ Answered(i, InHome(h), {}, <<>>)
  BY <1>4 DEF ConfigRead
<1>6. Turn({}, {}, {inFlight[i]}) /\ ui' = InHome(h)
  BY <1>1, <1>5, AnswerNone
<1>7. idle = HomeView(cfg, model, typed, loading, FALSE, error, sav, transfers)
  BY <1>3, <1>4 DEF View, HomeView
<1>8. HomeShape(h) /\ FormRead(h, {}, {inFlight[i]})
  <2>1. CASE ~Done(i)
    <3>1. h = [idle EXCEPT !.error = TRUE]
      BY <1>5, <2>1
    <3>2. h = HomeView(cfg, model, typed, loading, FALSE, TRUE, sav, transfers)
      BY <1>7, <3>1 DEF HomeView
    <3> QED BY <1>1, <1>3, <3>2 DEF View, HomeView, HomeShape, FormSame, FormRead
  <2> PICK shown, first : shown = Ready(read) /\ first = read.model
    OBVIOUS
  <2>2. CASE Done(i) /\ inFlight[i].arg = "set_llm_config"
    <3>1. PICK s : s = Synced(idle, read)
      OBVIOUS
    <3>2. s = HomeView(shown, first, {}, loading, FALSE, error, sav, transfers)
      <4>1. s = [idle EXCEPT !.config = shown, !.model = first, !.typed = {}]
        BY <3>1 DEF Synced
      <4> QED BY <1>7, <4>1 DEF HomeView
    <3>3. h = HomeView(shown, first, {}, loading, FALSE, error, TRUE, transfers)
      <4>1. h = [s EXCEPT !.saved = TRUE]
        BY <1>5, <2>2, <3>1
      <4> QED BY <3>2, <4>1 DEF HomeView
    <3>4. HomeShape(h) /\ h.config = shown /\ h.model = first /\ h.typed = {}
          /\ h.transfers = ui.home.transfers
      BY <1>3, <3>3 DEF View, HomeView, HomeShape
    <3>5. inFlight[i].state = "done"
      BY <2>2 DEF Done
    <3> QED BY <1>1, <1>4, <3>4, <3>5 DEF FormRead
  <2>3. CASE Done(i) /\ inFlight[i].arg # "set_llm_config"
    <3>1. h = [idle EXCEPT !.config = shown]
      BY <1>5, <2>3
    <3>2. h = HomeView(shown, model, typed, loading, FALSE, error, sav, transfers)
      BY <1>7, <3>1 DEF HomeView
    <3>3. HomeShape(h) /\ h.config = shown /\ h.model = ui.home.model /\ h.typed = ui.home.typed
          /\ h.saved = ui.home.saved /\ h.transfers = ui.home.transfers
      BY <1>3, <3>2 DEF View, HomeView, HomeShape
    <3>4. inFlight[i].state = "done"
      BY <2>3 DEF Done
    <3> QED BY <1>1, <1>4, <3>3, <3>4 DEF FormRead
  <2> QED BY <2>1, <2>2, <2>3
<1>9. InSettings
  BY <1>2 DEF InSettings
<1> QED BY <1>6, <1>8, <1>9, InHomeOnly DEF HomeMoves, HomeMove

LEMMA TransfersListedMove ==
    ASSUME Shape, AtMostOne, NEW i, TransfersListed(i)
    PROVE  HomeMoves
<1>1. i \in DOMAIN inFlight /\ inFlight[i].cmd = "list_transfers" /\ inFlight[i].state # "sent"
  BY DEF TransfersListed, Answers
<1>2. ui.tab \in SettingsTabs
  BY <1>1, CallFacts, RoutedFacts
<1>3. PICK tab, pane, panel, cfg, model, typed, loading, busy, error, sav, transfers :
         ui = View(tab, pane, panel,
                   HomeView(cfg, model, typed, loading, busy, error, sav, transfers))
  BY <1>2, HomeUi
<1>4. PICK log : log = IF Done(i) THEN inFlight[i].answer ELSE transfers
  OBVIOUS
<1>5. PICK h : h = [ui.home EXCEPT !.transfers = IF Done(i) THEN inFlight[i].answer ELSE @]
  OBVIOUS
<1>6. Turn({}, {}, {inFlight[i]}) /\ ui' = InHome(h)
  BY <1>1, <1>5, AnswerNone DEF TransfersListed
<1>7. h = HomeView(cfg, model, typed, loading, busy, error, sav, log)
  <2>1. h = [ui.home EXCEPT !.transfers = log]
    BY <1>3, <1>4, <1>5 DEF View, HomeView
  <2> QED BY <1>3, <2>1 DEF View, HomeView
<1>8. HomeShape(h) /\ FormSame(h) /\ RestSame(h) /\ h.transfers = log
  BY <1>3, <1>7 DEF View, HomeView, HomeShape, FormSame, RestSame
<1>9. LogRead(h, {}, {inFlight[i]})
  BY <1>1, <1>4, <1>8 DEF LogRead, Done
<1>10. InSettings
  BY <1>2 DEF InSettings
<1> QED BY <1>6, <1>8, <1>9, <1>10, InHomeOnly DEF HomeMoves, HomeMove

LEMMA SyncEndedHomeMove ==
    ASSUME Shape, AtMostOne, NEW i, SyncEnded(i), inFlight[i].for = "home"
    PROVE  HomeMoves
<1>1. i \in DOMAIN inFlight /\ inFlight[i].cmd = "trigger_ingest"
  BY DEF SyncEnded, Answers
<1>2. ui.tab \in SettingsTabs
  BY <1>1, CallFacts, RoutedFacts
<1>3. PICK sent : /\ sent = IF Done(i) THEN <<TransfersRead>> ELSE <<>>
                  /\ Answered(i, ui, {}, sent)
  BY DEF SyncEnded, Asked, TransfersRead
<1>4. PICK new : (new = {} \/ new = {TransfersRead}) /\ Turn({}, new, {inFlight[i]}) /\ ui' = ui
  <2>1. CASE Done(i)
    <3>1. Answered(i, ui, {}, <<TransfersRead>>)
      BY <1>3, <2>1
    <3> QED BY <1>1, <3>1, AnswerOne DEF TransfersRead
  <2>2. CASE ~Done(i)
    <3>1. Answered(i, ui, {}, <<>>)
      BY <1>3, <2>2
    <3> QED BY <1>1, <3>1, AnswerNone
  <2> QED BY <2>1, <2>2
<1>5. HomeShape(ui.home) /\ HomeOnly(ui.home) /\ InSettings
  BY <1>2, <1>4 DEF Shape, UiShape, HomeOnly, InSettings
<1>6. SyncTold(ui.home, new, {inFlight[i]})
  BY <1>1, <1>4 DEF SyncTold
<1> QED BY <1>4, <1>5, <1>6 DEF HomeMoves, HomeMove

LEMMA HomeStepMoves ==
    ASSUME Shape, AtMostOne, HomeStep
    PROVE  HomeMoves
<1> QED BY ChoosePolicyMove, EditModelMove, ToggleServerMove, EditKeyMove, SaveLlmMove,
           SettingsLoadedMove, ConfigChangedMove, ConfigReadMove, TransfersListedMove,
           SyncEndedHomeMove DEF HomeStep

HomeRs == {"config", "transfers", "queue"}

LEMMA HomeMoved ==
    ASSUME Shape, AtMostOne, NEW h, NEW new, NEW out, HomeMove(h, new, out)
    PROVE  /\ Shape' /\ AtMostOne' /\ Frame(HomeRs)
           /\ ui'.pane = ui.pane /\ ui'.panel = ui.panel /\ ui'.home = h
           /\ out \subseteq All(inFlight)
<1>1. InSettings /\ HomeOnly(h) /\ HomeShape(h) /\ Turn({}, new, out) /\ ui.tab \in SettingsTabs
  BY DEF HomeMove, InSettings
<1>2. \A c \in new :
        /\ c.for = "home"
        /\ c.cmd \in ConfigClicks \cup {"get_config", "list_transfers"}
  <2>1. TransfersRead.cmd = "list_transfers" /\ TransfersRead.for = "home"
    BY CmdFacts DEF TransfersRead
  <2> QED BY <2>1 DEF HomeMove, FormSent, FormTyped, PageRead, FormTold, FormRead, LogRead,
                      SyncTold, ConfigClicks
<1>3. \A d \in out :
        /\ d \in All(inFlight)
        /\ d.cmd \in ConfigClicks \cup {"load_settings", "get_config", "list_transfers",
                                        "trigger_ingest"}
  BY DEF HomeMove, FormSent, FormTyped, PageRead, FormTold, FormRead, LogRead, SyncTold, All
<1>4. \A c \in new : FromPane(c)
  BY <1>1, <1>2 DEF FromPane, Awaiters, ConfigClicks, SharesCmds
<1>5. \A c \in new \cup out : Touches(c) \subseteq HomeRs
  BY <1>2, <1>3, TouchesFacts DEF HomeRs, ConfigClicks
<1>6. PICK rs : rs = HomeRs
  OBVIOUS
<1>7. /\ Shape' /\ AtMostOne' /\ Frame(rs)
      /\ ui'.pane = ui.pane /\ ui'.panel = ui.panel /\ ui'.home = h
  BY <1>1, <1>4, <1>5, <1>6, HomeTurn
<1> QED BY <1>3, <1>6, <1>7

\* What is in flight on the configuration after a handler of the page.
LEMMA ConfigCalls ==
    ASSUME Shape, AtMostOne, NEW h, NEW new, NEW out, HomeMove(h, new, out), Alone("config")'
    PROVE  /\ Alone("config")
           /\ FormSent(h, new, out) \/ PageRead(h, new, out) \/ FormTold(h, new, out)
              \/ FormRead(h, new, out) => On(inFlight', "config") = new
           /\ FormTyped(h, new, out) \/ LogRead(h, new, out) \/ SyncTold(h, new, out) =>
                On(inFlight', "config") = On(inFlight, "config")
<1>1. Turn({}, new, out) /\ "config" \notin seen'.overlapped
  BY DEF HomeMove, Alone
<1>2. Alone("config")
  BY <1>1, OnlyGrows
<1>3. ASSUME \/ FormSent(h, new, out) \/ PageRead(h, new, out) \/ FormTold(h, new, out)
             \/ FormRead(h, new, out)
      PROVE  On(inFlight', "config") = new
  <2>1. \A c \in new : "config" \in Touches(c)
    BY <1>3, TouchesFacts DEF FormSent, PageRead, FormTold, FormRead, ConfigClicks
  <2>2. \E c \in new \cup out : "config" \in Touches(c)
    BY <1>3, TouchesFacts DEF FormSent, PageRead, FormTold, FormRead, ConfigClicks
  <2>3. On(inFlight', "config") = {c \in new : "config" \in Touches(c)}
    BY <1>1, <2>2, TouchedNew
  <2> QED BY <2>1, <2>3
<1>4. ASSUME FormTyped(h, new, out) \/ LogRead(h, new, out) \/ SyncTold(h, new, out)
      PROVE  On(inFlight', "config") = On(inFlight, "config")
  <2>1. TransfersRead.cmd = "list_transfers"
    BY CmdFacts DEF TransfersRead
  <2>2. \A c \in new \cup out : c.cmd \in {"list_transfers", "trigger_ingest"}
    BY <1>4, <2>1 DEF FormTyped, LogRead, SyncTold
  <2>3. \A c \in new \cup out : "config" \notin Touches(c)
    BY <2>2, TouchesFacts
  <2> QED BY <1>1, <2>3, Untouched
<1> QED BY <1>2, <1>3, <1>4

LEMMA ConfigOwn ==
    ASSUME Shape, AtMostOne, ConfigInv, NEW h, NEW new, NEW out, HomeMove(h, new, out)
    PROVE  ConfigInv'
<1> SUFFICES ASSUME Alone("config")' PROVE ConfigInv'
  BY DEF ConfigInv
<1>1. /\ Alone("config") /\ vault' = vault /\ ui'.home = h /\ InSettings /\ InSettings'
      /\ out \subseteq All(inFlight)
  BY ConfigCalls, HomeMoved DEF HomeMove, Frame, InSettings
<1>2. PICK C : C = On(inFlight', "config")
  OBVIOUS
<1> DEFINE Promised ==
      /\ \A c \in C :
           /\ c.cmd = "load_settings" /\ c.state = "done" => c.answer.config = vault.config
           /\ c.cmd = "get_config" /\ c.state = "done" => c.answer = vault.config
           /\ c.cmd = "set_llm_config" /\ "model" \notin c.arg.typed =>
                c.arg.model = vault.config.model
           /\ c.for = "home"
           /\ c.cmd # "load_settings" => Shows(h.config)
           /\ c.cmd = "set_llm_config" => c.arg.typed \subseteq h.typed /\ ~h.saved
      /\ "model" \notin h.typed /\ Shows(h.config) => h.model = vault.config.model
      /\ h.saved => Shows(h.config) /\ h.config.data.model = vault.config.model
<1>3. Promised => ConfigInv'
  BY <1>1, <1>2 DEF ConfigInv
<1>4. /\ \A c \in On(inFlight, "config") :
           /\ c.cmd = "load_settings" /\ c.state = "done" => c.answer.config = vault.config
           /\ c.cmd = "get_config" /\ c.state = "done" => c.answer = vault.config
           /\ c.cmd = "set_llm_config" /\ "model" \notin c.arg.typed =>
                c.arg.model = vault.config.model
           /\ c.for = "home"
           /\ c.cmd # "load_settings" => Shows(ui.home.config)
           /\ c.cmd = "set_llm_config" => c.arg.typed \subseteq ui.home.typed /\ ~ui.home.saved
      /\ "model" \notin ui.home.typed /\ Shows(ui.home.config) =>
           ui.home.model = vault.config.model
      /\ ui.home.saved => Shows(ui.home.config) /\ ui.home.config.data.model = vault.config.model
  BY <1>1 DEF ConfigInv
<1>5. CASE FormSent(h, new, out)
  <2>1. C = new
    BY <1>2, <1>5, ConfigCalls
  <2>2. PICK c : /\ new = {c} /\ c.cmd \in ConfigClicks /\ c.for = "home" /\ c.state = "sent"
                 /\ c.cmd = "set_llm_config" => /\ c.arg.typed = ui.home.typed /\ h.saved = FALSE
                                                /\ c.arg.model = ui.home.model
    BY <1>5 DEF FormSent
  <2>3. /\ Shows(ui.home.config) /\ h.config = ui.home.config /\ h.model = ui.home.model
        /\ h.typed = ui.home.typed /\ (h.saved = FALSE \/ h.saved = ui.home.saved)
    BY <1>5 DEF FormSent, FormSame
  <2>4. c.cmd # "load_settings" /\ c.cmd # "get_config"
    BY <2>2 DEF ConfigClicks
  <2>5. Promised
    BY <1>4, <2>1, <2>2, <2>3, <2>4
  <2> QED BY <1>3, <2>5
<1>6. CASE FormTyped(h, new, out)
  <2>1. C = On(inFlight, "config")
    BY <1>2, <1>6, ConfigCalls
  <2>2. Promised
    BY <1>4, <1>6, <2>1 DEF FormTyped
  <2> QED BY <1>3, <2>2
<1>7. CASE PageRead(h, new, out)
  <2>1. C = {}
    BY <1>2, <1>7, ConfigCalls DEF PageRead
  <2>2. PICK i \in DOMAIN inFlight :
          /\ inFlight[i].cmd = "load_settings" /\ out = {inFlight[i]} /\ h.saved = ui.home.saved
          /\ IF inFlight[i].state = "done"
             THEN /\ h.config = Ready(inFlight[i].answer.config) /\ h.typed = {}
                  /\ h.model = inFlight[i].answer.config.model /\ h.error = ui.home.error
             ELSE h.error = TRUE /\ FormSame(h)
    BY <1>7 DEF PageRead
  <2>3. inFlight[i] \in On(inFlight, "config")
    BY <1>1, <2>2, TouchesFacts DEF On
  <2>4. CASE inFlight[i].state = "done"
    <3>1. inFlight[i].answer.config = vault.config
      BY <1>4, <2>2, <2>3, <2>4
    <3>2. Shows(h.config) /\ h.config.data = vault.config /\ h.model = vault.config.model
      BY <2>2, <2>4, <3>1, StateFacts
    <3> QED BY <1>3, <2>1, <3>2
  <2>5. CASE inFlight[i].state # "done"
    <3>1. h.config = ui.home.config /\ h.model = ui.home.model /\ h.typed = ui.home.typed
      BY <2>2, <2>5 DEF FormSame
    <3> QED BY <1>3, <1>4, <2>1, <2>2, <3>1
  <2> QED BY <2>4, <2>5
<1>8. CASE FormTold(h, new, out)
  <2>1. C = new
    BY <1>2, <1>8, ConfigCalls
  <2>2. PICK i \in DOMAIN inFlight :
          /\ inFlight[i].cmd \in ConfigClicks /\ inFlight[i].for = "home" /\ out = {inFlight[i]}
          /\ \/ h.error = TRUE /\ new = {}
             \/ \E c : new = {c} /\ c.cmd = "get_config" /\ c.for = "home" /\ c.state = "sent"
    BY <1>8 DEF FormTold
  <2>3. /\ h.config = ui.home.config /\ h.model = ui.home.model
        /\ h.typed = ui.home.typed /\ h.saved = ui.home.saved
    BY <1>8 DEF FormTold, FormSame
  <2>4. inFlight[i] \in On(inFlight, "config") /\ inFlight[i].cmd # "load_settings"
    BY <1>1, <2>2, TouchesFacts DEF On, ConfigClicks
  <2>5. Shows(h.config)
    BY <1>4, <2>3, <2>4
  <2>6. \A c \in C : c.cmd = "get_config" /\ c.for = "home" /\ c.state = "sent"
    BY <2>1, <2>2
  <2>7. Promised
    BY <1>4, <2>3, <2>5, <2>6
  <2> QED BY <1>3, <2>7
<1>9. CASE FormRead(h, new, out)
  <2>1. C = {}
    BY <1>2, <1>9, ConfigCalls DEF FormRead
  <2>2. PICK i \in DOMAIN inFlight :
          /\ inFlight[i].cmd = "get_config" /\ out = {inFlight[i]}
          /\ \/ h.error = TRUE /\ FormSame(h) /\ h.saved = ui.home.saved
             \/ /\ inFlight[i].state = "done" /\ h.config = Ready(inFlight[i].answer)
                /\ \/ h.model = inFlight[i].answer.model /\ h.typed = {}
                   \/ /\ h.model = ui.home.model /\ h.typed = ui.home.typed
                      /\ h.saved = ui.home.saved
    BY <1>9 DEF FormRead
  <2>3. inFlight[i] \in On(inFlight, "config")
    BY <1>1, <2>2, TouchesFacts DEF On
  <2>4. Shows(ui.home.config)
    BY <1>4, <2>2, <2>3
  <2>5. CASE h.error = TRUE /\ FormSame(h) /\ h.saved = ui.home.saved
    <3>1. h.config = ui.home.config /\ h.model = ui.home.model /\ h.typed = ui.home.typed
      BY <2>5 DEF FormSame
    <3> QED BY <1>3, <1>4, <2>1, <2>5, <3>1
  <2>6. CASE /\ inFlight[i].state = "done" /\ h.config = Ready(inFlight[i].answer)
             /\ \/ h.model = inFlight[i].answer.model /\ h.typed = {}
                \/ /\ h.model = ui.home.model /\ h.typed = ui.home.typed
                   /\ h.saved = ui.home.saved
    <3>1. inFlight[i].answer = vault.config
      BY <1>4, <2>2, <2>3, <2>6
    <3>2. Shows(h.config) /\ h.config.data = vault.config
      BY <2>6, <3>1, StateFacts
    <3>3. "model" \notin h.typed => h.model = vault.config.model
      BY <1>4, <2>4, <2>6, <3>1
    <3> QED BY <1>3, <2>1, <3>2, <3>3
  <2> QED BY <2>2, <2>5, <2>6
<1>10. CASE LogRead(h, new, out) \/ SyncTold(h, new, out)
  <2>1. C = On(inFlight, "config")
    BY <1>2, <1>10, ConfigCalls
  <2>2. /\ h.config = ui.home.config /\ h.model = ui.home.model
        /\ h.typed = ui.home.typed /\ h.saved = ui.home.saved
    BY <1>10 DEF LogRead, SyncTold, FormSame, RestSame
  <2>3. Promised
    BY <1>4, <2>1, <2>2
  <2> QED BY <1>3, <2>3
<1> QED BY <1>5, <1>6, <1>7, <1>8, <1>9, <1>10 DEF HomeMove

LEMMA HomeOwn ==
    ASSUME Shape, AtMostOne, ConfigInv, HomeInv, NEW h, NEW new, NEW out, HomeMove(h, new, out)
    PROVE  HomeInv'
<1> SUFFICES ASSUME Alone("config")', Alone("lock")', On(inFlight', "config") = {},
                    On(inFlight', "lock") = {}, Shows(h.config), ~h.error
             PROVE  h.config.data = vault.config
  BY HomeMoved DEF HomeInv, Frame
<1>1. /\ Alone("config") /\ Alone("lock") /\ InSettings /\ On(inFlight, "lock") = {}
      /\ out \subseteq All(inFlight)
  <2>1. "lock" \notin HomeRs
    BY DEF HomeRs
  <2> QED BY <2>1, HomeMoved, ConfigCalls DEF Frame, HomeMove, Alone
<1>2. \A c \in On(inFlight, "config") :
         /\ c.cmd = "load_settings" /\ c.state = "done" => c.answer.config = vault.config
         /\ c.cmd = "get_config" /\ c.state = "done" => c.answer = vault.config
  BY <1>1 DEF ConfigInv
<1>3. CASE FormSent(h, new, out) \/ FormTold(h, new, out)
  <2>1. new = {}
    BY <1>3, ConfigCalls
  <2> QED BY <1>3, <2>1 DEF FormSent, FormTold
<1>4. CASE FormTyped(h, new, out) \/ LogRead(h, new, out) \/ SyncTold(h, new, out)
  <2>1. On(inFlight, "config") = {}
    BY <1>4, ConfigCalls
  <2>2. h.config = ui.home.config /\ h.error = ui.home.error
    BY <1>4 DEF FormTyped, LogRead, SyncTold, FormSame, RestSame
  <2> QED BY <1>1, <2>1, <2>2 DEF HomeInv
<1>5. CASE PageRead(h, new, out)
  <2>1. PICK i \in DOMAIN inFlight :
          /\ inFlight[i].cmd = "load_settings" /\ out = {inFlight[i]} /\ h.saved = ui.home.saved
          /\ IF inFlight[i].state = "done"
             THEN /\ h.config = Ready(inFlight[i].answer.config) /\ h.typed = {}
                  /\ h.model = inFlight[i].answer.config.model /\ h.error = ui.home.error
             ELSE h.error = TRUE /\ FormSame(h)
    BY <1>5 DEF PageRead
  <2>2. inFlight[i] \in On(inFlight, "config")
    BY <1>1, <2>1, TouchesFacts DEF On
  <2> QED BY <1>2, <2>1, <2>2, StateFacts
<1>6. CASE FormRead(h, new, out)
  <2>1. PICK i \in DOMAIN inFlight :
          /\ inFlight[i].cmd = "get_config" /\ out = {inFlight[i]}
          /\ \/ h.error = TRUE /\ FormSame(h) /\ h.saved = ui.home.saved
             \/ /\ inFlight[i].state = "done" /\ h.config = Ready(inFlight[i].answer)
                /\ \/ h.model = inFlight[i].answer.model /\ h.typed = {}
                   \/ /\ h.model = ui.home.model /\ h.typed = ui.home.typed
                      /\ h.saved = ui.home.saved
    BY <1>6 DEF FormRead
  <2>2. inFlight[i] \in On(inFlight, "config")
    BY <1>1, <2>1, TouchesFacts DEF On
  <2> QED BY <1>2, <2>1, <2>2, StateFacts
<1> QED BY <1>3, <1>4, <1>5, <1>6 DEF HomeMove

LEMMA TransfersOwn ==
    ASSUME Shape, AtMostOne, TransfersInv, NEW h, NEW new, NEW out, HomeMove(h, new, out)
    PROVE  TransfersInv'
<1>1. /\ Turn({}, new, out) /\ vault' = vault /\ ui'.home = h /\ ui'.tab = ui.tab
      /\ out \subseteq All(inFlight)
  BY HomeMoved DEF HomeMove, Frame
<1>2. CASE \/ FormSent(h, new, out) \/ FormTyped(h, new, out) \/ FormTold(h, new, out)
           \/ FormRead(h, new, out)
  <2>1. h.transfers = ui.home.transfers
    BY <1>2 DEF FormSent, FormTyped, FormTold, FormRead
  <2>2. \A c \in new \cup out : "transfers" \notin Touches(c)
    BY <1>2, TouchesFacts DEF FormSent, FormTyped, FormTold, FormRead, ConfigClicks
  <2>3. On(inFlight', "transfers") = On(inFlight, "transfers")
    BY <1>1, <2>2, Untouched
  <2>4. SameOn("transfers")
    BY <1>1, <2>3 DEF SameOn, Turn, Traffic
  <2> QED BY <1>1, <2>1, <2>4, TransfersAsBefore
<1> SUFFICES ASSUME Alone("transfers")', ui.tab = "transfers",
                    PageRead(h, new, out) \/ LogRead(h, new, out) \/ SyncTold(h, new, out)
             PROVE  TransfersInv'
  BY <1>1, <1>2 DEF TransfersInv, HomeMove
<1>3. Alone("transfers") /\ "transfers" \notin seen'.overlapped
  BY <1>1, OnlyGrows DEF Alone
<1>4. \A c \in On(inFlight, "transfers") :
         /\ c.cmd = "list_transfers" /\ c.for = "home" /\ c.state # "failed"
         /\ c.state = "done" => c.answer = vault.sent
  BY <1>3 DEF TransfersInv
<1>5. \A d \in out : d.cmd \in {"load_settings", "trigger_ingest", "list_transfers"} =>
                       d \in On(inFlight, "transfers")
  BY <1>1, TouchesFacts DEF On
<1>6. ~PageRead(h, new, out) /\ ~SyncTold(h, new, out)
  BY <1>4, <1>5 DEF PageRead, SyncTold
<1>7. PICK i \in DOMAIN inFlight :
        /\ inFlight[i].cmd = "list_transfers" /\ out = {inFlight[i]}
        /\ inFlight[i].state # "sent"
        /\ inFlight[i].state = "done" => h.transfers = inFlight[i].answer
  BY <1>6 DEF LogRead
<1>8. inFlight[i] \in On(inFlight, "transfers") /\ CallShape(inFlight[i])
  BY <1>5, <1>7, CallFacts
<1>9. h.transfers = vault.sent
  BY <1>4, <1>7, <1>8 DEF CallShape
<1>10. On(inFlight', "transfers") = {}
  <2>1. new = {}
    BY <1>6 DEF LogRead
  <2>2. \E c \in new \cup out : "transfers" \in Touches(c)
    BY <1>7, <1>8 DEF On
  <2> QED BY <1>1, <1>3, <2>1, <2>2, TouchedNew
<1> QED BY <1>1, <1>9, <1>10 DEF TransfersInv

LEMMA HomeQueue ==
    ASSUME Shape, AtMostOne, QueueInv, NEW h, NEW new, NEW out, HomeMove(h, new, out)
    PROVE  QueueInv'
<1>1. /\ Turn({}, new, out) /\ vault' = vault /\ ui'.tab = ui.tab /\ ui.tab # "queue"
  BY HomeMoved DEF HomeMove, Frame, InSettings, SettingsTabs
<1>2. CASE SyncTold(h, new, out)
  <2> SUFFICES ASSUME Alone("queue")' PROVE On(inFlight', "queue") = {}
    BY <1>1 DEF QueueInv
  <2>1. "queue" \notin seen'.overlapped
    BY DEF Alone
  <2>2. \E c \in new \cup out : "queue" \in Touches(c)
    BY <1>2, TouchesFacts DEF SyncTold
  <2>3. \A c \in new : "queue" \notin Touches(c)
    <3>1. TransfersRead.cmd = "list_transfers"
      BY CmdFacts DEF TransfersRead
    <3> QED BY <1>2, <3>1, TouchesFacts DEF SyncTold
  <2> QED BY <1>1, <2>1, <2>2, <2>3, TouchedNew
<1>3. CASE ~SyncTold(h, new, out)
  <2>1. \A c \in new \cup out : "queue" \notin Touches(c)
    BY <1>3, TouchesFacts DEF HomeMove, FormSent, FormTyped, PageRead, FormTold, FormRead, LogRead,
                              ConfigClicks
  <2>2. On(inFlight', "queue") = On(inFlight, "queue")
    BY <1>1, <2>1, Untouched
  <2>3. SameOn("queue")
    BY <1>1, <2>2 DEF SameOn, Turn, Traffic
  <2> QED BY <1>1, <2>3, QueueKept
<1> QED BY <1>2, <1>3

LEMMA HomeKeeps ==
    ASSUME ViewsIInv, HomeStep
    PROVE  ViewsIInv'
<1>1. PICK h, new, out : HomeMove(h, new, out)
  BY HomeStepMoves DEF ViewsIInv, HomeMoves
<1>2. PICK rs : rs = HomeRs
  OBVIOUS
<1>3. /\ Shape' /\ AtMostOne' /\ Frame(rs)
      /\ ui'.pane = ui.pane /\ ui'.panel = ui.panel
  BY <1>1, <1>2, HomeMoved DEF ViewsIInv
<1>4. InSettings /\ ui.tab # "dashboard"
  BY <1>1 DEF HomeMove, InSettings, SettingsTabs
<1>5. ConfigInv' /\ HomeInv' /\ TransfersInv' /\ QueueInv'
  BY <1>1, ConfigOwn, HomeOwn, TransfersOwn, HomeQueue DEF ViewsIInv
<1>6. Facts \cap rs = {}
  BY <1>2, PageNames DEF Resources, HomeRs
<1>7. /\ {"shares", "sources", "graph", "lock", "scope", "thread"} \cap rs = {}
      /\ rs \cap {"thread", "lock"} = {}
  BY <1>2 DEF HomeRs
<1>8. /\ "shares" \notin rs /\ "sources" \notin rs /\ "graph" \notin rs /\ "lock" \notin rs
      /\ "scope" \notin rs /\ "thread" \notin rs
  BY <1>7
<1>9. /\ MintedInv' /\ SharesInv' /\ SourcesInv' /\ GraphInv' /\ DashboardInv' /\ LockInv'
      /\ ScopeInv' /\ ThreadInv' /\ PersonaInv'
  BY <1>3, <1>4, <1>7, <1>8, FrameKeeps
<1>10. ControlInv' /\ FactInv'
  BY <1>3, <1>6, FrameKeeps
<1> QED BY <1>3, <1>5, <1>9, <1>10 DEF ViewsIInv

-----------------------------------------------------------------------------
(* The lock screen.                                                        *)

\* A handler that leaves what is shown as it is.
LEMMA StillTurn ==
    ASSUME Shape, NEW new, NEW out, Turn({}, new, out), ui' = ui, \A c \in new : FromPane(c),
           NEW rs, \A c \in new \cup out : Touches(c) \subseteq rs
    PROVE  Shape' /\ AtMostOne' /\ Frame(rs)
<1>1. UiShape' /\ MountsStay({}, ui, ui')
  BY DEF Shape, UiShape, InSettings, MountsStay
<1>2. \A c \in new : Routed(c, ui')
  BY DEF Routed, Named, FromPane
<1>3. Shape' /\ AtMostOne'
  BY <1>1, <1>2, TurnShape
<1>4. \A r : r \notin rs => On(inFlight', r) = On(inFlight, r)
  <2> SUFFICES ASSUME NEW r, r \notin rs PROVE On(inFlight', r) = On(inFlight, r)
    OBVIOUS
  <2> QED BY Untouched
<1>5. Frame(rs)
  <2>1. \A c \in new : ~Saving(c)
    BY DEF FromPane, Saving
  <2> QED BY <1>4, <2>1 DEF Frame, Turn, Traffic, Watched, SavesKept
<1> QED BY <1>3, <1>5

StatusRead == Cmd("get_status", Null, "app")

StatusStill(i) == StatusAnswered(i) /\ ((inFlight[i].answer = "open") <=> ui.tab # "unlock")
LockStep ==
    \/ Lock \/ Unlock
    \/ \E i \in DOMAIN inFlight : LockAnswered(i) \/ UnlockAnswered(i) \/ StatusStill(i)

\* What the handlers of the lock do.
LockShown ==
    \/ ui' = ui
    \/ InSettings /\ \E h : /\ HomeOnly(h) /\ HomeShape(h) /\ FormSame(h)
                            /\ h.saved = ui.home.saved /\ h.transfers = ui.home.transfers
    \/ ui.tab = "unlock" /\ \E p : PaneOnly(p) /\ UnlockShape(p)
LockSent(new, out) ==
    /\ out = {}
    /\ \E c : /\ new = {c} /\ c.state = "sent"
              /\ \/ c.cmd = "lock" /\ c.for = "home" /\ InSettings
                 \/ c.cmd = "unlock" /\ c.for = "pane" /\ ui.tab = "unlock"
LockTold(new, out) ==
    \E i \in DOMAIN inFlight :
       /\ inFlight[i].cmd \in {"lock", "unlock"} /\ out = {inFlight[i]}
       /\ \/ inFlight[i].state = "done" /\ new = {StatusRead}
          \/ inFlight[i].state = "failed" /\ new = {}
StatusTold(new, out) ==
    /\ new = {} /\ ui' = ui
    /\ \E i \in DOMAIN inFlight :
          /\ inFlight[i].cmd = "get_status" /\ inFlight[i].state # "sent" /\ out = {inFlight[i]}
          /\ (inFlight[i].answer = "open") <=> ui.tab # "unlock"
LockMove(new, out) ==
    /\ Turn({}, new, out) /\ LockShown
    /\ LockSent(new, out) \/ LockTold(new, out) \/ StatusTold(new, out)

LEMMA LockClickMove ==
    ASSUME Shape, AtMostOne, Lock
    PROVE  \E new, out : LockMove(new, out)
<1>1. ui.tab \in SettingsTabs /\ InSettings
  BY DEF Lock, InSettings, SettingsTabs
<1>2. PICK tab, pane, panel, cfg, model, typed, loading, busy, error, sav, transfers :
         ui = View(tab, pane, panel,
                   HomeView(cfg, model, typed, loading, busy, error, sav, transfers))
  BY <1>1, HomeUi
<1>3. PICK c : c = Cmd("lock", Null, "home")
  OBVIOUS
<1>4. Turn({}, {c}, {}) /\ ui' = [ui EXCEPT !.home.busy = TRUE, !.home.error = FALSE]
  BY <1>3, ClickOne DEF Lock
<1>5. PICK h : h = HomeView(cfg, model, typed, loading, TRUE, FALSE, sav, transfers)
  OBVIOUS
<1>6. HomeOnly(h)
  BY <1>2, <1>4, <1>5 DEF HomeOnly, View, HomeView
<1>7. HomeShape(h) /\ FormSame(h) /\ h.saved = ui.home.saved /\ h.transfers = ui.home.transfers
  BY <1>2, <1>5 DEF View, HomeView, HomeShape, FormSame
<1>8. LockShown
  BY <1>1, <1>6, <1>7 DEF LockShown
<1>9. LockSent({c}, {})
  BY <1>1, <1>3, CmdFacts DEF LockSent
<1> QED BY <1>4, <1>8, <1>9 DEF LockMove

LEMMA UnlockClickMove ==
    ASSUME Shape, AtMostOne, Unlock
    PROVE  \E new, out : LockMove(new, out)
<1>1. ui.tab = "unlock"
  BY DEF Unlock
<1>2. PICK tab, panel, home, busy, error : ui = View(tab, UnlockPane(busy, error), panel, home)
  BY <1>1, UnlockUi
<1>3. PICK c : c = Cmd("unlock", Null, "pane")
  OBVIOUS
<1>4. Turn({}, {c}, {}) /\ ui' = [ui EXCEPT !.pane.busy = TRUE, !.pane.error = FALSE]
  BY <1>3, ClickOne DEF Unlock
<1>5. PICK p : p = UnlockPane(TRUE, FALSE)
  OBVIOUS
<1>6. PaneOnly(p)
  BY <1>2, <1>4, <1>5 DEF PaneOnly, View, UnlockPane
<1>7. UnlockShape(p)
  BY <1>5 DEF UnlockPane, UnlockShape
<1>8. LockShown
  BY <1>1, <1>6, <1>7 DEF LockShown
<1>9. LockSent({c}, {})
  BY <1>1, <1>3, CmdFacts DEF LockSent
<1> QED BY <1>4, <1>8, <1>9 DEF LockMove

\* The status is asked for when the lock changed.
LEMMA LockTurns ==
    ASSUME Shape, AtMostOne, NEW i \in DOMAIN inFlight, inFlight[i].cmd \in {"lock", "unlock"},
           inFlight[i].state # "sent", NEW u,
           Answered(i, u, {}, IF Done(i) THEN <<StatusRead>> ELSE <<>>)
    PROVE  \E new, out : Turn({}, new, out) /\ ui' = u /\ LockTold(new, out)
<1>1. inFlight[i].state \in {"done", "failed"}
  BY CallFacts DEF CallShape
<1>2. CASE Done(i)
  <2>1. Answered(i, u, {}, <<StatusRead>>)
    BY <1>2
  <2>2. Turn({}, {StatusRead}, {inFlight[i]}) /\ ui' = u
    BY <2>1, AnswerOne DEF StatusRead
  <2> QED BY <1>2, <2>2 DEF LockTold, Done
<1>3. CASE ~Done(i)
  <2>1. Answered(i, u, {}, <<>>)
    BY <1>3
  <2>2. Turn({}, {}, {inFlight[i]}) /\ ui' = u
    BY <2>1, AnswerNone
  <2> QED BY <1>1, <1>3, <2>2 DEF LockTold, Done
<1> QED BY <1>2, <1>3

LEMMA LockAnsweredMove ==
    ASSUME Shape, AtMostOne, NEW i, LockAnswered(i)
    PROVE  \E new, out : LockMove(new, out)
<1>1. i \in DOMAIN inFlight /\ inFlight[i].cmd = "lock" /\ inFlight[i].state # "sent"
  BY DEF LockAnswered, Answers
<1>2. PICK home, u :
        /\ home = IF inFlight[i].for = "home"
                  THEN [ui.home EXCEPT !.busy = FALSE, !.error = ~Done(i)] ELSE ui.home
        /\ u = [ui EXCEPT !.home = home]
        /\ Answered(i, u, {}, IF Done(i) THEN <<StatusRead>> ELSE <<>>)
  BY DEF LockAnswered, StatusRead
<1>3. PICK new, out : Turn({}, new, out) /\ ui' = u /\ LockTold(new, out)
  BY <1>1, <1>2, LockTurns
<1>4. LockShown
  <2>1. CASE inFlight[i].for = "home"
    <3>1. ui.tab \in SettingsTabs
      BY <1>1, <2>1, CallFacts, RoutedFacts
    <3>2. PICK tab, pane, panel, cfg, model, typed, loading, busy, error, sav, transfers :
             ui = View(tab, pane, panel,
                       HomeView(cfg, model, typed, loading, busy, error, sav, transfers))
      BY <3>1, HomeUi
    <3>3. PICK bad : bad = ~Done(i)
      OBVIOUS
    <3>4. home = [ui.home EXCEPT !.busy = FALSE, !.error = bad]
      BY <1>2, <2>1, <3>3
    <3>5. home = HomeView(cfg, model, typed, loading, FALSE, bad, sav, transfers)
      BY <3>2, <3>4 DEF View, HomeView
    <3>6. HomeOnly(home)
      BY <1>2, <1>3, <3>2 DEF HomeOnly, View
    <3>7. HomeShape(home) /\ FormSame(home) /\ home.saved = ui.home.saved
          /\ home.transfers = ui.home.transfers
      BY <3>2, <3>5 DEF View, HomeView, HomeShape, FormSame
    <3>8. InSettings
      BY <3>1 DEF InSettings
    <3> QED BY <3>6, <3>7, <3>8 DEF LockShown
  <2>2. CASE inFlight[i].for # "home"
    <3>1. PICK tab, pane, panel, rest : ui = View(tab, pane, panel, rest)
      BY DEF Shape, UiShape
    <3>2. ui' = ui
      BY <1>2, <1>3, <2>2, <3>1 DEF View
    <3> QED BY <3>2 DEF LockShown
  <2> QED BY <2>1, <2>2
<1> QED BY <1>3, <1>4 DEF LockMove

LEMMA UnlockAnsweredMove ==
    ASSUME Shape, AtMostOne, NEW i, UnlockAnswered(i)
    PROVE  \E new, out : LockMove(new, out)
<1>1. i \in DOMAIN inFlight /\ inFlight[i].cmd = "unlock" /\ inFlight[i].state # "sent"
  BY DEF UnlockAnswered, Answers
<1>2. PICK shown, u :
        /\ shown = IF inFlight[i].for = "pane" /\ ~Done(i)
                   THEN [ui.pane EXCEPT !.busy = FALSE, !.error = TRUE] ELSE ui.pane
        /\ u = [ui EXCEPT !.pane = shown]
        /\ Answered(i, u, {}, IF Done(i) THEN <<StatusRead>> ELSE <<>>)
  BY DEF UnlockAnswered, StatusRead
<1>3. PICK new, out : Turn({}, new, out) /\ ui' = u /\ LockTold(new, out)
  BY <1>1, <1>2, LockTurns
<1>4. LockShown
  <2>1. CASE inFlight[i].for = "pane" /\ ~Done(i)
    <3>1. ui.tab = "unlock"
      BY <1>1, <2>1, CallFacts, RoutedFacts
    <3>2. PICK tab, panel, home, busy, error : ui = View(tab, UnlockPane(busy, error), panel, home)
      BY <3>1, UnlockUi
    <3>3. shown = [ui.pane EXCEPT !.busy = FALSE, !.error = TRUE]
      BY <1>2, <2>1
    <3>4. shown = UnlockPane(FALSE, TRUE)
      BY <3>2, <3>3 DEF View, UnlockPane
    <3>5. PaneOnly(shown)
      BY <1>2, <1>3, <3>2 DEF PaneOnly, View
    <3>6. UnlockShape(shown)
      BY <3>4 DEF UnlockPane, UnlockShape
    <3> QED BY <3>1, <3>5, <3>6 DEF LockShown
  <2>2. CASE ~(inFlight[i].for = "pane" /\ ~Done(i))
    <3>1. PICK tab, pane, panel, home : ui = View(tab, pane, panel, home)
      BY DEF Shape, UiShape
    <3>2. ui' = ui
      BY <1>2, <1>3, <2>2, <3>1 DEF View
    <3> QED BY <3>2 DEF LockShown
  <2> QED BY <2>1, <2>2
<1> QED BY <1>3, <1>4 DEF LockMove

LEMMA StatusStillMove ==
    ASSUME Shape, AtMostOne, NEW i, StatusStill(i)
    PROVE  \E new, out : LockMove(new, out)
<1>1. /\ i \in DOMAIN inFlight /\ inFlight[i].cmd = "get_status" /\ inFlight[i].state # "sent"
      /\ (inFlight[i].answer = "open") <=> ui.tab # "unlock"
  BY DEF StatusStill, StatusAnswered, Answers
<1>2. Answered(i, ui, {}, <<>>)
  BY DEF StatusStill, StatusAnswered
<1>3. Turn({}, {}, {inFlight[i]}) /\ ui' = ui
  BY <1>1, <1>2, AnswerNone
<1> QED BY <1>1, <1>3 DEF LockMove, LockShown, StatusTold

LEMMA LockMoves ==
    ASSUME Shape, AtMostOne, LockStep
    PROVE  \E new, out : LockMove(new, out)
<1> QED BY LockClickMove, UnlockClickMove, LockAnsweredMove, UnlockAnsweredMove, StatusStillMove
        DEF LockStep

LEMMA LockMoved ==
    ASSUME Shape, AtMostOne, NEW new, NEW out, LockMove(new, out), NEW rs, rs = {"lock"}
    PROVE  /\ Shape' /\ AtMostOne' /\ Frame(rs)
           /\ ui'.panel = ui.panel /\ (ui.tab # "unlock" => ui'.pane = ui.pane)
           /\ InSettings => /\ FormSame(ui'.home) /\ ui'.home.saved = ui.home.saved
                            /\ ui'.home.transfers = ui.home.transfers
           /\ out \subseteq All(inFlight)
           /\ \A c \in new \cup out : "lock" \in Touches(c)
<1>1. Turn({}, new, out) /\ LockShown
  BY DEF LockMove
<1>2. StatusRead.cmd = "get_status" /\ StatusRead.for = "app"
  BY CmdFacts DEF StatusRead
<1>3. \A c \in new :
        \/ c.cmd = "get_status" /\ c.for = "app"
        \/ c.cmd = "lock" /\ c.for = "home" /\ InSettings
        \/ c.cmd = "unlock" /\ c.for = "pane" /\ ui.tab = "unlock"
  BY <1>2 DEF LockMove, LockSent, LockTold, StatusTold
<1>4. \A c \in new : FromPane(c)
  BY <1>3 DEF FromPane, Awaiters, SharesCmds, PaneOfCmd, InSettings
<1>5. \A d \in out : d \in All(inFlight) /\ d.cmd \in {"lock", "unlock", "get_status"}
  BY DEF LockMove, LockSent, LockTold, StatusTold, All
<1>6. \A c \in new \cup out : Touches(c) = {"lock"}
  BY <1>3, <1>5, TouchesFacts
<1>7. \A c \in new \cup out : Touches(c) \subseteq rs
  BY <1>6
<1>8. CASE ui' = ui
  BY <1>1, <1>4, <1>5, <1>6, <1>7, <1>8, StillTurn DEF FormSame
<1>9. CASE InSettings /\ \E h : /\ HomeOnly(h) /\ HomeShape(h) /\ FormSame(h)
                                /\ h.saved = ui.home.saved /\ h.transfers = ui.home.transfers
  <2>1. PICK h : /\ HomeOnly(h) /\ HomeShape(h) /\ FormSame(h)
                 /\ h.saved = ui.home.saved /\ h.transfers = ui.home.transfers
    BY <1>9
  <2> QED BY <1>1, <1>4, <1>5, <1>6, <1>7, <1>9, <2>1, HomeTurn
<1>10. CASE ui.tab = "unlock" /\ \E p : PaneOnly(p) /\ UnlockShape(p)
  <2>1. PICK p : PaneOnly(p) /\ UnlockShape(p)
    BY <1>10
  <2>2. PaneFits(p) /\ ~InSettings
    BY <1>10, <2>1 DEF PaneFits, InSettings, SettingsTabs
  <2>3. PaneStep(ui.tab, rs)
    BY <1>1, <1>4, <1>7, <2>1, <2>2, PaneTurn
  <2> QED BY <1>5, <1>6, <1>10, <2>2, <2>3 DEF PaneStep
<1> QED BY <1>1, <1>8, <1>9, <1>10 DEF LockShown

\* The calls on the lock, before and after.
LEMMA LockCalls ==
    ASSUME Shape, AtMostOne, NEW new, NEW out, LockMove(new, out), Alone("lock")'
    PROVE  /\ Alone("lock") /\ On(inFlight', "lock") = new
           /\ On(inFlight, "lock") \subseteq new \cup out
           /\ \A d \in out : d \in On(inFlight, "lock")
<1>1. Turn({}, new, out) /\ "lock" \notin seen'.overlapped
  BY DEF LockMove, Alone
<1>2. PICK rs : rs = {"lock"}
  OBVIOUS
<1>3. out \subseteq All(inFlight) /\ \A c \in new \cup out : "lock" \in Touches(c)
  BY <1>2, LockMoved
<1>4. \E c \in new \cup out : "lock" \in Touches(c)
  <2>1. new \cup out # {}
    BY DEF LockMove, LockSent, LockTold, StatusTold
  <2> QED BY <1>3, <2>1
<1>5. On(inFlight', "lock") = new
  <2>1. On(inFlight', "lock") = {c \in new : "lock" \in Touches(c)}
    BY <1>1, <1>4, TouchedNew
  <2>2. \A c \in new : "lock" \in Touches(c)
    BY <1>3
  <2> QED BY <2>1, <2>2
<1>6. On(inFlight, "lock") \subseteq new \cup out
  <2>1. \A c \in All(inFlight) : c.for \in {} => "lock" \notin Touches(c)
    OBVIOUS
  <2> QED BY <1>1, <1>4, <2>1, TouchedBefore
<1> QED BY <1>1, <1>3, <1>5, <1>6, OnlyGrows DEF On

LEMMA LockOwn ==
    ASSUME Shape, AtMostOne, LockInv, NEW new, NEW out, LockMove(new, out)
    PROVE  LockInv'
<1> SUFFICES ASSUME Alone("lock")' PROVE LockInv'
  BY DEF LockInv
<1>1. Alone("lock") /\ On(inFlight', "lock") = new /\ On(inFlight, "lock") \subseteq new \cup out
      /\ \A d \in out : d \in On(inFlight, "lock")
  BY LockCalls
<1>2. vault' = vault /\ ui'.tab = ui.tab
  BY LockMoved DEF Frame
<1>3. PICK C : C = On(inFlight, "lock")
  OBVIOUS
<1>4. /\ IF \E c \in C : c.cmd = "get_status" \/ c.state = "done"
         THEN ui.tab = "unlock" <=> vault.open
         ELSE ui.tab = "unlock" <=> ~vault.open
      /\ \A c \in C :
           /\ c.cmd = "get_status" /\ c.state # "sent" =>
                c.answer = (IF vault.open THEN "open" ELSE "locked")
           /\ c.cmd = "unlock" => ui.tab = "unlock"
           /\ c.cmd = "lock" => ui.tab # "unlock"
           /\ c.cmd \in {"lock", "get_status"} => c.state # "failed"
  BY <1>1, <1>3 DEF LockInv
<1> DEFINE Promised ==
      /\ IF \E c \in new : c.cmd = "get_status" \/ c.state = "done"
         THEN ui.tab = "unlock" <=> vault.open
         ELSE ui.tab = "unlock" <=> ~vault.open
      /\ \A c \in new :
           /\ c.cmd = "get_status" /\ c.state # "sent" =>
                c.answer = (IF vault.open THEN "open" ELSE "locked")
           /\ c.cmd = "unlock" => ui.tab = "unlock"
           /\ c.cmd = "lock" => ui.tab # "unlock"
           /\ c.cmd \in {"lock", "get_status"} => c.state # "failed"
<1>5. Promised => LockInv'
  BY <1>1, <1>2 DEF LockInv
<1>6. CASE LockSent(new, out)
  <2>1. PICK c : /\ new = {c} /\ c.state = "sent"
                 /\ \/ c.cmd = "lock" /\ c.for = "home" /\ InSettings
                    \/ c.cmd = "unlock" /\ c.for = "pane" /\ ui.tab = "unlock"
    BY <1>6 DEF LockSent
  <2>2. C \subseteq {c}
    BY <1>1, <1>3, <1>6, <2>1 DEF LockSent
  <2>3. InSettings => ui.tab # "unlock"
    BY DEF InSettings, SettingsTabs
  <2> QED BY <1>4, <1>5, <2>1, <2>2, <2>3
<1>7. CASE LockTold(new, out)
  <2>1. PICK i \in DOMAIN inFlight :
          /\ inFlight[i].cmd \in {"lock", "unlock"} /\ out = {inFlight[i]}
          /\ \/ inFlight[i].state = "done" /\ new = {StatusRead}
             \/ inFlight[i].state = "failed" /\ new = {}
    BY <1>7 DEF LockTold
  <2>2. inFlight[i] \in C
    BY <1>1, <1>3, <2>1
  <2>3. CASE inFlight[i].state = "done" /\ new = {StatusRead}
    <3>1. StatusRead.cmd = "get_status" /\ StatusRead.state = "sent"
      BY CmdFacts DEF StatusRead
    <3> QED BY <1>4, <1>5, <2>2, <2>3, <3>1
  <2>4. CASE inFlight[i].state = "failed" /\ new = {}
    <3>1. \A c \in C : c = inFlight[i]
      BY <1>1, <1>3, <2>1, <2>4
    <3> QED BY <1>4, <1>5, <2>1, <2>4, <3>1
  <2> QED BY <2>1, <2>3, <2>4
<1>8. CASE StatusTold(new, out)
  <2>1. PICK i \in DOMAIN inFlight :
          /\ inFlight[i].cmd = "get_status" /\ inFlight[i].state # "sent" /\ out = {inFlight[i]}
          /\ (inFlight[i].answer = "open") <=> ui.tab # "unlock"
    BY <1>8 DEF StatusTold
  <2>2. inFlight[i] \in C
    BY <1>1, <1>3, <2>1
  <2>3. FALSE
    BY <1>4, <2>1, <2>2
  <2> QED BY <2>3
<1> QED BY <1>6, <1>7, <1>8 DEF LockMove

LEMMA LockHome ==
    ASSUME Shape, AtMostOne, LockInv, NEW new, NEW out, LockMove(new, out)
    PROVE  HomeInv'
<1> SUFFICES ASSUME Alone("lock")', On(inFlight', "lock") = {}, InSettings' PROVE FALSE
  BY DEF HomeInv
<1>1. Alone("lock") /\ new = {} /\ \A d \in out : d \in On(inFlight, "lock")
  BY LockCalls
<1>2. InSettings /\ ui.tab # "unlock"
  BY LockMoved DEF Frame, InSettings, SettingsTabs
<1>3. CASE LockTold(new, out)
  <2>1. PICK i \in DOMAIN inFlight :
          /\ inFlight[i].cmd \in {"lock", "unlock"} /\ out = {inFlight[i]}
          /\ \/ inFlight[i].state = "done" /\ new = {StatusRead}
             \/ inFlight[i].state = "failed" /\ new = {}
    BY <1>3 DEF LockTold
  <2> QED BY <1>1, <1>2, <2>1 DEF LockInv
<1>4. CASE StatusTold(new, out)
  <2>1. PICK i \in DOMAIN inFlight :
          /\ inFlight[i].cmd = "get_status" /\ inFlight[i].state # "sent" /\ out = {inFlight[i]}
          /\ (inFlight[i].answer = "open") <=> ui.tab # "unlock"
    BY <1>4 DEF StatusTold
  <2> QED BY <1>1, <2>1 DEF LockInv
<1> QED BY <1>1, <1>3, <1>4 DEF LockMove, LockSent

LEMMA LockKeeps ==
    ASSUME ViewsIInv, LockStep
    PROVE  ViewsIInv'
<1>1. PICK new, out : LockMove(new, out)
  BY LockMoves DEF ViewsIInv
<1>2. PICK rs : rs = {"lock"}
  OBVIOUS
<1>3. /\ Shape' /\ AtMostOne' /\ Frame(rs)
      /\ ui'.panel = ui.panel /\ (ui.tab # "unlock" => ui'.pane = ui.pane)
      /\ InSettings => /\ FormSame(ui'.home) /\ ui'.home.saved = ui.home.saved
                       /\ ui'.home.transfers = ui.home.transfers
  BY <1>1, <1>2, LockMoved DEF ViewsIInv
<1>4. LockInv' /\ HomeInv'
  BY <1>1, LockOwn, LockHome DEF ViewsIInv
<1>5. Facts \cap rs = {}
  BY <1>2, PageNames DEF Resources
<1>6. /\ "shares" \notin rs /\ "sources" \notin rs /\ "graph" \notin rs /\ "config" \notin rs
      /\ "scope" \notin rs /\ "thread" \notin rs /\ "queue" \notin rs /\ "transfers" \notin rs
      /\ rs \cap {"dashboard", "queue"} = {}
  BY <1>2
<1>7. /\ MintedInv' /\ SharesInv' /\ SourcesInv' /\ QueueInv' /\ GraphInv' /\ DashboardInv'
      /\ ScopeInv' /\ ThreadInv'
  BY <1>3, <1>6, FrameKeeps
<1>8. ConfigInv'
  BY <1>3, <1>6, FrameKeeps DEF FormSame
<1>9. TransfersInv'
  <2>1. ui.tab = "transfers" => InSettings
    BY DEF InSettings, SettingsTabs
  <2> QED BY <1>3, <1>6, <2>1, FrameKeeps
<1>10. ControlInv' /\ FactInv'
  <2>1. ui'.panel.view = "control" => ui.tab # "unlock"
    <3>1. UiShape /\ NoView.view = "none"
      BY DEF ViewsIInv, Shape, NoView
    <3> QED BY <1>3, <3>1 DEF UiShape
  <2> QED BY <1>3, <1>5, <2>1, FrameKeeps
<1>11. PersonaInv'
  <2>1. On(inFlight', "thread") = On(inFlight, "thread")
    BY <1>3, <1>6 DEF Frame
  <2> QED BY <1>3, <2>1 DEF ViewsIInv, PersonaInv, Frame, Alone
<1> QED BY <1>3, <1>4, <1>7, <1>8, <1>9, <1>10, <1>11 DEF ViewsIInv

-----------------------------------------------------------------------------
(* The dashboard and its graph.                                            *)

GraphStep ==
    \/ RefreshDashboard \/ \E s \in {"all", "Company"} : ChooseScope(s)
    \/ \E i \in DOMAIN inFlight : DashboardAnswered(i) \/ GraphAnswered(i)

AllGone == {"graph", "panel", "load"}
GraphParts(p, gone) ==
    /\ ui.tab = "dashboard" /\ DashboardShape(p)
    /\ \/ /\ gone = {} /\ ui' = View(ui.tab, p, ui.panel, ui.home)
          /\ p.selected = ui.pane.selected /\ Shows(ui.pane.stats) /\ Shows(p.stats)
       \/ /\ gone = {"panel", "load"} /\ ui' = View(ui.tab, p, NoView, ui.home)
          /\ Shows(ui.pane.stats) /\ Shows(p.stats)
       \/ gone = AllGone /\ ui' = View(ui.tab, p, NoView, ui.home)

\* What the handlers of the dashboard do.
NumbersLeft(p, gone, new, out) ==
    /\ gone = AllGone /\ p.graph = Loading /\ p.scope = "all"
    /\ \/ out = {} /\ p.stats = Loading
       \/ \E i \in DOMAIN inFlight :
             /\ out = {inFlight[i]} /\ inFlight[i].cmd = "get_dashboard" /\ p.stats = Fetched(i)
    /\ \/ new = {}
       \/ \E c : /\ new = {c} /\ c.state = "sent"
                 /\ \/ c.cmd = "get_dashboard" /\ c.for = "pane"
                    \/ c.cmd = "get_graph" /\ c.for = "graph" /\ c.arg = "all" /\ Shows(p.stats)
NumbersRead(p, gone, new, out) ==
    /\ gone = {} /\ new = {} /\ p.graph = ui.pane.graph /\ p.scope = ui.pane.scope
    /\ \E i \in DOMAIN inFlight :
          /\ out = {inFlight[i]} /\ inFlight[i].cmd = "get_dashboard" /\ p.stats = Fetched(i)
ScopeChosen(p, gone, new, out) ==
    /\ gone = {"panel", "load"} /\ out = {} /\ p.stats = ui.pane.stats /\ p.graph = Loading
    /\ \E c : /\ new = {c} /\ c.state = "sent" /\ c.cmd = "get_graph" /\ c.for = "graph"
              /\ c.arg = p.scope
GraphRead(p, gone, new, out) ==
    /\ gone = {} /\ new = {} /\ p.stats = ui.pane.stats /\ p.scope = ui.pane.scope
    /\ \E i \in DOMAIN inFlight :
          /\ out = {inFlight[i]} /\ inFlight[i].cmd = "get_graph" /\ p.graph = Fetched(i)
GraphMove(p, gone, new, out) ==
    /\ GraphParts(p, gone) /\ Turn(gone, new, out)
    /\ \/ NumbersLeft(p, gone, new, out) \/ NumbersRead(p, gone, new, out)
       \/ ScopeChosen(p, gone, new, out) \/ GraphRead(p, gone, new, out)
GraphMoves == \E p, gone, new, out : GraphMove(p, gone, new, out)

LEMMA RefreshDashboardMove ==
    ASSUME Shape, AtMostOne, RefreshDashboard
    PROVE  GraphMoves
<1>1. ui.tab = "dashboard"
  BY DEF RefreshDashboard
<1>2. PICK tab, pane, panel, home : ui = View(tab, pane, panel, home)
  BY DEF Shape, UiShape
<1>3. PICK c : c = Cmd("get_dashboard", Null, "pane")
  OBVIOUS
<1>4. Turn(AllGone, {c}, {}) /\ ui' = [ui EXCEPT !.pane = Dashboard, !.panel = NoView]
  <2>1. Clicked([ui EXCEPT !.pane = Dashboard, !.panel = NoView], AllGone,
                <<Cmd("get_dashboard", Null, "pane")>>)
    BY DEF RefreshDashboard, Asked, AllGone
  <2> QED BY <1>3, <2>1, ClickOne
<1>5. ui' = View(ui.tab, Dashboard, NoView, ui.home)
  BY <1>2, <1>4 DEF View
<1>6. DashboardShape(Dashboard) /\ Dashboard.graph = Loading /\ Dashboard.scope = "all"
      /\ Dashboard.stats = Loading
  BY DEF DashboardShape, DashboardPane, Dashboard
<1>7. NumbersLeft(Dashboard, AllGone, {c}, {})
  BY <1>3, <1>6, CmdFacts DEF NumbersLeft
<1>8. GraphParts(Dashboard, AllGone)
  BY <1>1, <1>5, <1>6 DEF GraphParts
<1> QED BY <1>4, <1>7, <1>8 DEF GraphMoves, GraphMove

LEMMA ChooseScopeMove ==
    ASSUME Shape, AtMostOne, NEW s, ChooseScope(s)
    PROVE  GraphMoves
<1>1. ui.tab = "dashboard" /\ Shows(ui.pane.stats)
  BY DEF ChooseScope, GraphShown
<1>2. PICK tab, panel, home, stats, graph, scope, selected :
         ui = View(tab, DashboardPane(stats, graph, scope, selected), panel, home)
  BY <1>1, DashboardUi
<1>3. PICK c : c = Cmd("get_graph", s, "graph")
  OBVIOUS
<1>4. /\ Turn({"panel", "load"}, {c}, {})
      /\ ui' = [ui EXCEPT !.pane.scope = s, !.pane.graph = Loading, !.pane.selected = Null,
                          !.panel = NoView]
  BY <1>3, ClickOne DEF ChooseScope
<1>5. PICK p : p = DashboardPane(stats, Loading, s, Null)
  OBVIOUS
<1>6. ui' = View(ui.tab, p, NoView, ui.home)
  BY <1>2, <1>4, <1>5 DEF View, DashboardPane
<1>7. DashboardShape(p) /\ p.stats = ui.pane.stats /\ p.graph = Loading /\ p.scope = s
  BY <1>2, <1>5 DEF DashboardShape, DashboardPane, View
<1>8. ScopeChosen(p, {"panel", "load"}, {c}, {})
  BY <1>3, <1>7, CmdFacts DEF ScopeChosen
<1>9. GraphParts(p, {"panel", "load"})
  BY <1>1, <1>6, <1>7 DEF GraphParts
<1> QED BY <1>4, <1>8, <1>9 DEF GraphMoves, GraphMove

LEMMA GraphAnsweredMove ==
    ASSUME Shape, AtMostOne, NEW i, GraphAnswered(i)
    PROVE  GraphMoves
<1>1. i \in DOMAIN inFlight /\ inFlight[i].cmd = "get_graph"
  BY DEF GraphAnswered, Answers
<1>2. ui.tab = "dashboard" /\ Shows(ui.pane.stats)
  BY <1>1, CallFacts, RoutedFacts
<1>3. PICK tab, panel, home, stats, graph, scope, selected :
         ui = View(tab, DashboardPane(stats, graph, scope, selected), panel, home)
  BY <1>2, DashboardUi
<1>4. PICK read : read = Fetched(i)
  OBVIOUS
<1>5. Turn({}, {}, {inFlight[i]}) /\ ui' = [ui EXCEPT !.pane.graph = read]
  BY <1>1, <1>4, AnswerNone DEF GraphAnswered
<1>6. PICK p : p = DashboardPane(stats, read, scope, selected)
  OBVIOUS
<1>7. ui' = View(ui.tab, p, ui.panel, ui.home)
  BY <1>3, <1>5, <1>6 DEF View, DashboardPane
<1>8. /\ DashboardShape(p) /\ p.stats = ui.pane.stats /\ p.graph = read
      /\ p.scope = ui.pane.scope /\ p.selected = ui.pane.selected
  BY <1>3, <1>6 DEF DashboardShape, DashboardPane, View
<1>9. GraphRead(p, {}, {}, {inFlight[i]})
  BY <1>1, <1>4, <1>8 DEF GraphRead
<1>10. GraphParts(p, {})
  BY <1>2, <1>7, <1>8 DEF GraphParts
<1> QED BY <1>5, <1>9, <1>10 DEF GraphMoves, GraphMove

LEMMA DashboardAnsweredMove ==
    ASSUME Shape, AtMostOne, NEW i, DashboardAnswered(i)
    PROVE  GraphMoves
<1>1. i \in DOMAIN inFlight /\ inFlight[i].cmd = "get_dashboard"
  BY DEF DashboardAnswered, Answers
<1>2. ui.tab = "dashboard"
  BY <1>1, CallFacts, RoutedFacts
<1>3. PICK tab, panel, home, stats, graph, scope, selected :
         ui = View(tab, DashboardPane(stats, graph, scope, selected), panel, home)
  BY <1>2, DashboardUi
<1>4. PICK stays, pane, read, above :
        /\ stays = (GraphShown /\ Done(i)) /\ read = Fetched(i)
        /\ pane = IF stays THEN ui.pane ELSE Dashboard
        /\ above = IF stays THEN ui.panel ELSE NoView
  OBVIOUS
<1>5. Answered(i, [ui EXCEPT !.pane = [pane EXCEPT !.stats = read],
                             !.panel = IF stays THEN @ ELSE NoView],
               IF stays THEN {} ELSE AllGone,
               IF Done(i) /\ ~stays THEN <<Cmd("get_graph", "all", "graph")>> ELSE <<>>)
  BY <1>4 DEF DashboardAnswered, AllGone
<1>6. PICK p, u : /\ p = [pane EXCEPT !.stats = read]
                  /\ u = [ui EXCEPT !.pane = [pane EXCEPT !.stats = read],
                                    !.panel = IF stays THEN @ ELSE NoView]
  OBVIOUS
<1>7. u = View(ui.tab, p, above, ui.home)
  BY <1>3, <1>4, <1>6 DEF View
<1>8. CASE stays
  <2>1. Answered(i, u, {}, <<>>)
    BY <1>5, <1>6, <1>8
  <2>2. Turn({}, {}, {inFlight[i]}) /\ ui' = u
    BY <1>1, <2>1, AnswerNone
  <2>3. p = DashboardPane(read, graph, scope, selected)
    <3>1. pane = DashboardPane(stats, graph, scope, selected)
      BY <1>3, <1>4, <1>8 DEF View
    <3> QED BY <1>6, <3>1 DEF DashboardPane
  <2>4. /\ DashboardShape(p) /\ p.stats = read /\ p.graph = ui.pane.graph
        /\ p.scope = ui.pane.scope /\ p.selected = ui.pane.selected
    BY <1>3, <2>3 DEF DashboardShape, DashboardPane, View
  <2>5. Shows(ui.pane.stats) /\ Shows(read)
    BY <1>4, <1>8, FetchedFacts DEF GraphShown, Done
  <2>6. ui' = View(ui.tab, p, ui.panel, ui.home)
    BY <1>4, <1>7, <1>8, <2>2
  <2>7. GraphParts(p, {})
    BY <1>2, <2>4, <2>5, <2>6 DEF GraphParts
  <2>8. NumbersRead(p, {}, {}, {inFlight[i]})
    BY <1>1, <1>4, <2>4 DEF NumbersRead
  <2> QED BY <2>2, <2>7, <2>8 DEF GraphMoves, GraphMove
<1>9. CASE ~stays
  <2>1. PICK c : c = Cmd("get_graph", "all", "graph")
    OBVIOUS
  <2>2. PICK new : /\ new = IF Done(i) THEN {c} ELSE {}
    OBVIOUS
  <2>3. Turn(AllGone, new, {inFlight[i]}) /\ ui' = u
    <3>1. CASE Done(i)
      <4>1. Answered(i, u, AllGone, <<Cmd("get_graph", "all", "graph")>>)
        BY <1>5, <1>6, <1>9, <3>1
      <4> QED BY <1>1, <2>1, <2>2, <3>1, <4>1, AnswerOne
    <3>2. CASE ~Done(i)
      <4>1. Answered(i, u, AllGone, <<>>)
        BY <1>5, <1>6, <1>9, <3>2
      <4> QED BY <1>1, <2>2, <3>2, <4>1, AnswerNone
    <3> QED BY <3>1, <3>2
  <2>4. p = DashboardPane(read, Loading, "all", Null)
    <3>1. pane = DashboardPane(Loading, Loading, "all", Null)
      BY <1>4, <1>9 DEF Dashboard, DashboardPane
    <3> QED BY <1>6, <3>1 DEF DashboardPane
  <2>5. DashboardShape(p) /\ p.stats = read /\ p.graph = Loading /\ p.scope = "all"
    BY <2>4 DEF DashboardShape, DashboardPane
  <2>6. ui' = View(ui.tab, p, NoView, ui.home)
    BY <1>4, <1>7, <1>9, <2>3
  <2>7. GraphParts(p, AllGone)
    BY <1>2, <2>5, <2>6 DEF GraphParts
  <2>8. Done(i) => Shows(read)
    BY <1>4, FetchedFacts DEF Done
  <2>9. NumbersLeft(p, AllGone, new, {inFlight[i]})
    BY <1>1, <1>4, <2>1, <2>2, <2>5, <2>8, CmdFacts DEF NumbersLeft
  <2> QED BY <2>3, <2>7, <2>9 DEF GraphMoves, GraphMove
<1> QED BY <1>8, <1>9

LEMMA GraphStepMoves ==
    ASSUME Shape, AtMostOne, GraphStep
    PROVE  GraphMoves
<1> QED BY RefreshDashboardMove, ChooseScopeMove, GraphAnsweredMove, DashboardAnsweredMove
        DEF GraphStep

LEMMA GraphFrame ==
    ASSUME Shape, AtMostOne, NEW p, NEW gone, NEW new, NEW out, GraphMove(p, gone, new, out),
           NEW rs, rs = {"dashboard", "graph"} \cup Facts
    PROVE  /\ Shape' /\ AtMostOne' /\ Frame(rs) /\ ui.tab = "dashboard"
           /\ ui'.pane = p /\ ui'.home = ui.home
           /\ \/ gone = {} /\ ui'.panel = ui.panel /\ p.selected = ui.pane.selected
              \/ {"panel", "load"} \subseteq gone /\ ui'.panel = NoView
           /\ gone \subseteq AllGone
           /\ out \subseteq All(inFlight)
           /\ \A c \in new : c.state = "sent" /\ c.cmd \in {"get_dashboard", "get_graph"}
           /\ \A c \in out : c.cmd \in {"get_dashboard", "get_graph"}
<1>1. Turn(gone, new, out) /\ GraphParts(p, gone) /\ ui.tab = "dashboard" /\ DashboardShape(p)
  BY DEF GraphMove, GraphParts
<1>2. /\ ui' = View(ui'.tab, ui'.pane, ui'.panel, ui'.home) /\ ui'.tab = ui.tab
      /\ ui'.pane = p /\ ui'.home = ui.home
      /\ \/ /\ gone = {} /\ ui'.panel = ui.panel /\ p.selected = ui.pane.selected
            /\ Shows(ui.pane.stats) /\ Shows(p.stats)
         \/ gone = {"panel", "load"} /\ ui'.panel = NoView /\ Shows(ui.pane.stats) /\ Shows(p.stats)
         \/ gone = AllGone /\ ui'.panel = NoView
  BY <1>1 DEF GraphParts, View
<1>3. /\ out \subseteq All(inFlight)
      /\ \A c \in new : /\ c.state = "sent"
                        /\ \/ c.cmd = "get_dashboard" /\ c.for = "pane"
                           \/ c.cmd = "get_graph" /\ c.for = "graph" /\ Shows(p.stats)
      /\ \A c \in out : c.cmd \in {"get_dashboard", "get_graph"}
  <2>1. CASE NumbersLeft(p, gone, new, out)
    BY <2>1 DEF NumbersLeft, All
  <2>2. CASE NumbersRead(p, gone, new, out) \/ GraphRead(p, gone, new, out)
    BY <2>2 DEF NumbersRead, GraphRead, All
  <2>3. CASE ScopeChosen(p, gone, new, out)
    BY <1>2, <2>3 DEF ScopeChosen, AllGone
  <2> QED BY <2>1, <2>2, <2>3 DEF GraphMove
<1>4. UiShape /\ NoView.view = "none"
  BY DEF Shape, NoView
<1>5. UiShape'
  BY <1>1, <1>2, <1>4 DEF UiShape, InSettings, SettingsTabs, Tabs
<1>6. MountsStay(gone, ui, ui')
  BY <1>1, <1>2, <1>4 DEF MountsStay, AllGone
<1>7. \A c \in new : Routed(c, ui')
  BY <1>1, <1>2, <1>3 DEF Routed, Awaiters, PaneOfCmd, SharesCmds, Named
<1>8. Shape' /\ AtMostOne'
  BY <1>1, <1>5, <1>6, <1>7, TurnShape
<1>9. gone \subseteq AllGone
  BY <1>2 DEF AllGone
<1>10. ASSUME NEW c \in All(inFlight), c.for \in gone PROVE Touches(c) \subseteq rs
  <2>1. Routed(c, ui) /\ Named(c) /\ c.for \in {"graph", "panel", "load"}
    BY <1>9, <1>10 DEF Shape, Routing, Routed, AllGone
  <2>2. ui.panel.view \notin {"scope", "connect"}
    BY <1>1, <1>4 DEF UiShape
  <2>3. c.cmd \in {"get_graph", "get_fact", "set_fact_sharing"}
    <3>1. c.for = "panel" => ui.panel.view = PanelOfCmd(c.cmd)
      BY <2>1 DEF Routed
    <3> QED BY <2>1, <2>2, <3>1 DEF Routed, Awaiters, PanelOfCmd, SharesCmds
  <2> QED BY <2>1, <2>3, TouchesFacts DEF Named
<1>11. ASSUME NEW r, r \notin rs PROVE On(inFlight', r) = On(inFlight, r)
  <2>1. \A c \in new \cup out : r \notin Touches(c)
    BY <1>3, <1>11, TouchesFacts
  <2>2. \A c \in All(inFlight) : c.for \in gone => r \notin Touches(c)
    BY <1>10, <1>11
  <2> QED BY <1>1, <2>1, <2>2, Untouched
<1>12. Frame(rs)
  <2>1. \A c \in new : ~Saving(c)
    BY <1>3 DEF Saving
  <2> QED BY <1>1, <1>2, <1>11, <2>1 DEF Frame, Turn, Traffic, Watched, SavesKept
<1> QED BY <1>1, <1>2, <1>3, <1>8, <1>9, <1>12 DEF AllGone

\* A control that is gone shows nothing; a save it sent goes on.
LEMMA ControlGone ==
    ASSUME Shape, Shape', ControlInv, FactInv, NEW gone, NEW new, NEW out, Turn(gone, new, out),
           ui'.panel = NoView,
           \A c \in new : c.cmd \notin {"get_fact", "set_fact_sharing"}
    PROVE  ControlInv' /\ FactInv'
<1>1. ui'.panel.view = "none" /\ vault' = vault
  BY DEF NoView, Turn
<1>2. \A c \in new : ~Saving(c)
  BY DEF Saving
<1>3. OneSave(inFlight')
  BY <1>2 DEF Turn, SavesKept, ControlInv
<1>4. \A c \in All(inFlight') : ~Saving(c)
  <2> SUFFICES ASSUME NEW c \in All(inFlight'), Saving(c) PROVE FALSE
    OBVIOUS
  <2>1. Routed(c, ui')
    BY DEF Shape, Routing
  <2>2. ui'.panel.view = "control"
    BY <2>1, RoutedFacts DEF Saving
  <2> QED BY <1>1, <2>2
<1>5. ControlInv'
  BY <1>3, <1>4 DEF ControlInv
<1>6. ASSUME NEW f \in Facts, Alone(f)' PROVE FactCalls(f)'
  <2>1. Alone(f)
    BY <1>6, OnlyGrows
  <2>2. FactCalls(f)
    BY <2>1 DEF FactInv
  <2>3. ASSUME NEW c \in On(inFlight', f)
        PROVE  /\ c.cmd = "get_fact" /\ c.state = "done" => c.answer = vault.sharing[f]
               /\ c.cmd = "set_fact_sharing" /\ c.state = "sent" => KeptBut(f, c.arg)
               /\ c.cmd = "set_fact_sharing" /\ c.state = "done" => Stored(f, c.arg)
    <3>1. CASE c \in new
      BY <3>1
    <3>2. CASE c \notin new
      <4>1. PICK d \in On(inFlight, f) :
              c.cmd = d.cmd /\ c.arg = d.arg /\ c.state = d.state /\ c.answer = d.answer
        BY <3>2, OnMoved
      <4> QED BY <2>2, <4>1 DEF FactCalls
    <3> QED BY <3>1, <3>2
  <2> QED BY <1>1, <2>3 DEF FactCalls, KeptBut, Stored
<1>7. FactInv'
  BY <1>1, <1>6 DEF FactInv
<1> QED BY <1>5, <1>7

LEMMA DashboardOwn ==
    ASSUME Shape, AtMostOne, DashboardInv, NEW p, NEW gone, NEW new, NEW out,
           GraphMove(p, gone, new, out)
    PROVE  DashboardInv'
<1>1. PICK rs : rs = {"dashboard", "graph"} \cup Facts
  OBVIOUS
<1>2. /\ ui.tab = "dashboard" /\ ui'.pane = p /\ vault' = vault /\ spent'.faults = spent.faults
      /\ ui'.tab = ui.tab /\ gone \subseteq AllGone /\ out \subseteq All(inFlight)
      /\ \A c \in new : c.state = "sent" /\ c.cmd \in {"get_dashboard", "get_graph"}
      /\ \A c \in out : c.cmd \in {"get_dashboard", "get_graph"}
      /\ Turn(gone, new, out)
  <2>1. /\ Frame(rs) /\ ui.tab = "dashboard" /\ ui'.pane = p /\ gone \subseteq AllGone
        /\ out \subseteq All(inFlight)
        /\ \A c \in new : c.state = "sent" /\ c.cmd \in {"get_dashboard", "get_graph"}
        /\ \A c \in out : c.cmd \in {"get_dashboard", "get_graph"}
    BY <1>1, GraphFrame
  <2> QED BY <2>1 DEF Frame, GraphMove
<1> SUFFICES ASSUME spent.faults = 0, ~(\E c \in All(inFlight') : Bumps(c))
             PROVE  /\ Shows(p.stats) => p.stats.data = Now
                    /\ \A c \in All(inFlight') :
                         c.cmd = "get_dashboard" /\ c.state = "done" => c.answer = Now
  BY <1>2 DEF DashboardInv, Now
<1>3. ~(\E c \in All(inFlight) : Bumps(c))
  <2> SUFFICES ASSUME NEW c \in All(inFlight), Bumps(c) PROVE c \in All(inFlight')
    OBVIOUS
  <2>1. Routed(c, ui) /\ c.cmd \in {"queue_answer", "trigger_ingest"} /\ c \notin out
    BY <1>2 DEF Shape, Routing, Bumps
  <2>2. c.for \in {"pane", "home", "shell"}
    BY <2>1, RoutedFacts
  <2>3. c.for \notin gone
    BY <1>2, <2>2 DEF AllGone
  <2>4. c \in On(inFlight, "queue")
    BY <2>1, TouchesFacts DEF On
  <2>5. c \in On(inFlight', "queue")
    BY <1>2, <2>1, <2>3, <2>4, OnMoved
  <2> QED BY <2>5 DEF On
<1>4. /\ Shows(ui.pane.stats) => ui.pane.stats.data = Now
      /\ \A c \in All(inFlight) : c.cmd = "get_dashboard" /\ c.state = "done" => c.answer = Now
  BY <1>2, <1>3 DEF DashboardInv
<1>5. ASSUME NEW c \in All(inFlight'), c.cmd = "get_dashboard", c.state = "done"
      PROVE  c.answer = Now
  <2>1. c \in On(inFlight', "dashboard") /\ c \notin new
    BY <1>2, <1>5, TouchesFacts DEF On
  <2>2. PICK d \in On(inFlight, "dashboard") :
          c.cmd = d.cmd /\ c.state = d.state /\ c.answer = d.answer
    BY <1>2, <2>1, OnMoved
  <2> QED BY <1>4, <1>5, <2>2 DEF On
<1>6. ASSUME Shows(p.stats) PROVE p.stats.data = Now
  <2>1. CASE p.stats = ui.pane.stats
    BY <1>4, <1>6, <2>1
  <2>2. ASSUME NEW i \in DOMAIN inFlight, inFlight[i].cmd = "get_dashboard", p.stats = Fetched(i)
        PROVE  p.stats.data = Now
    <3>1. inFlight[i] \in All(inFlight)
      BY CallFacts
    <3> QED BY <1>4, <1>6, <2>2, <3>1, FetchedFacts
  <2>3. p.stats # Loading
    BY <1>6, StateFacts
  <2> QED BY <2>1, <2>2, <2>3 DEF GraphMove, NumbersLeft, NumbersRead, ScopeChosen, GraphRead
<1> QED BY <1>5, <1>6

LEMMA GraphOwn ==
    ASSUME Shape, AtMostOne, GraphInv, NEW p, NEW gone, NEW new, NEW out,
           GraphMove(p, gone, new, out)
    PROVE  GraphInv'
<1>1. PICK rs : rs = {"dashboard", "graph"} \cup Facts
  OBVIOUS
<1>2. /\ ui.tab = "dashboard" /\ ui'.pane = p /\ ui'.tab = ui.tab
      /\ gone \subseteq AllGone /\ out \subseteq All(inFlight) /\ Turn(gone, new, out)
  <2>1. /\ Frame(rs) /\ ui.tab = "dashboard" /\ ui'.pane = p /\ gone \subseteq AllGone
        /\ out \subseteq All(inFlight)
    BY <1>1, GraphFrame
  <2> QED BY <2>1 DEF Frame, GraphMove
<1> SUFFICES ASSUME Alone("graph")'
             PROVE  /\ \A c \in On(inFlight', "graph") :
                          /\ c.arg = p.scope
                          /\ c.state = "done" => c.answer = GraphSet(c.arg)
                    /\ Shows(p.graph) => p.graph.data = GraphSet(p.scope)
  BY <1>2 DEF GraphInv
<1>3. Alone("graph") /\ "graph" \notin seen'.overlapped
  BY <1>2, OnlyGrows DEF Alone
<1>4. /\ \A c \in On(inFlight, "graph") :
           /\ c.arg = ui.pane.scope
           /\ c.state = "done" => c.answer = GraphSet(c.arg)
      /\ Shows(ui.pane.graph) => ui.pane.graph.data = GraphSet(ui.pane.scope)
  BY <1>2, <1>3 DEF GraphInv
<1>5. CASE NumbersLeft(p, gone, new, out)
  <2>1. ~Shows(p.graph)
    BY <1>5, StateFacts DEF NumbersLeft
  <2>2. ASSUME NEW c \in On(inFlight', "graph") PROVE c \in new
    <3> SUFFICES ASSUME c \notin new PROVE FALSE
      OBVIOUS
    <3>1. PICK d \in On(inFlight, "graph") :
            /\ c = Moved(d, gone) /\ Matters(c) /\ c.cmd = d.cmd /\ c.for = Heir(d, gone)
      BY <1>2, OnMoved
    <3>2. Routed(d, ui) /\ Named(d)
      BY DEF Shape, Routing, On, Routed
    <3>3. d.cmd = "get_graph" /\ d.for = "graph"
      BY <3>2, Touched, RoutedFacts DEF On
    <3>4. c.for = "nobody"
      <4>1. d.for \in gone
        BY <1>5, <3>3 DEF NumbersLeft, AllGone
      <4> QED BY <3>1, <3>3, <4>1, HeirParts
    <3>5. c.cmd \in Reads
      BY <3>1, <3>3 DEF Reads
    <3> QED BY <3>1, <3>4, <3>5 DEF Matters
  <2>3. ASSUME NEW c \in On(inFlight', "graph") PROVE c.arg = p.scope /\ c.state = "sent"
    <3>1. c \in new
      BY <2>2
    <3>2. c.state = "sent" /\ (c.cmd = "get_dashboard" \/ (c.cmd = "get_graph" /\ c.arg = "all"))
      BY <1>5, <3>1 DEF NumbersLeft
    <3>3. c.cmd # "get_dashboard"
      BY TouchesFacts DEF On
    <3> QED BY <1>5, <3>2, <3>3 DEF NumbersLeft
  <2> QED BY <2>1, <2>3
<1>6. CASE ScopeChosen(p, gone, new, out)
  <2>1. ~Shows(p.graph)
    BY <1>6, StateFacts DEF ScopeChosen
  <2>2. PICK c : new = {c} /\ c.state = "sent" /\ c.cmd = "get_graph" /\ c.arg = p.scope
    BY <1>6 DEF ScopeChosen
  <2>3. \E x \in new \cup out : "graph" \in Touches(x)
    BY <2>2, TouchesFacts
  <2>4. On(inFlight', "graph") = {x \in new : "graph" \in Touches(x)}
    BY <1>2, <1>3, <2>3, TouchedNew
  <2> QED BY <2>1, <2>2, <2>4
<1>7. CASE GraphRead(p, gone, new, out)
  <2>1. PICK i \in DOMAIN inFlight :
          /\ out = {inFlight[i]} /\ inFlight[i].cmd = "get_graph" /\ p.graph = Fetched(i)
          /\ new = {} /\ p.scope = ui.pane.scope
    BY <1>7 DEF GraphRead
  <2>2. "graph" \in Touches(inFlight[i]) /\ inFlight[i] \in On(inFlight, "graph")
    BY <1>2, <2>1, TouchesFacts DEF On
  <2>3. On(inFlight', "graph") = {}
    <3>1. \E x \in new \cup out : "graph" \in Touches(x)
      BY <2>1, <2>2
    <3> QED BY <1>2, <1>3, <2>1, <3>1, TouchedNew
  <2>4. Shows(p.graph) => p.graph.data = GraphSet(p.scope)
    BY <1>4, <2>1, <2>2, FetchedFacts
  <2> QED BY <2>3, <2>4
<1>8. CASE NumbersRead(p, gone, new, out)
  <2>1. /\ gone = {} /\ new = {} /\ p.graph = ui.pane.graph /\ p.scope = ui.pane.scope
        /\ \A c \in out : c.cmd = "get_dashboard"
    BY <1>8 DEF NumbersRead
  <2>2. \A c \in new \cup out : "graph" \notin Touches(c)
    BY <2>1, TouchesFacts
  <2>3. On(inFlight', "graph") = On(inFlight, "graph")
    BY <1>2, <2>1, <2>2, Untouched
  <2> QED BY <1>4, <2>1, <2>3
<1> QED BY <1>5, <1>6, <1>7, <1>8 DEF GraphMove

LEMMA GraphKeeps ==
    ASSUME ViewsIInv, GraphStep
    PROVE  ViewsIInv'
<1>1. PICK p, gone, new, out : GraphMove(p, gone, new, out)
  BY GraphStepMoves DEF ViewsIInv, GraphMoves
<1>2. PICK rs : rs = {"dashboard", "graph"} \cup Facts
  OBVIOUS
<1>3. /\ Shape' /\ AtMostOne' /\ Frame(rs) /\ ui.tab = "dashboard"
      /\ ui'.pane = p /\ ui'.home = ui.home
      /\ \/ gone = {} /\ ui'.panel = ui.panel /\ p.selected = ui.pane.selected
         \/ {"panel", "load"} \subseteq gone /\ ui'.panel = NoView
      /\ \A c \in new : c.state = "sent" /\ c.cmd \in {"get_dashboard", "get_graph"}
      /\ \A c \in out : c.cmd \in {"get_dashboard", "get_graph"}
      /\ Turn(gone, new, out)
  BY <1>1, <1>2, GraphFrame DEF ViewsIInv, GraphMove
<1>4. DashboardInv' /\ GraphInv'
  BY <1>1, DashboardOwn, GraphOwn DEF ViewsIInv
<1>5. /\ "shares" \notin rs /\ "sources" \notin rs /\ "transfers" \notin rs /\ "queue" \notin rs
      /\ "lock" \notin rs /\ "config" \notin rs /\ "scope" \notin rs /\ "thread" \notin rs
  BY <1>2, PageNames DEF Resources
<1>6. rs \cap {"config", "lock"} = {} /\ rs \cap {"thread", "lock"} = {}
  BY <1>5
<1>7. MintedInv' /\ SharesInv' /\ SourcesInv' /\ TransfersInv' /\ QueueInv' /\ LockInv'
      /\ ThreadInv' /\ PersonaInv'
  BY <1>3, <1>5, <1>6, FrameKeeps
<1>8. ConfigInv' /\ HomeInv'
  BY <1>3, <1>5, <1>6, FrameKeeps
<1>9. ScopeInv'
  <2>1. ui'.panel.view # "scope"
    <3>1. UiShape' /\ NoView.view = "none" /\ ui'.tab = "dashboard"
      BY <1>3 DEF Shape, NoView, Frame
    <3> QED BY <3>1 DEF UiShape
  <2> QED BY <1>3, <1>5, <2>1, FrameKeeps
<1>10. ControlInv' /\ FactInv'
  <2>1. CASE gone = {} /\ ui'.panel = ui.panel /\ p.selected = ui.pane.selected
    <3>1. PICK gr : gr = {"dashboard", "graph"}
      OBVIOUS
    <3>2. \A c \in new \cup out : Touches(c) \subseteq gr
      BY <1>3, <3>1, TouchesFacts
    <3>3. \A r : r \notin gr => On(inFlight', r) = On(inFlight, r)
      <4> SUFFICES ASSUME NEW r, r \notin gr PROVE On(inFlight', r) = On(inFlight, r)
        OBVIOUS
      <4> QED BY <1>3, <2>1, <3>2, Untouched DEF ViewsIInv
    <3>4. Frame(gr)
      BY <1>3, <3>3 DEF Frame
    <3>5. Facts \cap gr = {}
      BY <3>1, PageNames DEF Resources
    <3> QED BY <1>3, <2>1, <3>4, <3>5, FrameKeeps
  <2>2. CASE ui'.panel = NoView
    <3>1. \A c \in new : c.cmd \notin {"get_fact", "set_fact_sharing"}
      BY <1>3
    <3> QED BY <1>3, <2>2, <3>1, ControlGone DEF ViewsIInv
  <2> QED BY <1>3, <2>1, <2>2
<1> QED BY <1>3, <1>4, <1>7, <1>8, <1>9, <1>10 DEF ViewsIInv

-----------------------------------------------------------------------------
(* The sharing control of a page.                                          *)

ControlStep ==
    \/ \E f \in Facts : Select(f)
    \/ \E v \in {"Private", "Shared"} : PickVisibility(v)
    \/ \E k \in {"none", "topic"} : PickCategory(k)
    \/ SaveSharing
    \/ \E i \in DOMAIN inFlight : FactAnswered(i) \/ SharingSaved(i)

ControlParts(p, sel, gone) ==
    /\ ui.tab = "dashboard" /\ Shows(ui.pane.stats)
    /\ ui' = View(ui.tab, DashboardPane(ui.pane.stats, ui.pane.graph, ui.pane.scope, sel), p,
                  ui.home)
    /\ \/ /\ gone = {} /\ ui.panel.view = "control" /\ p.view = "control" /\ ControlShape(p)
          /\ sel = ui.pane.selected /\ (Shows(p.fact) => p.fact.data = sel)
       \/ /\ gone = {"load"} /\ sel \in Facts /\ p.view = "control" /\ ControlShape(p)
          /\ p.fact = Loading
       \/ gone = {"panel", "load"} /\ p = NoView

\* What the handlers of the control do.
FieldsSame(p) ==
    /\ p.visibility = ui.panel.visibility /\ p.category = ui.panel.category
    /\ p.picked = ui.panel.picked
PageClosed(p, sel, gone, new, out) == gone = {"panel", "load"} /\ new = {} /\ out = {}
PageChosen(p, sel, gone, new, out) ==
    /\ gone = {"load"} /\ out = {} /\ p.saved = FALSE
    /\ \E c : /\ new = {c} /\ c.cmd = "get_fact" /\ c.arg.fact = sel /\ c.for = "load"
              /\ c.state = "sent"
    /\ ui.panel.view = "control" => p.busy = ui.panel.busy
PagePicked(p, sel, gone, new, out) ==
    /\ gone = {} /\ new = {} /\ out = {} /\ p.saved = FALSE /\ ~ui.panel.busy
    /\ p.fact = ui.panel.fact
    /\ \/ p.picked = ui.panel.picked \cup {"visibility"} /\ p.category = ui.panel.category
       \/ p.picked = ui.panel.picked \cup {"category"} /\ p.visibility = ui.panel.visibility
PageSent(p, sel, gone, new, out) ==
    /\ gone = {} /\ out = {} /\ ~ui.panel.busy /\ p.busy = TRUE /\ p.saved = FALSE
    /\ Shows(ui.panel.fact) /\ p.fact = ui.panel.fact /\ FieldsSame(p)
    /\ \E c : /\ new = {c} /\ c.cmd = "set_fact_sharing" /\ c.for = "panel" /\ c.state = "sent"
              /\ c.arg.fact = sel /\ c.arg.visibility = p.visibility
              /\ c.arg.category = p.category /\ c.arg.picked = p.picked
PageKnown(p, sel, gone, new, out) ==
    /\ gone = {} /\ new = {} /\ p.busy = ui.panel.busy /\ p.saved = ui.panel.saved
    /\ \E i \in DOMAIN inFlight :
          /\ out = {inFlight[i]} /\ inFlight[i].cmd = "get_fact" /\ inFlight[i].arg.fact = sel
          /\ \/ /\ inFlight[i].state = "done"
                /\ p.visibility = inFlight[i].answer.visibility
                /\ p.category = inFlight[i].answer.category
             \/ FieldsSame(p) /\ p.fact = ui.panel.fact
PageStored(p, sel, gone, new, out) ==
    /\ gone = {} /\ new = {} /\ FieldsSame(p) /\ p.fact = ui.panel.fact
    /\ \E i \in DOMAIN inFlight :
          /\ out = {inFlight[i]} /\ inFlight[i].cmd = "set_fact_sharing"
          /\ inFlight[i].for = "panel" /\ p.saved = (inFlight[i].state = "done")
ControlMove(p, sel, gone, new, out) ==
    /\ ControlParts(p, sel, gone) /\ Turn(gone, new, out)
    /\ \/ PageClosed(p, sel, gone, new, out) \/ PageChosen(p, sel, gone, new, out)
       \/ PagePicked(p, sel, gone, new, out) \/ PageSent(p, sel, gone, new, out)
       \/ PageKnown(p, sel, gone, new, out) \/ PageStored(p, sel, gone, new, out)
ControlMoves == \E p, sel, gone, new, out : ControlMove(p, sel, gone, new, out)

\* A mounted control, field by field.
LEMMA ControlFields ==
    ASSUME Shape, ui.panel.view = "control"
    PROVE  /\ ui.tab = "dashboard" /\ Shows(ui.pane.stats) /\ ui.pane.selected \in Facts
           /\ Shows(ui.panel.fact) => ui.panel.fact.data = ui.pane.selected
           /\ \E tab, home, stats, graph, scope, selected, fact, visibility, category, picked,
                 busy, error, sav :
                ui = View(tab, DashboardPane(stats, graph, scope, selected),
                          ControlPanel(fact, visibility, category, picked, busy, error, sav), home)
<1>1. NoView.view = "none"
  BY DEF NoView
<1>2. /\ ControlShape(ui.panel) /\ DashboardShape(ui.pane)
      /\ ui.tab = "dashboard" /\ Shows(ui.pane.stats) /\ ui.pane.selected \in Facts
      /\ Shows(ui.panel.fact) => ui.panel.fact.data = ui.pane.selected
  BY <1>1 DEF Shape, UiShape
<1>3. ui = View(ui.tab, ui.pane, ui.panel, ui.home)
  BY DEF Shape, UiShape
<1> QED BY <1>2, <1>3 DEF ControlShape, DashboardShape

\* A control that stays: only the fields in p change.
LEMMA ControlOnly ==
    ASSUME Shape, ui.panel.view = "control", NEW p, ui' = View(ui.tab, ui.pane, p, ui.home),
           p.view = "control", ControlShape(p),
           \/ p.fact = ui.panel.fact
           \/ Shows(p.fact) => p.fact.data = ui.pane.selected
    PROVE  ControlParts(p, ui.pane.selected, {})
<1>1. /\ ui.tab = "dashboard" /\ Shows(ui.pane.stats)
      /\ Shows(ui.panel.fact) => ui.panel.fact.data = ui.pane.selected
  BY ControlFields
<1>2. ui.pane = DashboardPane(ui.pane.stats, ui.pane.graph, ui.pane.scope, ui.pane.selected)
  BY <1>1 DEF Shape, UiShape, DashboardShape
<1> QED BY <1>1, <1>2 DEF ControlParts

LEMMA SelectMove ==
    ASSUME Shape, AtMostOne, NEW f \in Facts, Select(f)
    PROVE  ControlMoves
<1>1. ui.tab = "dashboard" /\ Shows(ui.pane.stats)
  BY DEF Select, GraphShown
<1>2. PICK tab, panel, home, stats, graph, scope, selected :
         ui = View(tab, DashboardPane(stats, graph, scope, selected), panel, home)
  BY <1>1, DashboardUi
<1>3. CASE f = ui.pane.selected
  <2>1. Turn({"panel", "load"}, {}, {})
        /\ ui' = [ui EXCEPT !.pane.selected = Null, !.panel = NoView]
    BY <1>3, ClickNone DEF Select
  <2>2. ui' = View(ui.tab, DashboardPane(ui.pane.stats, ui.pane.graph, ui.pane.scope, Null), NoView,
                   ui.home)
    BY <1>2, <2>1 DEF View, DashboardPane
  <2>3. ControlParts(NoView, Null, {"panel", "load"})
    BY <1>1, <2>2 DEF ControlParts
  <2> QED BY <2>1, <2>3 DEF ControlMoves, ControlMove, PageClosed
<1>4. CASE f # ui.pane.selected
  <2>1. PICK old : old = IF ui.panel = NoView THEN Control ELSE ui.panel
    OBVIOUS
  <2>2. PICK p : p = [old EXCEPT !.fact = Loading, !.error = FALSE, !.saved = FALSE]
    OBVIOUS
  <2>3. PICK arg : arg = [fact |-> f]
    OBVIOUS
  <2>4. Clicked([ui EXCEPT !.pane.selected = f, !.panel = p], {"load"},
                <<Cmd("get_fact", arg, "load")>>)
    BY <1>4, <2>1, <2>2, <2>3 DEF Select
  <2>5. PICK c : c = Cmd("get_fact", arg, "load")
    OBVIOUS
  <2>6. Turn({"load"}, {c}, {}) /\ ui' = [ui EXCEPT !.pane.selected = f, !.panel = p]
    BY <2>4, <2>5, ClickOne
  <2>7. ui' = View(ui.tab, DashboardPane(ui.pane.stats, ui.pane.graph, ui.pane.scope, f), p,
                   ui.home)
    BY <1>2, <2>6 DEF View, DashboardPane
  <2>8. NoView.view = "none"
    BY DEF NoView
  <2>9. /\ p.view = "control" /\ ControlShape(p) /\ p.fact = Loading /\ p.saved = FALSE
        /\ ui.panel.view = "control" => p.busy = ui.panel.busy
    <3>1. \E fact, visibility, category, picked, busy, error, sav :
             old = ControlPanel(fact, visibility, category, picked, busy, error, sav)
      <4>1. CASE ui.panel = NoView
        BY <2>1, <4>1 DEF Control, ControlPanel
      <4>2. CASE ui.panel # NoView
        <5>1. ControlShape(ui.panel)
          BY <1>1, <4>2 DEF Shape, UiShape
        <5> QED BY <2>1, <4>2, <5>1 DEF ControlShape
      <4> QED BY <4>1, <4>2
    <3>2. PICK fact, visibility, category, picked, busy, error, sav :
             old = ControlPanel(fact, visibility, category, picked, busy, error, sav)
      BY <3>1
    <3>3. p = ControlPanel(Loading, visibility, category, picked, busy, FALSE, FALSE)
      BY <2>2, <3>2 DEF ControlPanel
    <3>4. ui.panel.view = "control" => busy = ui.panel.busy
      BY <2>1, <2>8, <3>2 DEF ControlPanel
    <3> QED BY <3>3, <3>4 DEF ControlPanel, ControlShape
  <2>10. PageChosen(p, f, {"load"}, {c}, {})
    <3>1. /\ c.cmd = "get_fact" /\ c.arg = arg /\ c.for = "load" /\ c.state = "sent"
      BY <2>5, CmdFacts
    <3>2. c.arg.fact = f
      BY <2>3, <3>1
    <3> QED BY <2>9, <3>1, <3>2 DEF PageChosen
  <2>11. ControlParts(p, f, {"load"})
    BY <1>1, <2>7, <2>9 DEF ControlParts
  <2> QED BY <2>6, <2>10, <2>11 DEF ControlMoves, ControlMove
<1> QED BY <1>3, <1>4

LEMMA PickMove ==
    ASSUME Shape, AtMostOne, (\E v : PickVisibility(v)) \/ (\E k : PickCategory(k))
    PROVE  ControlMoves
<1>1. ui.panel.view = "control" /\ ~ui.panel.busy /\ Shows(ui.panel.fact)
  BY DEF PickVisibility, PickCategory, ControlEnabled
<1>2. PICK tab, home, stats, graph, scope, selected, fact, visibility, category, picked,
           busy, error, sav :
         ui = View(tab, DashboardPane(stats, graph, scope, selected),
                   ControlPanel(fact, visibility, category, picked, busy, error, sav), home)
  BY <1>1, ControlFields
<1>3. CASE \E v : PickVisibility(v)
  <2>1. PICK v : PickVisibility(v)
    BY <1>3
  <2>2. Turn({}, {}, {}) /\ ui' = [ui EXCEPT !.panel.visibility = v, !.panel.saved = FALSE,
                                             !.panel.picked = @ \cup {"visibility"}]
    BY <2>1, ClickNone DEF PickVisibility
  <2>3. PICK more : more = picked \cup {"visibility"}
    OBVIOUS
  <2>4. ui' = [ui EXCEPT !.panel.visibility = v, !.panel.saved = FALSE, !.panel.picked = more]
    BY <1>2, <2>2, <2>3 DEF View, ControlPanel
  <2>5. PICK p : p = ControlPanel(fact, v, category, more, busy, error, FALSE)
    OBVIOUS
  <2>6. ui' = View(ui.tab, ui.pane, p, ui.home)
    BY <1>2, <2>4, <2>5, ZenonT(40) DEF View, ControlPanel
  <2>7. /\ p.view = "control" /\ ControlShape(p) /\ p.fact = ui.panel.fact
        /\ p.saved = FALSE /\ p.picked = ui.panel.picked \cup {"visibility"}
        /\ p.category = ui.panel.category
    BY <1>2, <2>3, <2>5 DEF View, ControlPanel, ControlShape
  <2>8. ControlParts(p, ui.pane.selected, {})
    BY <1>1, <2>6, <2>7, ControlOnly
  <2>9. PagePicked(p, ui.pane.selected, {}, {}, {})
    BY <1>1, <2>7 DEF PagePicked
  <2> QED BY <2>2, <2>8, <2>9 DEF ControlMoves, ControlMove
<1>4. CASE \E k : PickCategory(k)
  <2>1. PICK k : PickCategory(k)
    BY <1>4
  <2>2. Turn({}, {}, {}) /\ ui' = [ui EXCEPT !.panel.category = k, !.panel.saved = FALSE,
                                             !.panel.picked = @ \cup {"category"}]
    BY <2>1, ClickNone DEF PickCategory
  <2>3. PICK more : more = picked \cup {"category"}
    OBVIOUS
  <2>4. ui' = [ui EXCEPT !.panel.category = k, !.panel.saved = FALSE, !.panel.picked = more]
    BY <1>2, <2>2, <2>3 DEF View, ControlPanel
  <2>5. PICK p : p = ControlPanel(fact, visibility, k, more, busy, error, FALSE)
    OBVIOUS
  <2>6. ui' = View(ui.tab, ui.pane, p, ui.home)
    BY <1>2, <2>4, <2>5, ZenonT(40) DEF View, ControlPanel
  <2>7. /\ p.view = "control" /\ ControlShape(p) /\ p.fact = ui.panel.fact
        /\ p.saved = FALSE /\ p.picked = ui.panel.picked \cup {"category"}
        /\ p.visibility = ui.panel.visibility
    BY <1>2, <2>3, <2>5 DEF View, ControlPanel, ControlShape
  <2>8. ControlParts(p, ui.pane.selected, {})
    BY <1>1, <2>6, <2>7, ControlOnly
  <2>9. PagePicked(p, ui.pane.selected, {}, {}, {})
    BY <1>1, <2>7 DEF PagePicked
  <2> QED BY <2>2, <2>8, <2>9 DEF ControlMoves, ControlMove
<1> QED BY <1>3, <1>4

LEMMA SaveSharingMove ==
    ASSUME Shape, AtMostOne, SaveSharing
    PROVE  ControlMoves
<1>1. ui.panel.view = "control" /\ ~ui.panel.busy /\ Shows(ui.panel.fact)
  BY DEF SaveSharing, ControlEnabled
<1>2. PICK tab, home, stats, graph, scope, selected, fact, visibility, category, picked,
           busy, error, sav :
         ui = View(tab, DashboardPane(stats, graph, scope, selected),
                   ControlPanel(fact, visibility, category, picked, busy, error, sav), home)
  BY <1>1, ControlFields
<1>3. PICK arg : arg = [fact |-> ui.pane.selected, visibility |-> ui.panel.visibility,
                        category |-> ui.panel.category, picked |-> ui.panel.picked]
  OBVIOUS
<1>4. PICK c : c = Cmd("set_fact_sharing", arg, "panel")
  OBVIOUS
<1>5. /\ Turn({}, {c}, {})
      /\ ui' = [ui EXCEPT !.panel.busy = TRUE, !.panel.error = FALSE, !.panel.saved = FALSE]
  BY <1>3, <1>4, ClickOne DEF SaveSharing
<1>6. PICK p : p = ControlPanel(fact, visibility, category, picked, TRUE, FALSE, FALSE)
  OBVIOUS
<1>7. ui' = View(ui.tab, ui.pane, p, ui.home)
  BY <1>2, <1>5, <1>6, ZenonT(40) DEF View, ControlPanel
<1>8. /\ p.view = "control" /\ ControlShape(p) /\ p.fact = ui.panel.fact /\ FieldsSame(p)
      /\ p.saved = FALSE /\ p.busy = TRUE
  BY <1>2, <1>6 DEF View, ControlPanel, ControlShape, FieldsSame
<1>9. ControlParts(p, ui.pane.selected, {})
  BY <1>1, <1>7, <1>8, ControlOnly
<1>10. /\ c.cmd = "set_fact_sharing" /\ c.for = "panel" /\ c.state = "sent" /\ c.arg = arg
  BY <1>4, CmdFacts
<1>11. /\ c.arg.fact = ui.pane.selected /\ c.arg.visibility = p.visibility
       /\ c.arg.category = p.category /\ c.arg.picked = p.picked
  BY <1>3, <1>8, <1>10 DEF FieldsSame
<1>12. PageSent(p, ui.pane.selected, {}, {c}, {})
  BY <1>1, <1>8, <1>10, <1>11 DEF PageSent
<1> QED BY <1>5, <1>9, <1>12 DEF ControlMoves, ControlMove

LEMMA FactAnsweredMove ==
    ASSUME Shape, AtMostOne, NEW i, FactAnswered(i)
    PROVE  ControlMoves
<1>1. i \in DOMAIN inFlight /\ inFlight[i].cmd = "get_fact"
  BY DEF FactAnswered, Answers
<1>2. ui.panel.view = "control" /\ inFlight[i].arg.fact = ui.pane.selected
  BY <1>1, CallFacts, RoutedFacts
<1>3. PICK tab, home, stats, graph, scope, selected, fact, visibility, category, picked,
           busy, error, sav :
         ui = View(tab, DashboardPane(stats, graph, scope, selected),
                   ControlPanel(fact, visibility, category, picked, busy, error, sav), home)
  BY <1>2, ControlFields
<1>4. CASE Done(i)
  <2>1. PICK known, v, k : /\ known = Ready(inFlight[i].arg.fact)
                           /\ v = inFlight[i].answer.visibility
                           /\ k = inFlight[i].answer.category
    OBVIOUS
  <2>2. Answered(i, [ui EXCEPT !.panel.fact = known, !.panel.visibility = v, !.panel.category = k,
                               !.panel.picked = {}], {}, <<>>)
    BY <1>4, <2>1 DEF FactAnswered
  <2>3. PICK none : none = {}
    OBVIOUS
  <2>4. /\ Turn({}, {}, {inFlight[i]})
        /\ ui' = [ui EXCEPT !.panel.fact = known, !.panel.visibility = v, !.panel.category = k,
                            !.panel.picked = none]
    BY <1>1, <2>2, <2>3, AnswerNone
  <2>10. PICK p : p = ControlPanel(known, v, k, none, busy, error, sav)
    OBVIOUS
  <2>5. ui' = View(ui.tab, ui.pane, p, ui.home)
    <3>1. PICK a : a = [ui EXCEPT !.panel.fact = known]
      OBVIOUS
    <3>2. PICK b : b = [a EXCEPT !.panel.visibility = v]
      OBVIOUS
    <3>3. PICK c : c = [b EXCEPT !.panel.category = k]
      OBVIOUS
    <3>4. ui' = [c EXCEPT !.panel.picked = none]
      BY <2>4, <3>1, <3>2, <3>3
    <3>5. PICK pane : pane = DashboardPane(stats, graph, scope, selected)
      OBVIOUS
    <3>6. ui = View(tab, pane,
                    ControlPanel(fact, visibility, category, picked, busy, error, sav), home)
      BY <1>3, <3>5
    <3>7. a = View(tab, pane,
                   ControlPanel(known, visibility, category, picked, busy, error, sav), home)
      BY <3>1, <3>6 DEF View, ControlPanel
    <3>8. b = View(tab, pane, ControlPanel(known, v, category, picked, busy, error, sav), home)
      BY <3>2, <3>7 DEF View, ControlPanel
    <3>9. c = View(tab, pane, ControlPanel(known, v, k, picked, busy, error, sav), home)
      BY <3>3, <3>8 DEF View, ControlPanel
    <3>10. ui' = View(tab, pane, p, home)
      BY <2>10, <3>4, <3>9 DEF View, ControlPanel
    <3> QED BY <3>6, <3>10 DEF View
  <2>6. /\ p.view = "control" /\ ControlShape(p) /\ p.fact = known /\ p.visibility = v
        /\ p.category = k /\ p.busy = ui.panel.busy /\ p.saved = ui.panel.saved
    BY <1>3, <2>10 DEF View, ControlPanel, ControlShape
  <2>7. p.fact.data = ui.pane.selected
    BY <1>2, <2>1, <2>6, StateFacts
  <2>8. ControlParts(p, ui.pane.selected, {})
    BY <1>2, <2>5, <2>6, <2>7, ControlOnly
  <2>9. PageKnown(p, ui.pane.selected, {}, {}, {inFlight[i]})
    BY <1>1, <1>2, <1>4, <2>1, <2>6 DEF PageKnown, Done
  <2> QED BY <2>4, <2>8, <2>9 DEF ControlMoves, ControlMove
<1>5. CASE ~Done(i)
  <2>1. Turn({}, {}, {inFlight[i]}) /\ ui' = [ui EXCEPT !.panel.error = TRUE]
    <3>1. Answered(i, [ui EXCEPT !.panel.error = TRUE], {}, <<>>)
      BY <1>5 DEF FactAnswered
    <3> QED BY <1>1, <3>1, AnswerNone
  <2>2. PICK p : p = ControlPanel(fact, visibility, category, picked, busy, TRUE, sav)
    OBVIOUS
  <2>3. ui' = View(ui.tab, ui.pane, p, ui.home)
    BY <1>3, <2>1, <2>2 DEF View, ControlPanel
  <2>4. /\ p.view = "control" /\ ControlShape(p) /\ p.fact = ui.panel.fact /\ FieldsSame(p)
        /\ p.busy = ui.panel.busy /\ p.saved = ui.panel.saved
    BY <1>3, <2>2 DEF View, ControlPanel, ControlShape, FieldsSame
  <2>5. ControlParts(p, ui.pane.selected, {})
    BY <1>2, <2>3, <2>4, ControlOnly
  <2>6. PageKnown(p, ui.pane.selected, {}, {}, {inFlight[i]})
    BY <1>1, <1>2, <2>4 DEF PageKnown
  <2> QED BY <2>1, <2>5, <2>6 DEF ControlMoves, ControlMove
<1> QED BY <1>4, <1>5

LEMMA SharingSavedMove ==
    ASSUME Shape, AtMostOne, NEW i, SharingSaved(i)
    PROVE  ControlMoves
<1>1. i \in DOMAIN inFlight /\ inFlight[i].cmd = "set_fact_sharing" /\ inFlight[i].state # "sent"
  BY DEF SharingSaved, Answers
<1>2. ui.panel.view = "control" /\ inFlight[i].for = "panel"
  BY <1>1, CallFacts, RoutedFacts
<1>3. PICK tab, home, stats, graph, scope, selected, fact, visibility, category, picked,
           busy, error, sav :
         ui = View(tab, DashboardPane(stats, graph, scope, selected),
                   ControlPanel(fact, visibility, category, picked, busy, error, sav), home)
  BY <1>2, ControlFields
<1>4. PICK good, bad : good = Done(i) /\ bad = ~Done(i)
  OBVIOUS
<1>5. Turn({}, {}, {inFlight[i]})
      /\ ui' = [ui EXCEPT !.panel.busy = FALSE, !.panel.saved = good, !.panel.error = bad]
  BY <1>1, <1>4, AnswerNone DEF SharingSaved
<1>6. PICK p : p = ControlPanel(fact, visibility, category, picked, FALSE, bad, good)
  OBVIOUS
<1>7. ui' = View(ui.tab, ui.pane, p, ui.home)
  BY <1>3, <1>5, <1>6, ZenonT(40) DEF View, ControlPanel
<1>8. /\ p.view = "control" /\ ControlShape(p) /\ p.fact = ui.panel.fact /\ FieldsSame(p)
      /\ p.saved = good
  BY <1>3, <1>6 DEF View, ControlPanel, ControlShape, FieldsSame
<1>9. ControlParts(p, ui.pane.selected, {})
  BY <1>2, <1>7, <1>8, ControlOnly
<1>10. PageStored(p, ui.pane.selected, {}, {}, {inFlight[i]})
  BY <1>1, <1>2, <1>4, <1>8 DEF PageStored, Done
<1> QED BY <1>5, <1>9, <1>10 DEF ControlMoves, ControlMove

LEMMA ControlStepMoves ==
    ASSUME Shape, AtMostOne, ControlStep
    PROVE  ControlMoves
<1> QED BY SelectMove, PickMove, SaveSharingMove, FactAnsweredMove, SharingSavedMove
        DEF ControlStep

\* No save is sent while another for the control is on its way.
LEMMA ControlSaves ==
    ASSUME ControlInv, NEW p, NEW sel, NEW gone, NEW new, NEW out,
           ControlMove(p, sel, gone, new, out)
    PROVE  OneSave(inFlight')
<1>1. Turn(gone, new, out)
  BY DEF ControlMove
<1>2. CASE PageSent(p, sel, gone, new, out)
  <2>1. \A d \in All(inFlight) : ~Saving(d)
    BY <1>2 DEF PageSent, ControlInv
  <2> QED BY <1>1, <2>1 DEF Turn, SavesKept, ControlInv
<1>3. CASE ~PageSent(p, sel, gone, new, out)
  <2>1. \A c \in new : c.cmd # "set_fact_sharing"
    BY <1>3 DEF ControlMove, PageClosed, PageChosen, PagePicked, PageKnown, PageStored
  <2> QED BY <1>1, <2>1 DEF Turn, SavesKept, ControlInv, Saving
<1> QED BY <1>2, <1>3

LEMMA ControlFrame ==
    ASSUME Shape, AtMostOne, ControlInv, NEW p, NEW sel, NEW gone, NEW new, NEW out,
           ControlMove(p, sel, gone, new, out)
    PROVE  /\ Shape' /\ AtMostOne' /\ Frame(Facts) /\ ui.tab = "dashboard"
           /\ ui'.panel = p /\ ui'.pane.selected = sel /\ ui'.home = ui.home
           /\ ui'.pane.stats = ui.pane.stats /\ ui'.pane.graph = ui.pane.graph
           /\ ui'.pane.scope = ui.pane.scope
           /\ out \subseteq All(inFlight)
           /\ \A c \in new : c.state = "sent" /\ c.cmd \in {"get_fact", "set_fact_sharing"}
                             /\ Touches(c) = {sel}
<1>1. Turn(gone, new, out) /\ ControlParts(p, sel, gone) /\ ui.tab = "dashboard"
      /\ Shows(ui.pane.stats)
  BY DEF ControlMove, ControlParts
<1>2. PICK pane : pane = DashboardPane(ui.pane.stats, ui.pane.graph, ui.pane.scope, sel)
  OBVIOUS
<1>3. /\ ui' = View(ui'.tab, ui'.pane, ui'.panel, ui'.home) /\ ui'.tab = ui.tab
      /\ ui'.pane = pane /\ ui'.panel = p /\ ui'.home = ui.home
  BY <1>1, <1>2 DEF ControlParts, View
<1>4. /\ pane.selected = sel /\ pane.stats = ui.pane.stats /\ pane.graph = ui.pane.graph
      /\ pane.scope = ui.pane.scope /\ DashboardShape(pane)
  BY <1>2 DEF DashboardPane, DashboardShape
<1>5. UiShape /\ NoView.view = "none"
  BY DEF Shape, NoView
<1>6. /\ \/ /\ gone = {} /\ ui.panel.view = "control" /\ p.view = "control" /\ ControlShape(p)
            /\ sel = ui.pane.selected /\ sel \in Facts /\ (Shows(p.fact) => p.fact.data = sel)
         \/ /\ gone = {"load"} /\ sel \in Facts /\ p.view = "control" /\ ControlShape(p)
            /\ ~Shows(p.fact)
         \/ gone = {"panel", "load"} /\ p = NoView
  BY <1>1, ControlFields, StateFacts DEF ControlParts
<1>7. UiShape'
  BY <1>1, <1>3, <1>4, <1>5, <1>6 DEF UiShape, InSettings, SettingsTabs, Tabs
<1>8. MountsStay(gone, ui, ui')
  <2>1. ui.panel.view \in {"none", "control"}
    BY <1>1, <1>5 DEF UiShape
  <2> QED BY <1>1, <1>3, <1>4, <1>5, <1>6, <2>1 DEF MountsStay
<1>9. /\ out \subseteq All(inFlight)
      /\ \A c \in new : /\ c.state = "sent" /\ c.arg.fact = sel /\ sel \in Facts
                        /\ p.view = "control"
                        /\ \/ c.cmd = "get_fact" /\ c.for = "load"
                           \/ c.cmd = "set_fact_sharing" /\ c.for = "panel"
      /\ \A c \in out : c.cmd \in {"get_fact", "set_fact_sharing"}
  <2>1. CASE PageClosed(p, sel, gone, new, out) \/ PagePicked(p, sel, gone, new, out)
    BY <2>1 DEF PageClosed, PagePicked
  <2>2. CASE PageKnown(p, sel, gone, new, out) \/ PageStored(p, sel, gone, new, out)
    BY <2>2 DEF PageKnown, PageStored, All
  <2>3. CASE PageChosen(p, sel, gone, new, out)
    BY <1>6, <2>3 DEF PageChosen
  <2>4. CASE PageSent(p, sel, gone, new, out)
    BY <1>6, <2>4 DEF PageSent
  <2> QED BY <2>1, <2>2, <2>3, <2>4 DEF ControlMove
<1>10. \A c \in new : Routed(c, ui')
  BY <1>3, <1>4, <1>9 DEF Routed, Awaiters, SharesCmds, PanelOfCmd, Named
<1>11. Shape' /\ AtMostOne'
  BY <1>1, <1>7, <1>8, <1>10, TurnShape
<1>12. ASSUME NEW c \in All(inFlight), c.for \in gone PROVE Touches(c) \subseteq Facts
  <2>1. Routed(c, ui) /\ Named(c) /\ c.for \in {"panel", "load"}
    BY <1>6, <1>12 DEF Shape, Routing, Routed
  <2>2. ui.panel.view \notin {"scope", "connect"}
    BY <1>1, <1>5 DEF UiShape
  <2>3. c.cmd \in {"get_fact", "set_fact_sharing"}
    <3>1. c.for = "panel" => ui.panel.view = PanelOfCmd(c.cmd)
      BY <2>1 DEF Routed
    <3> QED BY <2>1, <2>2, <3>1 DEF Routed, Awaiters, PanelOfCmd, SharesCmds
  <2> QED BY <2>1, <2>3, TouchesFacts DEF Named
<1>13. ASSUME NEW r, r \notin Facts PROVE On(inFlight', r) = On(inFlight, r)
  <2>1. \A c \in new : r \notin Touches(c)
    BY <1>9, <1>13, TouchesFacts
  <2>2. \A c \in out : r \notin Touches(c)
    <3>1. \A c \in out : Routed(c, ui)
      BY <1>9 DEF Shape, Routing
    <3> QED BY <1>9, <1>13, <3>1, TouchesFacts, RoutedFacts
  <2>3. \A c \in All(inFlight) : c.for \in gone => r \notin Touches(c)
    BY <1>12, <1>13
  <2> QED BY <1>1, <2>1, <2>2, <2>3, Untouched
<1>14. OneSave(inFlight')
  BY ControlSaves
<1>15. Frame(Facts)
  BY <1>1, <1>3, <1>13, <1>14 DEF Frame, Turn, Traffic, Watched, SavesKept
<1>16. \A c \in new : Touches(c) = {sel}
  BY <1>9, TouchesFacts
<1> QED BY <1>1, <1>3, <1>4, <1>9, <1>11, <1>15, <1>16

\* A save on its way was on its way, or is sent now.
LEMMA SaveBefore ==
    ASSUME Shape, Shape', NEW gone, NEW new, NEW out, Turn(gone, new, out),
           NEW c \in All(inFlight'), Saving(c), c \notin new
    PROVE  \E d \in All(inFlight) : Saving(d) /\ d.arg = c.arg
<1>1. Routed(c, ui')
  BY DEF Shape, Routing
<1>2. c \in On(inFlight', c.arg.fact)
  BY TouchesFacts DEF Saving, On
<1>3. PICK d \in On(inFlight, c.arg.fact) : c = Moved(d, gone) /\ c.arg = d.arg
  BY <1>2, OnMoved
<1>4. d \in All(inFlight) /\ CallShape(d)
  BY <1>3, ShapedCalls DEF On, Shape
<1>5. Saving(d)
  BY <1>3, <1>4, MovedSaving
<1> QED BY <1>3, <1>4, <1>5

LEMMA ControlOwn ==
    ASSUME Shape, AtMostOne, ControlInv, NEW p, NEW sel, NEW gone, NEW new, NEW out,
           ControlMove(p, sel, gone, new, out)
    PROVE  ControlInv'
<1>1. /\ Shape' /\ ui'.panel = p /\ Turn(gone, new, out) /\ OneSave(inFlight')
  <2>1. Shape' /\ ui'.panel = p
    BY ControlFrame
  <2>2. OneSave(inFlight')
    BY ControlSaves
  <2> QED BY <2>1, <2>2 DEF ControlMove
<1> SUFFICES ASSUME NEW c \in All(inFlight'), Saving(c) PROVE p.busy /\ ~p.saved
  BY <1>1 DEF ControlInv
<1>2. c \notin new => ui.panel.busy /\ ~ui.panel.saved
  BY <1>1, SaveBefore DEF ControlInv
<1>3. p.view = "control"
  BY <1>1, RoutedFacts DEF Shape, Routing, Saving
<1>4. NoView.view = "none"
  BY DEF NoView
<1>5. CASE PageClosed(p, sel, gone, new, out)
  BY <1>3, <1>4, <1>5 DEF PageClosed, ControlMove, ControlParts
<1>6. CASE PageChosen(p, sel, gone, new, out)
  <2>1. c \notin new
    BY <1>6 DEF PageChosen, Saving
  <2>2. ui.panel.view = "control"
    <3>1. PICK d \in All(inFlight) : Saving(d)
      BY <1>1, <2>1, SaveBefore
    <3> QED BY <3>1, RoutedFacts DEF Shape, Routing, Saving
  <2> QED BY <1>2, <1>6, <2>1, <2>2 DEF PageChosen
<1>7. CASE PagePicked(p, sel, gone, new, out)
  BY <1>2, <1>7 DEF PagePicked
<1>8. CASE PageSent(p, sel, gone, new, out)
  BY <1>8 DEF PageSent
<1>9. CASE PageKnown(p, sel, gone, new, out)
  BY <1>2, <1>9 DEF PageKnown
<1>10. CASE PageStored(p, sel, gone, new, out)
  <2>1. \E d \in out : Saving(d)
    BY <1>10 DEF PageStored, Saving
  <2>2. c \in new
    BY <1>1, <2>1 DEF Turn, SavesKept, ControlInv
  <2> QED BY <1>10, <2>2 DEF PageStored
<1> QED BY <1>5, <1>6, <1>7, <1>8, <1>9, <1>10 DEF ControlMove

\* What the calls about a page carry, whatever the control does.
LEMMA PageCarries ==
    ASSUME Shape, AtMostOne, ControlInv, FactInv, NEW p, NEW sel, NEW gone, NEW new, NEW out,
           ControlMove(p, sel, gone, new, out), NEW f \in Facts, Alone(f)'
    PROVE  FactCalls(f)'
<1>1. /\ vault' = vault /\ Turn(gone, new, out)
      /\ \A c \in new : c.state = "sent" /\ Touches(c) = {sel}
  BY ControlFrame DEF ControlMove, Turn
<1>2. Alone(f) /\ FactCalls(f)
  BY <1>1, OnlyGrows DEF FactInv
<1>3. ASSUME NEW c \in On(inFlight', f)
      PROVE  /\ c.cmd = "get_fact" /\ c.state = "done" => c.answer = vault.sharing[f]
             /\ c.cmd = "set_fact_sharing" /\ c.state = "sent" => KeptBut(f, c.arg)
             /\ c.cmd = "set_fact_sharing" /\ c.state = "done" => Stored(f, c.arg)
  <2>1. CASE c \notin new
    <3>1. PICK d \in On(inFlight, f) :
            c.cmd = d.cmd /\ c.arg = d.arg /\ c.state = d.state /\ c.answer = d.answer
      BY <1>1, <2>1, OnMoved
    <3> QED BY <1>2, <3>1 DEF FactCalls
  <2>2. CASE c \in new
    <3>1. c.state = "sent" /\ f = sel
      BY <1>1, <2>2 DEF On
    <3>2. ASSUME c.cmd = "set_fact_sharing" PROVE KeptBut(f, c.arg)
      <4>1. PageSent(p, sel, gone, new, out)
        BY <2>2, <3>2 DEF ControlMove, PageClosed, PageChosen, PagePicked, PageKnown, PageStored
      <4>2. /\ Shows(ui.panel.fact) /\ FieldsSame(p) /\ gone = {}
            /\ c.arg.visibility = p.visibility /\ c.arg.category = p.category
            /\ c.arg.picked = p.picked
        BY <2>2, <4>1 DEF PageSent
      <4>3. ui.panel.view = "control" /\ ui.pane.selected = f
        BY <3>1, <4>2 DEF ControlMove, ControlParts
      <4>4. KeptBut(f, ui.panel)
        BY <1>2, <4>2, <4>3 DEF FactInv, FactShown
      <4> QED BY <4>2, <4>4 DEF KeptBut, FieldsSame
    <3> QED BY <3>1, <3>2
  <2> QED BY <2>1, <2>2
<1> QED BY <1>1, <1>3 DEF FactCalls, KeptBut, Stored

\* What the mounted control shows of its page f.
LEMMA PageShows ==
    ASSUME Shape, Shape', AtMostOne, ControlInv, FactInv, NEW p, NEW gone, NEW new, NEW out,
           NEW f \in Facts, ControlMove(p, f, gone, new, out), ui'.panel = p,
           p.view = "control", Alone(f)'
    PROVE  /\ FactSent(f)'
           /\ Shows(p.fact) => FactShown(f)'
<1>1. /\ vault' = vault /\ Turn(gone, new, out) /\ f \notin seen'.overlapped
  BY DEF ControlMove, Turn, Alone
<1>2. /\ Alone(f)
      /\ ui.panel.view = "control" /\ ui.pane.selected = f =>
           FactSent(f) /\ (Shows(ui.panel.fact) => FactShown(f))
  BY <1>1, OnlyGrows DEF FactInv
<1>3. NoView.view = "none"
  BY DEF NoView
<1>4. gone = {} => ui.panel.view = "control" /\ ui.pane.selected = f
  BY <1>3 DEF ControlMove, ControlParts
<1>5. ASSUME NEW c \in On(inFlight', f), c.cmd = "set_fact_sharing", c.for # "nobody"
      PROVE  Saving(c)
  <2>1. Routed(c, ui')
    BY DEF Shape, Routing, On
  <2> QED BY <1>5, <2>1, RoutedFacts DEF Saving
<1>6. ASSUME NEW x, new \cup out = {x}, f \in Touches(x)
      PROVE  On(inFlight', f) = {c \in new : f \in Touches(c)}
  <2>1. \E c \in new \cup out : f \in Touches(c)
    BY <1>6
  <2> QED BY <1>1, <2>1, TouchedNew
<1>7. CASE PageClosed(p, f, gone, new, out)
  BY <1>3, <1>7 DEF PageClosed, ControlMove, ControlParts
<1>8. CASE PageChosen(p, f, gone, new, out)
  <2>1. PICK c : /\ new = {c} /\ c.cmd = "get_fact" /\ c.arg.fact = f /\ c.for = "load"
                 /\ gone = {"load"} /\ out = {}
    BY <1>8 DEF PageChosen
  <2>2. f \in Touches(c)
    BY <2>1, TouchesFacts
  <2>3. On(inFlight', f) = {x \in new : f \in Touches(x)}
    BY <1>6, <2>1, <2>2
  <2>4. ~Shows(p.fact)
    BY <1>3, <2>1, StateFacts DEF ControlMove, ControlParts
  <2> QED BY <2>1, <2>3, <2>4 DEF FactSent
<1>9. CASE PagePicked(p, f, gone, new, out)
  <2>1. \A c \in All(inFlight') : ~Saving(c)
    BY <1>1, <1>9, SaveBefore DEF PagePicked, ControlInv
  <2>2. \A c \in On(inFlight', f) : c \in On(inFlight, f)
    <3>1. On(inFlight', f) = On(inFlight, f)
      BY <1>1, <1>9, Untouched DEF PagePicked
    <3> QED BY <3>1
  <2>3. FactSent(f)'
    <3>1. \A c \in On(inFlight', f) : c.for # "nobody"
      BY <1>2, <1>4, <1>9, <2>2 DEF PagePicked, FactSent
    <3>2. \A c \in On(inFlight', f) : c.cmd # "set_fact_sharing"
      BY <1>5, <2>1, <3>1 DEF On
    <3> QED BY <3>1, <3>2 DEF FactSent
  <2>4. ASSUME Shows(p.fact) PROVE FactShown(f)'
    <3>1. KeptBut(f, ui.panel)
      BY <1>2, <1>4, <1>9, <2>4 DEF PagePicked, FactShown
    <3>2. KeptBut(f, p)
      BY <1>9, <3>1 DEF PagePicked, KeptBut
    <3>3. ~p.saved /\ ~Elsewhere(f)'
      BY <1>9, <2>1 DEF PagePicked, Elsewhere
    <3> QED BY <1>1, <3>2, <3>3 DEF FactShown, KeptBut
  <2> QED BY <2>3, <2>4
<1>10. CASE PageSent(p, f, gone, new, out)
  <2>1. PICK c : /\ new = {c} /\ c.cmd = "set_fact_sharing" /\ c.for = "panel" /\ c.state = "sent"
                 /\ c.arg.fact = f /\ c.arg.visibility = p.visibility
                 /\ c.arg.category = p.category /\ c.arg.picked = p.picked
    BY <1>10 DEF PageSent
  <2>2. /\ gone = {} /\ out = {} /\ ~ui.panel.busy /\ ~p.saved /\ Shows(ui.panel.fact)
        /\ FieldsSame(p)
    BY <1>10 DEF PageSent
  <2>3. f \in Touches(c)
    BY <2>1, TouchesFacts
  <2>4. On(inFlight', f) = {x \in new : f \in Touches(x)}
    BY <1>6, <2>1, <2>2, <2>3
  <2>5. FactSent(f)'
    BY <1>1, <2>1, <2>4 DEF FactSent
  <2>6. ~Elsewhere(f)'
    <3>1. \A x \in All(inFlight') : Saving(x) => x \in new
      BY <1>1, <2>2, SaveBefore DEF ControlInv
    <3> QED BY <2>1, <3>1 DEF Elsewhere
  <2>7. KeptBut(f, ui.panel)
    BY <1>2, <1>4, <2>2 DEF FactShown
  <2>8. KeptBut(f, p)
    BY <2>2, <2>7 DEF KeptBut, FieldsSame
  <2> QED BY <1>1, <2>2, <2>5, <2>6, <2>8 DEF FactShown, KeptBut
<1>11. CASE PageKnown(p, f, gone, new, out)
  <2>1. PICK i \in DOMAIN inFlight :
          /\ out = {inFlight[i]} /\ inFlight[i].cmd = "get_fact" /\ inFlight[i].arg.fact = f
          /\ \/ /\ inFlight[i].state = "done"
                /\ p.visibility = inFlight[i].answer.visibility
                /\ p.category = inFlight[i].answer.category
             \/ FieldsSame(p) /\ p.fact = ui.panel.fact
    BY <1>11 DEF PageKnown
  <2>2. gone = {} /\ new = {} /\ p.saved = ui.panel.saved
    BY <1>11 DEF PageKnown
  <2>3. f \in Touches(inFlight[i]) /\ inFlight[i] \in On(inFlight, f)
    BY <2>1, TouchesFacts, CallFacts DEF On
  <2>4. On(inFlight', f) = {}
    BY <1>6, <2>1, <2>2, <2>3
  <2>5. ASSUME Shows(p.fact) PROVE FactShown(f)'
    <3>1. CASE inFlight[i].state = "done" /\ p.visibility = inFlight[i].answer.visibility
               /\ p.category = inFlight[i].answer.category
      <4>1. inFlight[i].answer = vault.sharing[f]
        BY <1>2, <2>1, <2>3, <3>1 DEF FactInv, FactCalls
      <4>2. Stored(f, p)
        BY <3>1, <4>1 DEF Stored, Shape, VaultShape
      <4>3. KeptBut(f, p)
        <5>1. p.visibility = vault.sharing[f].visibility /\ p.category = vault.sharing[f].category
          BY <3>1, <4>1
        <5> QED BY <5>1 DEF KeptBut
      <4> QED BY <1>1, <4>2, <4>3 DEF FactShown, KeptBut, Stored
    <3>2. CASE FieldsSame(p) /\ p.fact = ui.panel.fact
      <4>1. FactShown(f)
        BY <1>2, <1>4, <2>2, <2>5, <3>2
      <4>2. Elsewhere(f)' => Elsewhere(f)
        BY <1>1, <2>2, SaveBefore DEF Elsewhere
      <4>3. KeptBut(f, p) /\ (p.saved \/ Elsewhere(f)' => Stored(f, p))
        BY <2>2, <3>2, <4>1, <4>2 DEF FactShown, KeptBut, Stored, FieldsSame
      <4> QED BY <1>1, <4>3 DEF FactShown, KeptBut, Stored
    <3> QED BY <2>1, <3>1, <3>2
  <2> QED BY <2>4, <2>5 DEF FactSent
<1>12. CASE PageStored(p, f, gone, new, out)
  <2>1. PICK i \in DOMAIN inFlight :
          /\ out = {inFlight[i]} /\ inFlight[i].cmd = "set_fact_sharing"
          /\ inFlight[i].for = "panel" /\ p.saved = (inFlight[i].state = "done")
    BY <1>12 DEF PageStored
  <2>2. gone = {} /\ new = {} /\ FieldsSame(p) /\ p.fact = ui.panel.fact
    BY <1>12 DEF PageStored
  <2>3. inFlight[i] \in All(inFlight) /\ Saving(inFlight[i])
    BY <2>1, CallFacts DEF Saving
  <2>4. ~Elsewhere(f)'
    <3>1. \A c \in All(inFlight') : ~Saving(c)
      BY <1>1, <2>1, <2>2, <2>3 DEF Turn, SavesKept, ControlInv
    <3> QED BY <3>1 DEF Elsewhere
  <2>5. /\ FactSent(f)
        /\ Shows(p.fact) => FactShown(f)
    BY <1>2, <1>4, <2>2
  <2>6. Shows(p.fact) => KeptBut(f, p)
    BY <2>2, <2>5 DEF FactShown, KeptBut, FieldsSame
  <2>7. CASE inFlight[i].arg.fact = f
    <3>1. f \in Touches(inFlight[i]) /\ inFlight[i] \in On(inFlight, f)
      BY <2>1, <2>3, <2>7, TouchesFacts DEF On
    <3>2. On(inFlight', f) = {}
      BY <1>6, <2>1, <2>2, <3>1
    <3>3. p.saved => Stored(f, p)
      <4> SUFFICES ASSUME p.saved PROVE Stored(f, p)
        OBVIOUS
      <4>1. Stored(f, inFlight[i].arg)
        BY <1>2, <2>1, <3>1 DEF FactInv, FactCalls
      <4>2. /\ inFlight[i].arg.visibility = ui.panel.visibility
            /\ inFlight[i].arg.category = ui.panel.category
        BY <2>1, <2>5, <3>1 DEF FactSent
      <4> QED BY <2>2, <4>1, <4>2 DEF Stored, FieldsSame
    <3> QED BY <1>1, <2>4, <2>6, <3>2, <3>3 DEF FactSent, FactShown, KeptBut, Stored
  <2>8. CASE inFlight[i].arg.fact # f
    <3>1. f \notin Touches(inFlight[i])
      <4>1. Named(inFlight[i])
        BY <2>1, <2>3 DEF Shape, Routing, Routed
      <4> QED BY <2>1, <2>8, <4>1, TouchesFacts DEF Named
    <3>2. On(inFlight', f) = On(inFlight, f)
      <4>1. \A c \in new \cup out : f \notin Touches(c)
        BY <2>1, <2>2, <3>1
      <4> QED BY <1>1, <2>2, <4>1, Untouched
    <3>3. FactSent(f)'
      BY <2>2, <2>5, <3>2 DEF FactSent, FieldsSame
    <3>4. Elsewhere(f)
      BY <2>3, <2>8 DEF Elsewhere
    <3>5. Shows(p.fact) => Stored(f, p)
      BY <2>2, <2>5, <3>4 DEF FactShown, Stored, FieldsSame
    <3> QED BY <1>1, <2>6, <3>3, <3>5 DEF FactShown, KeptBut, Stored
  <2> QED BY <2>7, <2>8
<1> QED BY <1>7, <1>8, <1>9, <1>10, <1>11, <1>12 DEF ControlMove

LEMMA FactOwn ==
    ASSUME Shape, AtMostOne, ControlInv, FactInv, NEW p, NEW sel, NEW gone, NEW new, NEW out,
           ControlMove(p, sel, gone, new, out)
    PROVE  FactInv'
<1>1. Shape' /\ ui'.panel = p /\ ui'.pane.selected = sel
  BY ControlFrame
<1> SUFFICES ASSUME NEW f \in Facts, Alone(f)'
             PROVE  /\ FactCalls(f)'
                    /\ p.view = "control" /\ sel = f =>
                         /\ FactSent(f)'
                         /\ Shows(p.fact) => FactShown(f)'
  BY <1>1 DEF FactInv
<1>2. FactCalls(f)'
  BY PageCarries
<1>3. ASSUME p.view = "control", sel = f
      PROVE  FactSent(f)' /\ (Shows(p.fact) => FactShown(f)')
  <2>1. ControlMove(p, f, gone, new, out)
    BY <1>3
  <2> QED BY <1>1, <1>3, <2>1, PageShows
<1> QED BY <1>2, <1>3

LEMMA ControlKeeps ==
    ASSUME ViewsIInv, ControlStep
    PROVE  ViewsIInv'
<1>1. PICK p, sel, gone, new, out : ControlMove(p, sel, gone, new, out)
  BY ControlStepMoves DEF ViewsIInv, ControlMoves
<1>2. PICK rs : rs = Facts
  OBVIOUS
<1>3. /\ Shape' /\ AtMostOne' /\ Frame(rs) /\ ui.tab = "dashboard" /\ ui'.home = ui.home
      /\ ui'.pane.stats = ui.pane.stats /\ ui'.pane.graph = ui.pane.graph
      /\ ui'.pane.scope = ui.pane.scope
  BY <1>1, <1>2, ControlFrame DEF ViewsIInv
<1>4. ControlInv' /\ FactInv'
  BY <1>1, ControlOwn, FactOwn DEF ViewsIInv
<1>5. /\ "shares" \notin rs /\ "sources" \notin rs /\ "transfers" \notin rs /\ "queue" \notin rs
      /\ "lock" \notin rs /\ "config" \notin rs /\ "scope" \notin rs /\ "thread" \notin rs
      /\ "graph" \notin rs /\ "dashboard" \notin rs
  BY <1>2, PageNames DEF Resources
<1>6. rs \cap {"config", "lock"} = {} /\ rs \cap {"thread", "lock"} = {}
      /\ rs \cap {"dashboard", "queue"} = {}
  BY <1>5
<1>7. MintedInv' /\ SharesInv' /\ SourcesInv' /\ TransfersInv' /\ QueueInv' /\ LockInv'
      /\ ThreadInv' /\ PersonaInv'
  BY <1>3, <1>5, <1>6, FrameKeeps
<1>8. ConfigInv' /\ HomeInv'
  BY <1>3, <1>5, <1>6, FrameKeeps
<1>9. GraphInv' /\ DashboardInv'
  BY <1>3, <1>5, <1>6, FrameKeeps
<1>10. ScopeInv'
  <2>1. ui'.panel.view # "scope"
    <3>1. UiShape' /\ NoView.view = "none" /\ ui'.tab = "dashboard"
      BY <1>3 DEF Shape, NoView, Frame
    <3> QED BY <3>1 DEF UiShape
  <2> QED BY <1>3, <1>5, <2>1, FrameKeeps
<1> QED BY <1>3, <1>4, <1>7, <1>8, <1>9, <1>10 DEF ViewsIInv

-----------------------------------------------------------------------------
(* Tabs: a view mounted anew, which asks for what it shows.                *)

StatusMounts(i) == StatusAnswered(i) /\ ~StatusStill(i)
BumpMounts(i) ==
    /\ QuestionAnswered(i) \/ SyncEnded(i)
    /\ inFlight[i].for = "shell" /\ Done(i) /\ ui.tab = "dashboard"
MountStep ==
    \/ \E t \in Tabs : Open(t)
    \/ \E i \in DOMAIN inFlight : StatusMounts(i) \/ BumpMounts(i)

\* The pane of a tab when it is mounted, and the commands it sends then.
Fresh(t) == IF t = "unlock" THEN Unlocking ELSE PaneOf(t)
ReadsOf(t) ==
    CASE t = "dashboard" -> {"get_dashboard"} [] t = "queue" -> {"queue_list"}
      [] t = "persona" -> {"persona_history_load"} [] t = "sharing" -> {"share_status"}
      [] t = "sources" -> {"list_sources"} [] t = "transfers" -> {"list_transfers"}
      [] OTHER -> {}
Asks(cmds, new) ==
    /\ \A c \in new : c.state = "sent" /\ c.cmd \in cmds
                      /\ c.for = IF c.cmd \in {"load_settings", "list_transfers"}
                                 THEN "home" ELSE "pane"
    /\ \A cmd \in cmds : \E c \in new : c.cmd = cmd
HomeOf(t) == IF t \in SettingsTabs THEN Home ELSE NoView
LoadsOf(t) == IF t \in SettingsTabs THEN {"load_settings"} ELSE {}

\* What mounts a view.
TabTurned(t, home, cmds, gone, out) ==
    /\ InSettings /\ t \in SettingsTabs /\ home = ui.home
    /\ cmds = ReadsOf(t) /\ gone = Inner /\ out = {}
TabOpened(t, home, cmds, gone, out) ==
    /\ ui.tab # "unlock" /\ t \in Tabs \ {"sharing", "transfers"} /\ home = HomeOf(t)
    /\ cmds = LoadsOf(t) \cup ReadsOf(t) /\ gone = Inner \cup {"home"} /\ out = {}
Bumped(t, home, cmds, gone, out) ==
    /\ ui.tab = "dashboard" /\ t = "dashboard" /\ home = NoView
    /\ cmds = ReadsOf(t) /\ gone = Inner
    /\ \E i \in DOMAIN inFlight :
          /\ out = {inFlight[i]} /\ inFlight[i].cmd \in {"queue_answer", "trigger_ingest"}
          /\ inFlight[i].state = "done"
StatusSeen(out, open) ==
    \E i \in DOMAIN inFlight :
       /\ out = {inFlight[i]} /\ inFlight[i].cmd = "get_status" /\ inFlight[i].state # "sent"
       /\ (inFlight[i].answer = "open") <=> open
Unlocked(t, home, cmds, gone, out) ==
    /\ ui.tab = "unlock" /\ t = "dashboard" /\ home = NoView
    /\ cmds = ReadsOf(t) /\ gone = {"pane"} /\ StatusSeen(out, TRUE)
LockedUp(t, home, cmds, gone, out) ==
    /\ ui.tab # "unlock" /\ t = "unlock" /\ home = NoView
    /\ cmds = ReadsOf(t) /\ gone = Inner \cup {"home"} /\ StatusSeen(out, FALSE)
MountMove(t, home, cmds, gone, new, out) ==
    /\ ui' = View(t, Fresh(t), NoView, home)
    /\ Turn(gone, new, out) /\ Asks(cmds, new)
    /\ \/ TabTurned(t, home, cmds, gone, out) \/ TabOpened(t, home, cmds, gone, out)
       \/ Bumped(t, home, cmds, gone, out) \/ Unlocked(t, home, cmds, gone, out)
       \/ LockedUp(t, home, cmds, gone, out)
MountMoves == \E t, home, cmds, gone, new, out : MountMove(t, home, cmds, gone, new, out)

\* What a tab asks for when it is mounted.
LEMMA AskedFacts ==
    ASSUME NEW t \in Tabs
    PROVE  /\ Sendable(Asked(t)) /\ Asks(ReadsOf(t), All(Asked(t)))
<1>1. ASSUME NEW cmd, NEW arg, NEW for, Asked(t) = <<Cmd(cmd, arg, for)>>, ReadsOf(t) = {cmd},
             for = IF cmd \in {"load_settings", "list_transfers"} THEN "home" ELSE "pane"
      PROVE  Sendable(Asked(t)) /\ Asks(ReadsOf(t), All(Asked(t)))
  <2>1. PICK c : c = Cmd(cmd, arg, for)
    OBVIOUS
  <2>2. CallShape(c) /\ c.cmd = cmd /\ c.for = for /\ c.state = "sent"
    BY <2>1, CmdFacts
  <2>3. Sendable(<<c>>) /\ All(<<c>>) = {c}
    BY <2>2, OneSendable
  <2> QED BY <1>1, <2>1, <2>2, <2>3 DEF Asks
<1>2. CASE t = "general"
  <2>1. Asked(t) = <<>> /\ ReadsOf(t) = {}
    BY <1>2 DEF Asked, ReadsOf
  <2> QED BY <2>1, NoneSendable DEF Asks
<1>3. CASE t # "general"
  <2>1. CASE t = "dashboard"
    <3>1. Asked(t) = <<Cmd("get_dashboard", Null, "pane")>> /\ ReadsOf(t) = {"get_dashboard"}
      BY <2>1 DEF Asked, ReadsOf
    <3> QED BY <1>1, <3>1
  <2>2. CASE t = "queue"
    <3>1. Asked(t) = <<Cmd("queue_list", Null, "pane")>> /\ ReadsOf(t) = {"queue_list"}
      BY <2>2 DEF Asked, ReadsOf
    <3> QED BY <1>1, <3>1
  <2>3. CASE t = "persona"
    <3>1. /\ Asked(t) = <<Cmd("persona_history_load", Null, "pane")>>
          /\ ReadsOf(t) = {"persona_history_load"}
      BY <2>3 DEF Asked, ReadsOf
    <3> QED BY <1>1, <3>1
  <2>4. CASE t = "sharing"
    <3>1. Asked(t) = <<Cmd("share_status", "mount", "pane")>> /\ ReadsOf(t) = {"share_status"}
      BY <2>4 DEF Asked, ReadsOf
    <3> QED BY <1>1, <3>1
  <2>5. CASE t = "sources"
    <3>1. Asked(t) = <<Cmd("list_sources", Null, "pane")>> /\ ReadsOf(t) = {"list_sources"}
      BY <2>5 DEF Asked, ReadsOf
    <3> QED BY <1>1, <3>1
  <2>6. CASE t = "transfers"
    <3>1. Asked(t) = <<Cmd("list_transfers", Null, "home")>> /\ ReadsOf(t) = {"list_transfers"}
      BY <2>6 DEF Asked, ReadsOf
    <3> QED BY <1>1, <3>1
  <2> QED BY <1>3, <2>1, <2>2, <2>3, <2>4, <2>5, <2>6 DEF Tabs, SettingsTabs
<1> QED BY <1>2, <1>3

LEMMA HomeAskedFacts ==
    ASSUME NEW t \in Tabs \ {"sharing", "transfers"}
    PROVE  /\ Sendable(HomeAsked(t) \o Asked(t))
           /\ Asks(LoadsOf(t) \cup ReadsOf(t), All(HomeAsked(t) \o Asked(t)))
<1>1. PICK load, list : /\ load = Cmd("load_settings", Null, "home")
                        /\ list = Cmd("list_sources", Null, "pane")
  OBVIOUS
<1>2. /\ CallShape(load) /\ load.cmd = "load_settings" /\ load.for = "home" /\ load.state = "sent"
      /\ CallShape(list) /\ list.cmd = "list_sources" /\ list.for = "pane" /\ list.state = "sent"
  BY <1>1, CmdFacts
<1>3. CASE t \notin SettingsTabs
  <2>1. /\ HomeAsked(t) = <<>> /\ LoadsOf(t) = {}
    BY <1>3 DEF HomeAsked, LoadsOf
  <2>2. Sendable(Asked(t)) /\ Asks(ReadsOf(t), All(Asked(t)))
    BY AskedFacts
  <2>3. Asked(t) \in Seq(All(Asked(t)))
    BY <2>2 DEF Sendable, IsSeq, All
  <2>4. HomeAsked(t) \o Asked(t) = Asked(t)
    BY <2>1, <2>3
  <2> QED BY <2>1, <2>2, <2>4
<1>4. CASE t = "general"
  <2>1. /\ HomeAsked(t) = <<load>> /\ Asked(t) = <<>>
        /\ LoadsOf(t) \cup ReadsOf(t) = {"load_settings"}
    BY <1>1, <1>4 DEF HomeAsked, LoadsOf, Asked, ReadsOf, SettingsTabs
  <2>2. HomeAsked(t) \o Asked(t) = <<load>>
    BY <2>1
  <2>3. Sendable(<<load>>) /\ All(<<load>>) = {load}
    BY <1>2, OneSendable
  <2> QED BY <1>2, <2>1, <2>2, <2>3 DEF Asks
<1>5. CASE t = "sources"
  <2>1. /\ HomeAsked(t) = <<load>> /\ Asked(t) = <<list>>
        /\ LoadsOf(t) \cup ReadsOf(t) = {"load_settings", "list_sources"}
    BY <1>1, <1>5 DEF HomeAsked, LoadsOf, Asked, ReadsOf, SettingsTabs
  <2>2. HomeAsked(t) \o Asked(t) = <<load, list>>
    BY <2>1, Pair
  <2>3. Touches(load) \cap Touches(list) = {} /\ ~Saving(load)
    BY <1>2, TouchesFacts DEF Saving
  <2>4. Sendable(<<load, list>>) /\ All(<<load, list>>) = {load, list}
    BY <1>2, <2>3, TwoSendable
  <2> QED BY <1>2, <2>1, <2>2, <2>4 DEF Asks
<1> QED BY <1>3, <1>4, <1>5 DEF SettingsTabs

LEMMA OpenMove ==
    ASSUME Shape, AtMostOne, NEW t \in Tabs, Open(t)
    PROVE  MountMoves
<1>1. /\ ui.tab \notin {t, "unlock"} /\ vault' = vault
      /\ spent' = [spent EXCEPT !.opens = @ + 1]
  BY DEF Open
<1>2. spent' = [clicks |-> spent'.clicks, opens |-> spent'.opens, faults |-> spent.faults]
  BY <1>1 DEF Shape, SeenShape
<1>3. t # "unlock" /\ Fresh(t) = PaneOf(t)
  BY DEF Tabs, SettingsTabs, Fresh
<1>4. CASE InSettings /\ t \in SettingsTabs
  <2>1. PICK u : u = [ui EXCEPT !.tab = t, !.pane = PaneOf(t), !.panel = NoView]
    OBVIOUS
  <2>2. Show(inFlight, u, Inner, Asked(t))
    BY <1>4, <2>1 DEF Open
  <2>3. Sendable(Asked(t)) /\ Asks(ReadsOf(t), All(Asked(t)))
    BY AskedFacts
  <2>4. Turn(Inner, All(Asked(t)), {}) /\ ui' = u
    BY <1>1, <1>2, <2>2, <2>3, ShowTurn
  <2>5. u = View(t, Fresh(t), NoView, ui.home)
    BY <1>3, <2>1 DEF Shape, UiShape, View
  <2>6. TabTurned(t, ui.home, ReadsOf(t), Inner, {})
    BY <1>4 DEF TabTurned
  <2> QED BY <2>3, <2>4, <2>5, <2>6 DEF MountMoves, MountMove
<1>5. CASE ~(InSettings /\ t \in SettingsTabs)
  <2>1. PICK gone, sent : gone = Inner \cup {"home"} /\ sent = HomeAsked(t) \o Asked(t)
    OBVIOUS
  <2>2. Show(inFlight, Mounted(t), gone, sent) /\ t \notin {"sharing", "transfers"}
    BY <1>5, <2>1 DEF Open
  <2>3. Sendable(sent) /\ Asks(LoadsOf(t) \cup ReadsOf(t), All(sent))
    BY <2>1, <2>2, HomeAskedFacts
  <2>4. Turn(gone, All(sent), {}) /\ ui' = Mounted(t)
    BY <1>1, <1>2, <2>2, <2>3, ShowTurn
  <2>5. Mounted(t) = View(t, Fresh(t), NoView, HomeOf(t))
    BY <1>3 DEF Mounted, View, HomeOf
  <2>6. TabOpened(t, HomeOf(t), LoadsOf(t) \cup ReadsOf(t), gone, {})
    BY <1>1, <2>1, <2>2 DEF TabOpened
  <2> QED BY <2>3, <2>4, <2>5, <2>6 DEF MountMoves, MountMove
<1> QED BY <1>4, <1>5

\* The dashboard mounted by an answer.
LEMMA DashboardMount ==
    ASSUME Shape, AtMostOne, NEW i \in DOMAIN inFlight, NEW gone,
           Answered(i, Mounted("dashboard"), gone, Asked("dashboard"))
    PROVE  \E new : /\ ui' = View("dashboard", Fresh("dashboard"), NoView, NoView)
                    /\ Turn(gone, new, {inFlight[i]}) /\ Asks(ReadsOf("dashboard"), new)
<1>1. Sendable(Asked("dashboard")) /\ Asks(ReadsOf("dashboard"), All(Asked("dashboard")))
  BY AskedFacts DEF Tabs
<1>2. Turn(gone, All(Asked("dashboard")), {inFlight[i]}) /\ ui' = Mounted("dashboard")
  BY <1>1, AnswerTurn
<1>3. Mounted("dashboard") = View("dashboard", Fresh("dashboard"), NoView, NoView)
  BY DEF Mounted, View, Fresh, SettingsTabs
<1> QED BY <1>1, <1>2, <1>3

LEMMA BumpMove ==
    ASSUME Shape, AtMostOne, NEW i \in DOMAIN inFlight, BumpMounts(i)
    PROVE  MountMoves
<1>1. inFlight[i].cmd \in {"queue_answer", "trigger_ingest"} /\ inFlight[i].state = "done" /\ Bump(i)
      /\ ui.tab = "dashboard"
  BY DEF BumpMounts, QuestionAnswered, SyncEnded, Answers, Done
<1>2. Answered(i, Mounted("dashboard"), Inner, Asked("dashboard"))
  BY <1>1 DEF Bump, Done
<1>3. PICK new : /\ ui' = View("dashboard", Fresh("dashboard"), NoView, NoView)
                 /\ Turn(Inner, new, {inFlight[i]}) /\ Asks(ReadsOf("dashboard"), new)
  BY <1>2, DashboardMount
<1>4. Bumped("dashboard", NoView, ReadsOf("dashboard"), Inner, {inFlight[i]})
  BY <1>1 DEF Bumped
<1> QED BY <1>3, <1>4 DEF MountMoves, MountMove

LEMMA StatusMove ==
    ASSUME Shape, AtMostOne, NEW i \in DOMAIN inFlight, StatusMounts(i)
    PROVE  MountMoves
<1>1. inFlight[i].cmd = "get_status" /\ inFlight[i].state # "sent"
  BY DEF StatusMounts, StatusAnswered, Answers
<1>2. CASE inFlight[i].answer = "open"
  <2>1. ui.tab = "unlock" /\ Answered(i, Mounted("dashboard"), {"pane"}, Asked("dashboard"))
    BY <1>2 DEF StatusMounts, StatusAnswered, StatusStill
  <2>2. PICK new : /\ ui' = View("dashboard", Fresh("dashboard"), NoView, NoView)
                   /\ Turn({"pane"}, new, {inFlight[i]}) /\ Asks(ReadsOf("dashboard"), new)
    BY <2>1, DashboardMount
  <2>3. Unlocked("dashboard", NoView, ReadsOf("dashboard"), {"pane"}, {inFlight[i]})
    BY <1>1, <1>2, <2>1 DEF Unlocked, StatusSeen
  <2> QED BY <2>2, <2>3 DEF MountMoves, MountMove
<1>3. CASE inFlight[i].answer # "open"
  <2>1. PICK u, gone :
          /\ u = [tab |-> "unlock", pane |-> Unlocking, home |-> NoView, panel |-> NoView]
          /\ gone = Inner \cup {"home"}
    OBVIOUS
  <2>2. ui.tab # "unlock" /\ Answered(i, u, gone, <<>>)
    BY <1>3, <2>1 DEF StatusMounts, StatusAnswered, StatusStill
  <2>3. Turn(gone, {}, {inFlight[i]}) /\ ui' = u
    BY <2>2, AnswerNone
  <2>4. u = View("unlock", Fresh("unlock"), NoView, NoView)
    BY <2>1 DEF View, Fresh
  <2>5. ReadsOf("unlock") = {}
    BY DEF ReadsOf
  <2>6. Asks(ReadsOf("unlock"), {})
    BY <2>5 DEF Asks
  <2>7. LockedUp("unlock", NoView, ReadsOf("unlock"), gone, {inFlight[i]})
    BY <1>1, <1>3, <2>1, <2>2 DEF LockedUp, StatusSeen
  <2> QED BY <2>3, <2>4, <2>6, <2>7 DEF MountMoves, MountMove
<1> QED BY <1>2, <1>3

LEMMA MountStepMoves ==
    ASSUME Shape, AtMostOne, MountStep
    PROVE  MountMoves
<1> QED BY OpenMove, BumpMove, StatusMove DEF MountStep

\* A pane as it is mounted.
LEMMA FreshFacts ==
    ASSUME NEW t
    PROVE  /\ t = "dashboard" => /\ DashboardShape(Fresh(t)) /\ Fresh(t).stats = Loading
                                 /\ Fresh(t).graph = Loading /\ Fresh(t).view = "dashboard"
           /\ t = "queue" => QueueShape(Fresh(t)) /\ Fresh(t).items = Loading
                             /\ Fresh(t).view = "queue"
           /\ t = "persona" => /\ PersonaShape(Fresh(t)) /\ Fresh(t).messages = <<>>
                               /\ Fresh(t).loaded = FALSE /\ Fresh(t).view = "persona"
           /\ t = "sharing" => /\ SharingShape(Fresh(t)) /\ Fresh(t).status = Loading
                               /\ Fresh(t).issued = Null /\ Fresh(t).view = "sharing"
           /\ t = "sources" => SourcesShape(Fresh(t)) /\ Fresh(t).status = Loading
                               /\ Fresh(t).view = "sources"
           /\ t = "unlock" => UnlockShape(Fresh(t)) /\ Fresh(t).view = "unlock"
           /\ t \in {"general", "transfers"} => Fresh(t) = NoView
<1>1. ASSUME t = "dashboard"
      PROVE  /\ DashboardShape(Fresh(t)) /\ Fresh(t).stats = Loading
             /\ Fresh(t).graph = Loading /\ Fresh(t).view = "dashboard"
  <2>1. Fresh(t) = Dashboard
    BY <1>1 DEF Fresh, PaneOf
  <2> QED BY <2>1 DEF Dashboard, DashboardShape, DashboardPane
<1>2. ASSUME t = "queue"
      PROVE  QueueShape(Fresh(t)) /\ Fresh(t).items = Loading /\ Fresh(t).view = "queue"
  <2>1. Fresh(t) = Queue
    BY <1>2 DEF Fresh, PaneOf
  <2> QED BY <2>1 DEF Queue, QueueShape, QueuePane
<1>3. ASSUME t = "persona"
      PROVE  /\ PersonaShape(Fresh(t)) /\ Fresh(t).messages = <<>>
             /\ Fresh(t).loaded = FALSE /\ Fresh(t).view = "persona"
  <2>1. Fresh(t) = Persona
    BY <1>3 DEF Fresh, PaneOf
  <2> QED BY <2>1 DEF Persona, PersonaShape, PersonaPane
<1>4. ASSUME t = "sharing"
      PROVE  /\ SharingShape(Fresh(t)) /\ Fresh(t).status = Loading
             /\ Fresh(t).issued = Null /\ Fresh(t).view = "sharing"
  <2>1. Fresh(t) = Sharing
    BY <1>4 DEF Fresh, PaneOf
  <2> QED BY <2>1 DEF Sharing, SharingShape, SharingPane
<1>5. ASSUME t = "sources"
      PROVE  SourcesShape(Fresh(t)) /\ Fresh(t).status = Loading /\ Fresh(t).view = "sources"
  <2>1. Fresh(t) = Sources
    BY <1>5 DEF Fresh, PaneOf
  <2> QED BY <2>1 DEF Sources, SourcesShape, SourcesPane
<1>6. ASSUME t = "unlock" PROVE UnlockShape(Fresh(t)) /\ Fresh(t).view = "unlock"
  <2>1. Fresh(t) = Unlocking
    BY <1>6 DEF Fresh
  <2> QED BY <2>1 DEF Unlocking, UnlockShape, UnlockPane
<1>7. t \in {"general", "transfers"} => Fresh(t) = NoView
  BY DEF Fresh, PaneOf
<1> QED BY <1>1, <1>2, <1>3, <1>4, <1>5, <1>6, <1>7

LEMMA HomeFresh ==
    /\ HomeShape(Home) /\ Home.config = Loading /\ Home.typed = {} /\ Home.saved = FALSE
<1>1. PICK none : none = {}
  OBVIOUS
<1>2. PICK h : h = HomeView(Loading, Null, none, TRUE, FALSE, FALSE, FALSE, 0)
  OBVIOUS
<1>3. h = Home
  BY <1>1, <1>2 DEF Home, HomeView
<1>4. HomeShape(h) /\ h.config = Loading /\ h.typed = none /\ h.saved = FALSE
  BY <1>2 DEF HomeView, HomeShape
<1> QED BY <1>1, <1>3, <1>4

\* Opening commands read, and go to the view that was mounted.
LEMMA ReadsFacts ==
    ASSUME NEW t
    PROVE  /\ ReadsOf(t) \subseteq {"get_dashboard", "queue_list", "persona_history_load",
                                    "share_status", "list_sources", "list_transfers"}
           /\ "get_dashboard" \in ReadsOf(t) <=> t = "dashboard"
           /\ "queue_list" \in ReadsOf(t) <=> t = "queue"
           /\ "persona_history_load" \in ReadsOf(t) <=> t = "persona"
           /\ "share_status" \in ReadsOf(t) <=> t = "sharing"
           /\ "list_sources" \in ReadsOf(t) <=> t = "sources"
           /\ "list_transfers" \in ReadsOf(t) <=> t = "transfers"
           /\ "load_settings" \notin ReadsOf(t)
<1>1. CASE t = "dashboard"
  BY <1>1 DEF ReadsOf
<1>2. CASE t = "queue"
  BY <1>2 DEF ReadsOf
<1>3. CASE t = "persona"
  BY <1>3 DEF ReadsOf
<1>4. CASE t = "sharing"
  BY <1>4 DEF ReadsOf
<1>5. CASE t = "sources"
  BY <1>5 DEF ReadsOf
<1>6. CASE t = "transfers"
  BY <1>6 DEF ReadsOf
<1>7. CASE t \notin {"dashboard", "queue", "persona", "sharing", "sources", "transfers"}
  BY <1>7 DEF ReadsOf
<1> QED BY <1>1, <1>2, <1>3, <1>4, <1>5, <1>6, <1>7

\* What a mount does, whichever it is.
LEMMA MountFrame ==
    ASSUME Shape, AtMostOne, NEW t, NEW home, NEW cmds, NEW gone, NEW new, NEW out,
           MountMove(t, home, cmds, gone, new, out)
    PROVE  /\ t \in Tabs \cup {"unlock"}
           /\ ui'.tab = t /\ ui'.pane = Fresh(t) /\ ui'.panel = NoView /\ ui'.home = home
           /\ "pane" \in gone /\ gone \subseteq Inner \cup {"home"}
           /\ {"graph", "panel", "load"} \subseteq gone \/ ui.tab = "unlock"
           /\ ReadsOf(t) \subseteq cmds /\ cmds \subseteq ReadsOf(t) \cup {"load_settings"}
           /\ "load_settings" \in cmds => t \in SettingsTabs \ {"transfers"}
           /\ t \in SettingsTabs =>
                \/ home = Home /\ "load_settings" \in cmds /\ "home" \in gone
                \/ home = ui.home /\ InSettings /\ cmds = ReadsOf(t) /\ gone = Inner
           /\ t \notin SettingsTabs => home = NoView
           /\ out \subseteq All(inFlight) /\ \A d \in out : d.state # "sent"
           /\ \A d \in out : d.cmd \in {"queue_answer", "trigger_ingest", "get_status"}
<1>1. ui' = View(t, Fresh(t), NoView, home)
  BY DEF MountMove
<1>2. \/ TabTurned(t, home, cmds, gone, out) \/ TabOpened(t, home, cmds, gone, out)
      \/ Bumped(t, home, cmds, gone, out) \/ Unlocked(t, home, cmds, gone, out)
      \/ LockedUp(t, home, cmds, gone, out)
  BY DEF MountMove
<1>3. ui'.tab = t /\ ui'.pane = Fresh(t) /\ ui'.panel = NoView /\ ui'.home = home
  BY <1>1 DEF View
<1>4. t \in Tabs \cup {"unlock"}
  BY <1>2 DEF TabTurned, TabOpened, Bumped, Unlocked, LockedUp, Tabs
<1>5. /\ "pane" \in gone /\ gone \subseteq Inner \cup {"home"}
      /\ {"graph", "panel", "load"} \subseteq gone \/ ui.tab = "unlock"
  BY <1>2 DEF TabTurned, TabOpened, Bumped, Unlocked, LockedUp, Inner
<1>6. /\ ReadsOf(t) \subseteq cmds /\ cmds \subseteq ReadsOf(t) \cup {"load_settings"}
      /\ "load_settings" \in cmds => t \in SettingsTabs \ {"transfers"}
  BY <1>2, ReadsFacts DEF TabTurned, TabOpened, Bumped, Unlocked, LockedUp, LoadsOf
<1>7. t \in SettingsTabs =>
         \/ home = Home /\ "load_settings" \in cmds /\ "home" \in gone
         \/ home = ui.home /\ InSettings /\ cmds = ReadsOf(t) /\ gone = Inner
  BY <1>2 DEF TabTurned, TabOpened, Bumped, Unlocked, LockedUp, LoadsOf, HomeOf, SettingsTabs
<1>8. t \notin SettingsTabs => home = NoView
  BY <1>2 DEF TabTurned, TabOpened, Bumped, Unlocked, LockedUp, HomeOf
<1>9. /\ out \subseteq All(inFlight) /\ \A d \in out : d.state # "sent"
      /\ \A d \in out : d.cmd \in {"queue_answer", "trigger_ingest", "get_status"}
  BY <1>2 DEF TabTurned, TabOpened, Bumped, Unlocked, LockedUp, StatusSeen, All
<1> QED BY <1>3, <1>4, <1>5, <1>6, <1>7, <1>8, <1>9

LEMMA MountShape ==
    ASSUME Shape, AtMostOne, NEW t, NEW home, NEW cmds, NEW gone, NEW new, NEW out,
           MountMove(t, home, cmds, gone, new, out)
    PROVE  Shape' /\ AtMostOne'
<1>1. /\ t \in Tabs \cup {"unlock"}
      /\ ui'.tab = t /\ ui'.pane = Fresh(t) /\ ui'.panel = NoView /\ ui'.home = home
      /\ "pane" \in gone /\ gone \subseteq Inner \cup {"home"}
      /\ {"graph", "panel", "load"} \subseteq gone \/ ui.tab = "unlock"
      /\ cmds \subseteq ReadsOf(t) \cup {"load_settings"}
      /\ "load_settings" \in cmds => t \in SettingsTabs
      /\ t \in SettingsTabs => home = Home \/ (home = ui.home /\ InSettings)
      /\ t \notin SettingsTabs => home = NoView
  BY MountFrame
<1>2. ui' = View(t, Fresh(t), NoView, home) /\ Turn(gone, new, out) /\ Asks(cmds, new)
  BY DEF MountMove
<1>3. UiShape /\ NoView.view = "none"
  BY DEF Shape, NoView
<1>4. UiShape'
  <2>1. t \in SettingsTabs => HomeShape(home)
    BY <1>1, <1>3, HomeFresh DEF UiShape
  <2> QED BY <1>1, <1>2, <2>1, FreshFacts, ZenonT(40) DEF UiShape, InSettings
<1>5. MountsStay(gone, ui, ui')
  <2>1. ui.tab = "unlock" => ui.panel.view = "none"
    BY <1>3 DEF UiShape
  <2>2. "home" \notin gone => (ui.tab \in SettingsTabs => t \in SettingsTabs)
    BY DEF MountMove, TabTurned, TabOpened, Bumped, Unlocked, LockedUp, SettingsTabs
  <2>3. "home" \in gone => "pane" \in gone
    BY <1>1
  <2> QED BY <1>1, <2>1, <2>2, <2>3 DEF MountsStay, Inner
<1>6. \A c \in new : Routed(c, ui')
  <2> SUFFICES ASSUME NEW c \in new PROVE Routed(c, ui')
    OBVIOUS
  <2>1. /\ c.state = "sent" /\ c.cmd \in cmds
        /\ c.for = IF c.cmd \in {"load_settings", "list_transfers"} THEN "home" ELSE "pane"
    BY <1>2 DEF Asks
  <2>2. \/ c.cmd = "load_settings" /\ t \in SettingsTabs
        \/ c.cmd = "get_dashboard" /\ t = "dashboard"
        \/ c.cmd = "queue_list" /\ t = "queue"
        \/ c.cmd = "persona_history_load" /\ t = "persona"
        \/ c.cmd = "share_status" /\ t = "sharing"
        \/ c.cmd = "list_sources" /\ t = "sources"
        \/ c.cmd = "list_transfers" /\ t = "transfers"
    BY <1>1, <2>1, ReadsFacts
  <2> QED BY <1>1, <2>1, <2>2 DEF Routed, Named, Awaiters, PaneOfCmd, SharesCmds, SettingsTabs
<1> QED BY <1>2, <1>4, <1>5, <1>6, TurnShape

\* The commands that are new.
LEMMA MountNew ==
    ASSUME Shape, AtMostOne, NEW t, NEW home, NEW cmds, NEW gone, NEW new, NEW out,
           MountMove(t, home, cmds, gone, new, out), NEW c \in new
    PROVE  /\ c.state = "sent" /\ Named(c) /\ c.for \in {"home", "pane"}
           /\ c.for = "home" <=> c.cmd \in {"load_settings", "list_transfers"}
           /\ c.cmd \in {"get_dashboard", "queue_list", "persona_history_load", "share_status",
                         "list_sources", "list_transfers", "load_settings"}
           /\ c.cmd = "get_dashboard" => t = "dashboard"
           /\ c.cmd = "queue_list" => t = "queue"
           /\ c.cmd = "persona_history_load" => t = "persona"
           /\ c.cmd = "share_status" => t = "sharing"
           /\ c.cmd = "list_sources" => t = "sources"
           /\ c.cmd = "list_transfers" => t = "transfers"
           /\ c.cmd = "load_settings" => "load_settings" \in cmds
<1>1. /\ c.state = "sent" /\ c.cmd \in cmds
      /\ c.for = IF c.cmd \in {"load_settings", "list_transfers"} THEN "home" ELSE "pane"
  BY DEF MountMove, Asks
<1>2. cmds \subseteq ReadsOf(t) \cup {"load_settings"}
  BY MountFrame
<1>3. /\ c.cmd \in {"get_dashboard", "queue_list", "persona_history_load", "share_status",
                    "list_sources", "list_transfers", "load_settings"}
      /\ c.cmd = "get_dashboard" => t = "dashboard"
      /\ c.cmd = "queue_list" => t = "queue"
      /\ c.cmd = "persona_history_load" => t = "persona"
      /\ c.cmd = "share_status" => t = "sharing"
      /\ c.cmd = "list_sources" => t = "sources"
      /\ c.cmd = "list_transfers" => t = "transfers"
  BY <1>1, <1>2, ReadsFacts
<1>4. Named(c)
  BY <1>3 DEF Named
<1> QED BY <1>1, <1>3, <1>4

\* A command that a new view sends alone is the only one on what it touches.
LEMMA MountOnly ==
    ASSUME Shape, AtMostOne, NEW t, NEW home, NEW cmds, NEW gone, NEW new, NEW out,
           MountMove(t, home, cmds, gone, new, out), NEW r, Alone(r)', NEW cmd \in cmds,
           \A c \in new : c.cmd = cmd => r \in Touches(c)
    PROVE  /\ On(inFlight', r) \subseteq new
           /\ On(inFlight', r) # {}
<1>1. Turn(gone, new, out) /\ \E c \in new : c.cmd = cmd
  BY DEF MountMove, Asks
<1>2. \E c \in new \cup out : r \in Touches(c)
  BY <1>1
<1>3. On(inFlight', r) = {c \in new : r \in Touches(c)}
  BY <1>1, <1>2, TouchedNew DEF Alone
<1> QED BY <1>1, <1>3

\* A call is new, or was there with what it carries.
LEMMA MountOld ==
    ASSUME Shape, AtMostOne, NEW t, NEW home, NEW cmds, NEW gone, NEW new, NEW out,
           MountMove(t, home, cmds, gone, new, out), NEW r, NEW c \in On(inFlight', r)
    PROVE  \/ c \in new
           \/ \E d \in On(inFlight, r) :
                /\ c.cmd = d.cmd /\ c.arg = d.arg /\ c.state = d.state /\ c.answer = d.answer
                /\ c.for = Heir(d, gone)
<1>1. Turn(gone, new, out)
  BY DEF MountMove
<1> QED BY <1>1, OnMoved

\* One lemma per part of the invariant.
LEMMA MountShares ==
    ASSUME Shape, AtMostOne, SharesInv, NEW t, NEW home, NEW cmds, NEW gone, NEW new, NEW out,
           MountMove(t, home, cmds, gone, new, out)
    PROVE  SharesInv'
<1>1. /\ ui'.tab = t /\ ui'.pane = Fresh(t) /\ vault' = vault /\ ReadsOf(t) \subseteq cmds
      /\ Turn(gone, new, out)
  BY MountFrame DEF MountMove, Turn
<1> SUFFICES ASSUME Alone("shares")'
             PROVE  /\ \A c \in On(inFlight', "shares") :
                         c.cmd = "share_status" /\ c.state = "done" => c.answer = vault.shares
                    /\ t = "sharing" =>
                         /\ \A c \in On(inFlight', "shares") : c.for = "pane"
                         /\ On(inFlight', "shares") # {}
  BY <1>1 DEF SharesInv
<1>2. Alone("shares")
  BY <1>1, OnlyGrows
<1>3. ASSUME NEW c \in On(inFlight', "shares"), c.cmd = "share_status", c.state = "done"
      PROVE  c.answer = vault.shares
  BY <1>2, <1>3, MountOld, MountNew DEF SharesInv
<1>4. ASSUME t = "sharing"
      PROVE  /\ \A c \in On(inFlight', "shares") : c.for = "pane"
             /\ On(inFlight', "shares") # {}
  <2>1. "share_status" \in cmds
    BY <1>1, <1>4, ReadsFacts
  <2>2. \A c \in new : c.cmd = "share_status" => "shares" \in Touches(c)
    BY TouchesFacts DEF SharesCmds
  <2>3. On(inFlight', "shares") \subseteq new /\ On(inFlight', "shares") # {}
    BY <2>1, <2>2, MountOnly
  <2>4. ASSUME NEW c \in On(inFlight', "shares") PROVE c.for = "pane"
    <3>1. c \in new /\ "shares" \in Touches(c)
      BY <2>3 DEF On
    <3>2. Named(c)
      BY <3>1, MountNew
    <3>3. c.cmd \in SharesCmds
      BY <3>1, <3>2, Touched
    <3> QED BY <3>1, <3>3, MountNew DEF SharesCmds
  <2> QED BY <2>3, <2>4
<1> QED BY <1>3, <1>4

LEMMA MountSources ==
    ASSUME Shape, AtMostOne, SourcesInv, NEW t, NEW home, NEW cmds, NEW gone, NEW new, NEW out,
           MountMove(t, home, cmds, gone, new, out)
    PROVE  SourcesInv'
<1>1. /\ ui'.tab = t /\ ui'.pane = Fresh(t) /\ vault' = vault /\ ReadsOf(t) \subseteq cmds
      /\ Turn(gone, new, out)
  BY MountFrame DEF MountMove, Turn
<1>2. t = "sources" => ~Shows(Fresh(t).status)
  BY FreshFacts, StateFacts
<1> SUFFICES ASSUME Alone("sources")'
             PROVE  /\ \A c \in On(inFlight', "sources") :
                         c.cmd = "list_sources" /\ c.state = "done" => c.answer = vault.connected
                    /\ t = "sources" => \A c \in On(inFlight', "sources") : c.for # "nobody"
  BY <1>1, <1>2 DEF SourcesInv
<1>3. Alone("sources")
  BY <1>1, OnlyGrows
<1>4. ASSUME NEW c \in On(inFlight', "sources"), c.cmd = "list_sources", c.state = "done"
      PROVE  c.answer = vault.connected
  BY <1>3, <1>4, MountOld, MountNew DEF SourcesInv
<1>5. ASSUME t = "sources"
      PROVE  \A c \in On(inFlight', "sources") : c.for # "nobody"
  <2>1. "list_sources" \in cmds
    BY <1>1, <1>5, ReadsFacts
  <2>2. \A c \in new : c.cmd = "list_sources" => "sources" \in Touches(c)
    BY TouchesFacts
  <2>3. On(inFlight', "sources") \subseteq new
    BY <2>1, <2>2, MountOnly
  <2> QED BY <2>3, MountNew
<1> QED BY <1>4, <1>5

LEMMA MountQueue ==
    ASSUME Shape, AtMostOne, QueueInv, NEW t, NEW home, NEW cmds, NEW gone, NEW new, NEW out,
           MountMove(t, home, cmds, gone, new, out)
    PROVE  QueueInv'
<1>1. /\ ui'.tab = t /\ ui'.pane = Fresh(t) /\ vault' = vault /\ ReadsOf(t) \subseteq cmds
      /\ Turn(gone, new, out)
  BY MountFrame DEF MountMove, Turn
<1>2. t = "queue" => ~Shows(Fresh(t).items)
  BY FreshFacts, StateFacts
<1> SUFFICES ASSUME Alone("queue")'
             PROVE  /\ \A c \in On(inFlight', "queue") :
                         c.cmd = "queue_list" /\ c.state = "done" => c.answer \subseteq vault.pending
                    /\ t = "queue" => \A c \in On(inFlight', "queue") : c.cmd # "queue_answer"
  BY <1>1, <1>2 DEF QueueInv
<1>3. Alone("queue")
  BY <1>1, OnlyGrows
<1>4. ASSUME NEW c \in On(inFlight', "queue"), c.cmd = "queue_list", c.state = "done"
      PROVE  c.answer \subseteq vault.pending
  BY <1>3, <1>4, MountOld, MountNew DEF QueueInv
<1>5. ASSUME t = "queue"
      PROVE  \A c \in On(inFlight', "queue") : c.cmd # "queue_answer"
  <2>1. "queue_list" \in cmds
    BY <1>1, <1>5, ReadsFacts
  <2>2. \A c \in new : c.cmd = "queue_list" => "queue" \in Touches(c)
    BY TouchesFacts
  <2>3. On(inFlight', "queue") \subseteq new
    BY <2>1, <2>2, MountOnly
  <2> QED BY <2>3, MountNew
<1> QED BY <1>4, <1>5

LEMMA MountTransfers ==
    ASSUME Shape, AtMostOne, NEW t, NEW home, NEW cmds, NEW gone, NEW new, NEW out,
           MountMove(t, home, cmds, gone, new, out)
    PROVE  TransfersInv'
<1>1. /\ ui'.tab = t /\ ReadsOf(t) \subseteq cmds
      /\ "load_settings" \in cmds => t # "transfers"
  BY MountFrame
<1> SUFFICES ASSUME Alone("transfers")', t = "transfers"
             PROVE  /\ \A c \in On(inFlight', "transfers") :
                         c.cmd = "list_transfers" /\ c.for = "home" /\ c.state = "sent"
                    /\ On(inFlight', "transfers") # {}
  BY <1>1 DEF TransfersInv
<1>2. "list_transfers" \in cmds
  BY <1>1, ReadsFacts
<1>3. \A c \in new : c.cmd = "list_transfers" => "transfers" \in Touches(c)
  BY TouchesFacts
<1>4. On(inFlight', "transfers") \subseteq new /\ On(inFlight', "transfers") # {}
  BY <1>2, <1>3, MountOnly
<1>5. ASSUME NEW c \in On(inFlight', "transfers")
      PROVE  c.cmd = "list_transfers" /\ c.for = "home" /\ c.state = "sent"
  <2>1. c \in new /\ "transfers" \in Touches(c)
    BY <1>4 DEF On
  <2>2. Named(c) /\ c.state = "sent"
    BY <2>1, MountNew
  <2>3. c.cmd \in {"trigger_ingest", "list_transfers", "load_settings"}
    BY <2>1, <2>2, Touched
  <2> QED BY <1>1, <2>1, <2>2, <2>3, MountNew
<1> QED BY <1>4, <1>5

\* A fetch for a view that is gone is forgotten.
LEMMA MountForgets ==
    ASSUME Shape, AtMostOne, NEW t, NEW home, NEW cmds, NEW gone, NEW new, NEW out,
           MountMove(t, home, cmds, gone, new, out), NEW r, NEW c \in On(inFlight', r),
           c.cmd \in {"get_dashboard", "get_graph"}
    PROVE  c \in new
<1> SUFFICES ASSUME c \notin new PROVE FALSE
  OBVIOUS
<1>1. /\ Turn(gone, new, out) /\ "pane" \in gone
      /\ {"graph", "panel", "load"} \subseteq gone \/ ui.tab = "unlock"
  BY MountFrame, ZenonT(40) DEF MountMove
<1>2. PICK d \in On(inFlight, r) : /\ c = Moved(d, gone) /\ Matters(c) /\ c.cmd = d.cmd
                                   /\ c.for = Heir(d, gone)
  BY <1>1, OnMoved
<1>3. Routed(d, ui)
  BY DEF Shape, Routing, On
<1>4. d.for \in gone
  BY <1>1, <1>2, <1>3, RoutedFacts
<1>5. c.for = "nobody"
  BY <1>2, <1>4, HeirParts
<1> QED BY <1>2, <1>5 DEF Matters, Reads

LEMMA MountGraph ==
    ASSUME Shape, AtMostOne, NEW t, NEW home, NEW cmds, NEW gone, NEW new, NEW out,
           MountMove(t, home, cmds, gone, new, out), Shape'
    PROVE  GraphInv' /\ DashboardInv'
<1>1. /\ ui'.tab = t /\ ui'.pane = Fresh(t)
  BY MountFrame
<1>2. t = "dashboard" => ~Shows(Fresh(t).graph) /\ ~Shows(Fresh(t).stats)
  BY FreshFacts, StateFacts
<1>3. \A c \in On(inFlight', "graph") : FALSE
  <2> SUFFICES ASSUME NEW c \in On(inFlight', "graph") PROVE FALSE
    OBVIOUS
  <2>1. Routed(c, ui') /\ Named(c)
    BY DEF Shape, Routing, Routed, On
  <2>2. c.cmd = "get_graph"
    BY <2>1, Touched DEF On
  <2> QED BY <2>2, MountForgets, MountNew
<1>4. ASSUME NEW c \in All(inFlight'), c.cmd = "get_dashboard" PROVE c.state = "sent"
  <2>1. c \in On(inFlight', "dashboard")
    BY <1>4, TouchesFacts DEF On
  <2> QED BY <1>4, <2>1, MountForgets, MountNew
<1> QED BY <1>1, <1>2, <1>3, <1>4 DEF GraphInv, DashboardInv

LEMMA MountLock ==
    ASSUME Shape, Shape', AtMostOne, LockInv, NEW t, NEW home, NEW cmds, NEW gone, NEW new, NEW out,
           MountMove(t, home, cmds, gone, new, out)
    PROVE  LockInv'
<1>1. /\ ui'.tab = t /\ vault' = vault /\ Turn(gone, new, out) /\ gone \subseteq Inner \cup {"home"}
  BY MountFrame DEF MountMove, Turn
<1> SUFFICES ASSUME Alone("lock")'
             PROVE  /\ IF \E c \in On(inFlight', "lock") : c.cmd = "get_status" \/ c.state = "done"
                       THEN t = "unlock" <=> vault.open
                       ELSE t = "unlock" <=> ~vault.open
                    /\ \A c \in On(inFlight', "lock") :
                         /\ c.cmd = "get_status" /\ c.state # "sent" =>
                              c.answer = (IF vault.open THEN "open" ELSE "locked")
                         /\ c.cmd = "unlock" => t = "unlock"
                         /\ c.cmd = "lock" => t # "unlock"
                         /\ c.cmd \in {"lock", "get_status"} => c.state # "failed"
  BY <1>1 DEF LockInv
<1>2. Alone("lock")
  BY <1>1, OnlyGrows
<1>3. /\ IF \E c \in On(inFlight, "lock") : c.cmd = "get_status" \/ c.state = "done"
         THEN ui.tab = "unlock" <=> vault.open
         ELSE ui.tab = "unlock" <=> ~vault.open
      /\ \A c \in On(inFlight, "lock") :
           /\ c.cmd = "get_status" /\ c.state # "sent" =>
                c.answer = (IF vault.open THEN "open" ELSE "locked")
           /\ c.cmd = "unlock" => ui.tab = "unlock"
           /\ c.cmd = "lock" => ui.tab # "unlock"
           /\ c.cmd \in {"lock", "get_status"} => c.state # "failed"
  BY <1>2 DEF LockInv
<1>4. \A c \in new : "lock" \notin Touches(c)
  BY MountNew, TouchesFacts DEF SharesCmds
<1>5. ASSUME NEW open \in BOOLEAN, StatusSeen(out, open), t = "unlock" <=> ~open
      PROVE  /\ On(inFlight', "lock") = {}
             /\ t = "unlock" <=> ~vault.open
  <2>1. PICK i \in DOMAIN inFlight :
          /\ out = {inFlight[i]} /\ inFlight[i].cmd = "get_status" /\ inFlight[i].state # "sent"
          /\ (inFlight[i].answer = "open") <=> open
    BY <1>5 DEF StatusSeen
  <2>2. "lock" \in Touches(inFlight[i]) /\ inFlight[i] \in On(inFlight, "lock")
    BY <2>1, TouchesFacts, CallFacts DEF On
  <2>3. On(inFlight', "lock") = {}
    <3>1. \E c \in new \cup out : "lock" \in Touches(c)
      BY <2>1, <2>2
    <3>2. On(inFlight', "lock") = {c \in new : "lock" \in Touches(c)}
      BY <1>1, <3>1, TouchedNew DEF Alone
    <3> QED BY <1>4, <3>2
  <2>4. inFlight[i].answer = (IF vault.open THEN "open" ELSE "locked")
    BY <1>3, <2>1, <2>2
  <2> QED BY <1>5, <2>1, <2>3, <2>4
<1>6. CASE Unlocked(t, home, cmds, gone, out) \/ LockedUp(t, home, cmds, gone, out)
  <2>1. On(inFlight', "lock") = {} /\ (t = "unlock" <=> ~vault.open)
    <3>1. CASE Unlocked(t, home, cmds, gone, out)
      BY <1>5, <3>1 DEF Unlocked
    <3>2. CASE LockedUp(t, home, cmds, gone, out)
      BY <1>5, <3>2 DEF LockedUp
    <3> QED BY <1>6, <3>1, <3>2
  <2> QED BY <2>1
<1>7. CASE \/ TabTurned(t, home, cmds, gone, out) \/ TabOpened(t, home, cmds, gone, out)
           \/ Bumped(t, home, cmds, gone, out)
  <2>1. /\ ui.tab # "unlock" /\ t # "unlock"
        /\ \A d \in out : d.cmd \in {"queue_answer", "trigger_ingest"}
    BY <1>7 DEF TabTurned, TabOpened, Bumped, InSettings, SettingsTabs, Tabs
  <2>2. \A c \in On(inFlight', "lock") : \E d \in On(inFlight, "lock") :
          c.cmd = d.cmd /\ c.state = d.state /\ c.answer = d.answer
    <3> SUFFICES ASSUME NEW c \in On(inFlight', "lock")
                 PROVE  \E d \in On(inFlight, "lock") :
                          c.cmd = d.cmd /\ c.state = d.state /\ c.answer = d.answer
      OBVIOUS
    <3>1. c \notin new
      BY <1>4 DEF On
    <3> QED BY <3>1, MountOld
  <2>3. \A d \in On(inFlight, "lock") : \E c \in On(inFlight', "lock") :
          c.cmd = d.cmd /\ c.state = d.state
    <3> SUFFICES ASSUME NEW d \in On(inFlight, "lock")
                 PROVE  \E c \in On(inFlight', "lock") : c.cmd = d.cmd /\ c.state = d.state
      OBVIOUS
    <3>1. Routed(d, ui) /\ CallShape(d) /\ Named(d)
      BY ShapedCalls DEF Shape, Routing, Routed, On
    <3>2. d.cmd \in {"lock", "unlock", "get_status"}
      BY <3>1, Touched DEF On
    <3>3. d \notin out
      BY <2>1, <3>2
    <3>4. CASE d.for \notin gone
      BY <1>1, <3>3, <3>4, OnMoved
    <3>5. CASE d.for \in gone
      <4>1. d.cmd \in {"lock", "unlock"}
        BY <1>1, <3>1, <3>2, <3>5, RoutedFacts DEF Inner
      <4>2. Heir(d, gone) # "nobody"
        BY <1>1, <3>5, <4>1, HeirStays DEF Inner
      <4>3. Matters(Moved(d, gone)) /\ Moved(d, gone).cmd = d.cmd /\ Moved(d, gone).state = d.state
        BY <3>1, <4>2, MovedFacts DEF Matters
      <4> QED BY <1>1, <3>3, <4>3, OnMoved
    <3> QED BY <3>4, <3>5
  <2> QED BY <1>3, <2>1, <2>2, <2>3
<1> QED BY <1>6, <1>7 DEF MountMove

\* A tab of the settings page is turned: the page around it stays.
LEMMA TurnConfig ==
    ASSUME ViewsIInv, NEW t, NEW home, NEW cmds, NEW gone, NEW new, NEW out,
           MountMove(t, home, cmds, gone, new, out), TabTurned(t, home, cmds, gone, out)
    PROVE  ConfigInv' /\ HomeInv'
<1>1. /\ Turn(gone, new, out) /\ vault' = vault /\ ui'.tab = t /\ ui'.home = ui.home
      /\ ui.tab \in SettingsTabs /\ gone = Inner /\ out = {} /\ "load_settings" \notin cmds
  <2>1. ui'.tab = t /\ ui'.home = home
    BY MountFrame DEF ViewsIInv
  <2>2. /\ home = ui.home /\ ui.tab \in SettingsTabs /\ gone = Inner /\ out = {}
        /\ cmds = ReadsOf(t)
    BY DEF TabTurned, InSettings
  <2> QED BY <2>1, <2>2, ReadsFacts DEF MountMove, Turn
<1>2. Shape /\ AtMostOne /\ ConfigInv /\ HomeInv
  BY DEF ViewsIInv
<1>3. \A c \in new \cup out : "config" \notin Touches(c) /\ "lock" \notin Touches(c)
  BY <1>1, <1>2, MountNew, TouchesFacts DEF SharesCmds
<1>4. ASSUME NEW c \in All(inFlight), c.for \in gone
      PROVE  "config" \notin Touches(c) /\ "lock" \notin Touches(c)
  <2>1. Routed(c, ui) /\ Named(c) /\ c.for \notin {"home", "app", "nobody"}
    BY <1>1, <1>2, <1>4 DEF Shape, Routing, Routed, Inner
  <2>2. c.cmd \notin {"load_settings", "get_config", "set_transfer_policy", "set_server_enabled",
                      "set_llm_config", "lock", "get_status"}
    BY <2>1, RoutedFacts
  <2>3. c.cmd # "unlock"
    BY <1>1, <2>1, RoutedFacts DEF SettingsTabs
  <2> QED BY <2>1, <2>2, <2>3, Touched
<1>5. On(inFlight', "config") = On(inFlight, "config") /\ On(inFlight', "lock") = On(inFlight, "lock")
  BY <1>1, <1>2, <1>3, <1>4, Untouched
<1>6. SameOn("config") /\ SameOn("lock")
  BY <1>1, <1>5 DEF SameOn, Turn, Traffic
<1> QED BY <1>1, <1>2, <1>6, ConfigAsBefore, HomeAsBefore

LEMMA MountConfig ==
    ASSUME ViewsIInv, Shape', NEW t, NEW home, NEW cmds, NEW gone, NEW new, NEW out,
           MountMove(t, home, cmds, gone, new, out)
    PROVE  ConfigInv' /\ HomeInv'
<1>1. /\ Turn(gone, new, out) /\ vault' = vault /\ ui'.tab = t /\ ui'.home = home
      /\ "load_settings" \in cmds => t \in SettingsTabs
  BY MountFrame DEF ViewsIInv, MountMove, Turn
<1>2. Shape /\ AtMostOne /\ ConfigInv /\ HomeInv
  BY DEF ViewsIInv
<1>3. CASE TabTurned(t, home, cmds, gone, out)
  BY <1>3, TurnConfig
<1>4. ASSUME Alone("config")', NEW c \in On(inFlight', "config")
      PROVE  /\ c.cmd = "load_settings" /\ c.state = "done" => c.answer.config = vault.config
             /\ c.cmd = "get_config" /\ c.state = "done" => c.answer = vault.config
             /\ c.cmd = "set_llm_config" /\ "model" \notin c.arg.typed =>
                  c.arg.model = vault.config.model
  <2>1. Alone("config")
    BY <1>1, <1>4, OnlyGrows
  <2> QED BY <1>2, <2>1, <1>4, MountOld, MountNew DEF ConfigInv
<1>5. CASE t \notin SettingsTabs
  BY <1>1, <1>4, <1>5 DEF ConfigInv, HomeInv, InSettings
<1>6. CASE t \in SettingsTabs /\ ~TabTurned(t, home, cmds, gone, out)
  <2>1. home = Home /\ "load_settings" \in cmds
    <3>1. TabOpened(t, home, cmds, gone, out)
      BY <1>6 DEF MountMove, Bumped, Unlocked, LockedUp, SettingsTabs
    <3> QED BY <1>6, <3>1 DEF TabOpened, HomeOf, LoadsOf
  <2>2. ~Shows(Home.config) /\ Home.typed = {} /\ ~Home.saved
    BY HomeFresh, StateFacts
  <2>3. HomeInv'
    BY <1>1, <2>1, <2>2 DEF HomeInv
  <2>4. ASSUME Alone("config")', NEW c \in On(inFlight', "config")
        PROVE  c.cmd = "load_settings" /\ c.for = "home"
    <3>1. \A d \in new : d.cmd = "load_settings" => "config" \in Touches(d)
      BY TouchesFacts
    <3>2. c \in new /\ "config" \in Touches(c)
      BY <1>2, <2>1, <2>4, <3>1, MountOnly DEF On
    <3>3. Named(c)
      BY <1>2, <3>2, MountNew
    <3>4. c.cmd \in {"load_settings", "get_config", "set_transfer_policy", "set_server_enabled",
                     "set_llm_config"}
      BY <3>2, <3>3, Touched
    <3> QED BY <1>2, <3>2, <3>4, MountNew
  <2>5. ConfigInv'
    BY <1>1, <1>4, <2>1, <2>2, <2>4 DEF ConfigInv
  <2> QED BY <2>3, <2>5
<1> QED BY <1>3, <1>5, <1>6

LEMMA MountScope ==
    ASSUME Shape, AtMostOne, ScopeInv, NEW t, NEW home, NEW cmds, NEW gone, NEW new, NEW out,
           MountMove(t, home, cmds, gone, new, out)
    PROVE  ScopeInv'
<1>1. Turn(gone, new, out) /\ vault' = vault /\ ui'.panel = NoView
  BY MountFrame DEF MountMove, Turn
<1>2. ui'.panel.view # "scope"
  BY <1>1 DEF NoView
<1> SUFFICES ASSUME Alone("scope")', NEW c \in On(inFlight', "scope")
             PROVE  /\ c.cmd = "get_session_scope" /\ c.state = "done" => c.answer = vault.scope
                    /\ c.cmd = "set_session_scope" /\ c.state = "sent" =>
                         SymDiff(c.arg.roots, vault.scope) \subseteq c.arg.toggled
  BY <1>1, <1>2 DEF ScopeInv
<1>3. Alone("scope")
  BY <1>1, OnlyGrows
<1>4. c.cmd \in {"get_session_scope", "set_session_scope"} => c \notin new
  BY MountNew
<1>5. ASSUME c.cmd \in {"get_session_scope", "set_session_scope"}
      PROVE  \E d \in On(inFlight, "scope") :
                /\ c.cmd = d.cmd /\ c.arg = d.arg /\ c.state = d.state /\ c.answer = d.answer
  BY <1>4, <1>5, MountOld
<1> QED BY <1>3, <1>5 DEF ScopeInv

LEMMA MountThread ==
    ASSUME Shape, Shape', AtMostOne, ThreadInv,
           NEW t, NEW home, NEW cmds, NEW gone, NEW new, NEW out,
           MountMove(t, home, cmds, gone, new, out)
    PROVE  ThreadInv' /\ PersonaInv'
<1>1. /\ ui'.tab = t /\ ui'.pane = Fresh(t) /\ vault' = vault /\ ReadsOf(t) \subseteq cmds
      /\ Turn(gone, new, out)
  BY MountFrame DEF MountMove, Turn
<1>2. t = "persona" => Fresh(t).messages = <<>> /\ ~Fresh(t).loaded
  BY FreshFacts
<1>3. ASSUME NEW c \in On(inFlight', "thread")
      PROVE  \/ c.state = "sent" /\ c.cmd = "persona_history_load"
             \/ \E d \in On(inFlight, "thread") :
                   /\ c.cmd = d.cmd /\ c.arg = d.arg /\ c.state = d.state /\ c.answer = d.answer
  <2>1. CASE c \in new
    <3>1. Named(c) /\ "thread" \in Touches(c)
      BY <2>1, MountNew DEF On
    <3>2. c.cmd \in {"persona_history_load", "persona_history_save"}
      BY <3>1, Touched
    <3> QED BY <2>1, <3>2, MountNew
  <2> QED BY <2>1, MountOld
<1>4. ThreadShape'
  <2>1. ThreadShape
    BY DEF ThreadInv
  <2>2. <<>> \in Threads
    BY DEF Threads
  <2>3. \A c \in On(inFlight', "thread") :
          /\ c.cmd = "persona_history_load" /\ c.state = "done" => c.answer \in Threads
          /\ c.cmd = "persona_history_save" => c.arg.thread \in Threads
    BY <1>3, <2>1 DEF ThreadShape
  <2> QED BY <1>1, <1>2, <2>1, <2>2, <2>3 DEF ThreadShape
<1>5. ThreadKept'
  <2> SUFFICES ASSUME Alone("thread")', NEW c \in On(inFlight', "thread")
               PROVE  /\ c.cmd = "persona_history_load" /\ c.state = "done" =>
                           c.answer = vault.thread
                      /\ c.cmd = "persona_history_save" =>
                           c.arg.fresh \/ Extends(vault.thread, c.arg.thread)
    BY <1>1, <1>2 DEF ThreadKept
  <2>1. Alone("thread") /\ ThreadKept
    BY <1>1, OnlyGrows DEF ThreadInv
  <2> QED BY <1>3, <2>1 DEF ThreadKept
<1>6. PersonaInv'
  <2> SUFFICES ASSUME Alone("thread")', t = "persona", NEW c \in On(inFlight', "thread")
               PROVE  c.state # "failed"
    BY <1>1, <1>2 DEF PersonaInv
  <2>1. "persona_history_load" \in cmds
    BY <1>1, ReadsFacts
  <2>2. \A d \in new : d.cmd = "persona_history_load" => "thread" \in Touches(d)
    BY TouchesFacts
  <2>3. c \in new
    BY <2>1, <2>2, MountOnly
  <2> QED BY <2>3, MountNew
<1> QED BY <1>4, <1>5, <1>6 DEF ThreadInv

LEMMA MountMinted ==
    ASSUME Shape, AtMostOne, MintedInv, NEW t, NEW home, NEW cmds, NEW gone, NEW new, NEW out,
           MountMove(t, home, cmds, gone, new, out)
    PROVE  MintedInv'
<1>1. /\ Turn(gone, new, out) /\ out \subseteq All(inFlight) /\ \A d \in out : d.state # "sent"
      /\ \A d \in out : d.cmd \in {"queue_answer", "trigger_ingest", "get_status"}
  <2>1. Turn(gone, new, out)
    BY DEF MountMove
  <2>2. /\ out \subseteq All(inFlight) /\ \A d \in out : d.state # "sent"
        /\ \A d \in out : d.cmd \in {"queue_answer", "trigger_ingest", "get_status"}
    BY MountFrame
  <2> QED BY <2>1, <2>2
<1>2. \A c \in new : c.cmd # "issue_share_token"
  BY MountNew
<1> QED BY <1>1, <1>2, TurnMinted

\* Together: a mounted view keeps the invariant.
LEMMA MountKeeps ==
    ASSUME ViewsIInv, MountStep
    PROVE  ViewsIInv'
<1>1. PICK t, home, cmds, gone, new, out : MountMove(t, home, cmds, gone, new, out)
  BY MountStepMoves DEF ViewsIInv, MountMoves
<1>2. Shape' /\ AtMostOne'
  BY <1>1, MountShape DEF ViewsIInv
<1>3. SharesInv' /\ SourcesInv' /\ QueueInv' /\ TransfersInv' /\ MintedInv'
  BY <1>1, MountShares, MountSources, MountQueue, MountTransfers, MountMinted DEF ViewsIInv
<1>4. GraphInv' /\ DashboardInv' /\ LockInv'
  BY <1>1, <1>2, MountGraph, MountLock DEF ViewsIInv
<1>5. ConfigInv' /\ HomeInv' /\ ScopeInv'
  BY <1>1, <1>2, MountConfig, MountScope DEF ViewsIInv
<1>6. ThreadInv' /\ PersonaInv'
  BY <1>1, <1>2, MountThread DEF ViewsIInv
<1>7. ControlInv' /\ FactInv'
  <2>1. Turn(gone, new, out) /\ ui'.panel = NoView
    BY <1>1, MountFrame DEF ViewsIInv, MountMove
  <2>2. \A c \in new : c.cmd \notin {"get_fact", "set_fact_sharing"}
    BY <1>1, MountNew DEF ViewsIInv
  <2> QED BY <1>2, <2>1, <2>2, ControlGone DEF ViewsIInv
<1> QED BY <1>2, <1>3, <1>4, <1>5, <1>6, <1>7 DEF ViewsIInv

-----------------------------------------------------------------------------
(* An answer that concerns the frames only, and mounts nothing.            *)

BumpStill(i) ==
    /\ QuestionAnswered(i) \/ SyncEnded(i)
    /\ inFlight[i].for = "shell" /\ ~BumpMounts(i)

LEMMA BumpKeeps ==
    ASSUME ViewsIInv, NEW i \in DOMAIN inFlight, BumpStill(i)
    PROVE  ViewsIInv'
<1>1. PICK x : x = inFlight[i]
  OBVIOUS
<1>2. /\ x.cmd \in {"queue_answer", "trigger_ingest"} /\ x.for = "shell" /\ Bump(i)
      /\ ~(x.state = "done" /\ ui.tab = "dashboard")
  BY <1>1 DEF BumpStill, BumpMounts, QuestionAnswered, SyncEnded, Answers, Done
<1>3. Answered(i, ui, {}, <<>>)
  BY <1>1, <1>2 DEF Bump, Done
<1>4. Shape /\ AtMostOne /\ QueueInv /\ TransfersInv /\ DashboardInv
  BY DEF ViewsIInv
<1>5. Turn({}, {}, {x}) /\ ui' = ui
  BY <1>1, <1>3, <1>4, AnswerNone
<1>6. PICK rs : rs = {"queue", "transfers"}
  OBVIOUS
<1>7. Shape' /\ AtMostOne' /\ Frame(rs)
  <2>1. Touches(x) \subseteq rs
    BY <1>2, <1>6, TouchesFacts
  <2>2. \A c \in {} : FromPane(c)
    OBVIOUS
  <2>3. \A c \in {} \cup {x} : Touches(c) \subseteq rs
    BY <2>1
  <2> QED BY <1>4, <1>5, <2>2, <2>3, StillTurn
<1>8. "queue" \in Touches(x) /\ x \in All(inFlight)
  BY <1>1, <1>2, <1>4, TouchesFacts, CallFacts
<1>9. vault' = vault /\ spent'.faults = spent.faults
  BY <1>5 DEF Turn
<1>10. QueueInv'
  <2> SUFFICES ASSUME Alone("queue")'
               PROVE  /\ On(inFlight', "queue") = {}
                      /\ ui.tab = "queue" /\ Shows(ui.pane.items) /\ ~ui.pane.error =>
                           ui.pane.items.data \subseteq vault.pending
    BY <1>5, <1>9 DEF QueueInv
  <2>1. \E c \in {} \cup {x} : "queue" \in Touches(c)
    BY <1>8
  <2>2. On(inFlight', "queue") = {}
    <3>1. On(inFlight', "queue") = {c \in {} : "queue" \in Touches(c)}
      BY <1>5, <2>1, TouchedNew DEF Alone
    <3> QED BY <3>1
  <2>3. On(inFlight, "queue") \subseteq {x}
    <3>1. On(inFlight, "queue") \subseteq {} \cup {x}
      BY <1>4, <1>5, <2>1, TouchedBefore DEF Alone
    <3> QED BY <3>1
  <2>4. Alone("queue")
    BY <1>5, OnlyGrows
  <2>5. x \in On(inFlight, "queue")
    BY <1>8 DEF On
  <2> QED BY <1>2, <1>4, <2>2, <2>3, <2>4, <2>5 DEF QueueInv
<1>11. TransfersInv'
  <2> SUFFICES ASSUME Alone("transfers"), ui.tab = "transfers" PROVE TransfersInv'
    BY <1>5, OnlyGrows DEF TransfersInv
  <2>1. "transfers" \notin Touches(x)
    <3> SUFFICES ASSUME "transfers" \in Touches(x) PROVE FALSE
      OBVIOUS
    <3>1. x \in On(inFlight, "transfers")
      BY <1>8 DEF On
    <3>2. x.cmd = "list_transfers"
      BY <1>4, <3>1 DEF TransfersInv
    <3> QED BY <1>2, <3>2
  <2>2. On(inFlight', "transfers") = On(inFlight, "transfers")
    BY <1>4, <1>5, <2>1, Untouched
  <2>3. SameOn("transfers")
    BY <1>7, <2>2 DEF SameOn, Frame
  <2> QED BY <1>4, <1>5, <1>9, <2>3, TransfersAsBefore
<1>12. DashboardInv'
  <2> SUFFICES ASSUME spent.faults = 0, ui.tab = "dashboard", ~(\E c \in All(inFlight') : Bumps(c))
               PROVE  /\ Shows(ui.pane.stats) => ui.pane.stats.data = Now
                      /\ \A c \in All(inFlight') :
                           c.cmd = "get_dashboard" /\ c.state = "done" => c.answer = Now
    BY <1>5, <1>9 DEF DashboardInv, Now
  <2>1. ~(\E c \in All(inFlight) : Bumps(c))
    <3> SUFFICES ASSUME NEW c \in All(inFlight), Bumps(c) PROVE c \in All(inFlight')
      OBVIOUS
    <3>1. c # x /\ c \in On(inFlight, "queue")
      BY <1>2, TouchesFacts DEF Bumps, On
    <3>2. c \in On(inFlight', "queue")
      BY <1>4, <1>5, <3>1, OnMoved
    <3> QED BY <3>2 DEF On
  <2>2. ASSUME NEW c \in All(inFlight'), c.cmd = "get_dashboard" PROVE c \in All(inFlight)
    <3>1. c \in On(inFlight', "dashboard") /\ "dashboard" \notin rs
      BY <1>6, <2>2, TouchesFacts DEF On
    <3>2. c \in On(inFlight, "dashboard")
      BY <1>7, <3>1 DEF Frame
    <3> QED BY <3>2 DEF On
  <2> QED BY <1>4, <2>1, <2>2 DEF DashboardInv
<1>13. /\ "shares" \notin rs /\ "sources" \notin rs /\ "graph" \notin rs
       /\ "lock" \notin rs /\ "config" \notin rs /\ "scope" \notin rs /\ "thread" \notin rs
       /\ Facts \cap rs = {} /\ rs \cap {"config", "lock"} = {} /\ rs \cap {"thread", "lock"} = {}
  BY <1>6, PageNames DEF Resources
<1>14. MintedInv' /\ SharesInv' /\ SourcesInv' /\ GraphInv' /\ LockInv' /\ ConfigInv' /\ HomeInv'
  BY <1>5, <1>7, <1>13, FrameKeeps
<1>15. ScopeInv' /\ ControlInv' /\ FactInv' /\ ThreadInv' /\ PersonaInv'
  BY <1>5, <1>7, <1>13, FrameKeeps
<1> QED BY <1>7, <1>10, <1>11, <1>12, <1>14, <1>15 DEF ViewsIInv

=============================================================================
