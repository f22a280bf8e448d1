--------------------------- MODULE ViewsInvariant ---------------------------
(***************************************************************************)
(* The inductive invariant of Views, and the lemmas that every handler of  *)
(* a view needs: what its commands become, who awaits them then, and what  *)
(* it leaves alone. The theorems are in DesktopProofs.                     *)
(*                                                                         *)
(* The invariant has one part per resource (the lock, the pages, the       *)
(* configuration, the conversation, ...), which relates what a view shows, *)
(* what is in flight and what is stored. A handler works on the resources  *)
(* of its own view, so the lemmas come in kinds. For a group X of handlers *)
(*   XMove(s)   says what each of them does, in a form they share;         *)
(*   XFrame     what it leaves alone;                                      *)
(*   XOwn       that it keeps the parts about its own resources;           *)
(*   XKeeps     that it keeps the whole invariant.                         *)
(* XAsBefore says that a step which leaves the resource X alone keeps the  *)
(* part about it; MountX and BackX (in the modules that follow) that a     *)
(* view mounted anew and the end of a command do.                          *)
(*                                                                         *)
(* Here: the queue, sharing and sources tabs, the dialogs and the chat.    *)
(***************************************************************************)
EXTENDS Views, FiniteSetTheorems, WellFoundedInduction, SequenceTheorems, TLAPS

-----------------------------------------------------------------------------
(* Commands in flight, and those on one resource.                          *)
All(s) == {s[i] : i \in DOMAIN s}
On(s, r) == {c \in All(s) : r \in Touches(c)}
OneOn(s, r) ==
  \A i, j \in DOMAIN s : r \in Touches(s[i]) /\ r \in Touches(s[j]) => i = j

\* The sharing state of a page is on its way to the backend and to its control.
Saving(c) == c.cmd = "set_fact_sharing" /\ c.for = "panel"
OneSave(s) == \A i, j \in DOMAIN s : Saving(s[i]) /\ Saving(s[j]) => i = j

-----------------------------------------------------------------------------
(* The views and the commands in flight, field by field.                   *)
CallShape(c) ==
  /\ c = [cmd |-> c.cmd, arg |-> c.arg, for |-> c.for, state |-> c.state, answer |-> c.answer]
  /\ c.state \in {"sent", "done", "failed"}
  /\ c.state # "done" => c.answer = Null

\* Views, field by field.
View(tab, pane, panel, home) == [tab |-> tab, pane |-> pane, panel |-> panel, home |-> home]
QueuePane(items, busyId, error) ==
  [view |-> "queue", items |-> items, busyId |-> busyId, error |-> error]
QueueShape(p) == p = QueuePane(p.items, p.busyId, p.error)
PersonaPane(messages, sending, loaded, fresh) ==
  [view |-> "persona", messages |-> messages, sending |-> sending, loaded |-> loaded,
   fresh |-> fresh]
PersonaShape(p) == p = PersonaPane(p.messages, p.sending, p.loaded, p.fresh)
SharingPane(status, loading, busy, error, picked, issued) ==
  [view |-> "sharing", status |-> status, loading |-> loading, busy |-> busy, error |-> error,
   picked |-> picked, issued |-> issued]
SharingShape(p) == p = SharingPane(p.status, p.loading, p.busy, p.error, p.picked, p.issued)
SourcesPane(status, run, error) ==
  [view |-> "sources", status |-> status, run |-> run, error |-> error]
SourcesShape(p) == p = SourcesPane(p.status, p.run, p.error)
UnlockPane(busy, error) == [view |-> "unlock", busy |-> busy, error |-> error]
UnlockShape(p) == p = UnlockPane(p.busy, p.error)
DashboardPane(stats, graph, scope, selected) ==
  [view |-> "dashboard", stats |-> stats, graph |-> graph, scope |-> scope,
   selected |-> selected]
DashboardShape(p) == p = DashboardPane(p.stats, p.graph, p.scope, p.selected)
HomeView(cfg, model, typed, loading, busy, error, noted, transfers) ==
  [view |-> "home", config |-> cfg, model |-> model, typed |-> typed, loading |-> loading,
   busy |-> busy, error |-> error, saved |-> noted, transfers |-> transfers]
HomeShape(p) ==
  p = HomeView(p.config, p.model, p.typed, p.loading, p.busy, p.error, p.saved, p.transfers)
ControlPanel(fact, visibility, category, picked, busy, error, noted) ==
  [view |-> "control", fact |-> fact, visibility |-> visibility, category |-> category,
   picked |-> picked, busy |-> busy, error |-> error, saved |-> noted]
ControlShape(p) ==
  p = ControlPanel(p.fact, p.visibility, p.category, p.picked, p.busy, p.error, p.saved)
ScopePanel(shown, selected, toggled, saving, error) ==
  [view |-> "scope", shown |-> shown, selected |-> selected, toggled |-> toggled,
   saving |-> saving, error |-> error]
ScopeShape(p) == p = ScopePanel(p.shown, p.selected, p.toggled, p.saving, p.error)
ConnectPanel(saving, note, error) ==
  [view |-> "connect", saving |-> saving, note |-> note, error |-> error]
ConnectShape(p) == p = ConnectPanel(p.saving, p.note, p.error)

UiShape ==
  /\ ui = View(ui.tab, ui.pane, ui.panel, ui.home)
  /\ ui.tab \in Tabs \cup {"unlock"}
  /\ ui.tab = "dashboard" => DashboardShape(ui.pane)
  /\ ui.tab = "queue" => QueueShape(ui.pane)
  /\ ui.tab = "persona" => PersonaShape(ui.pane)
  /\ ui.tab = "sharing" => SharingShape(ui.pane)
  /\ ui.tab = "sources" => SourcesShape(ui.pane)
  /\ ui.tab = "unlock" => UnlockShape(ui.pane)
  /\ ui.tab \in {"general", "transfers"} => ui.pane = NoView
  /\ InSettings => HomeShape(ui.home)
  /\ ~InSettings => ui.home = NoView
  /\ \/ ui.panel = NoView
     \/ /\ ui.panel.view = "control" /\ ControlShape(ui.panel)
        /\ ui.tab = "dashboard" /\ Shows(ui.pane.stats) /\ ui.pane.selected \in Facts
        /\ Shows(ui.panel.fact) => ui.panel.fact.data = ui.pane.selected
     \/ ui.tab = "sources" /\ ui.panel.view = "scope" /\ ScopeShape(ui.panel)
     \/ ui.tab = "sources" /\ ui.panel.view = "connect" /\ ConnectShape(ui.panel)

VaultShape ==
  /\ vault = [open |-> vault.open, sharing |-> vault.sharing, pending |-> vault.pending,
              facts |-> vault.facts, thread |-> vault.thread, config |-> vault.config,
              shares |-> vault.shares, minted |-> vault.minted, connected |-> vault.connected,
              scope |-> vault.scope, sent |-> vault.sent]
  /\ vault.open \in BOOLEAN
  /\ vault.minted \subseteq Secrets
  /\ vault.sharing = [f \in Facts |-> vault.sharing[f]]
  /\ \A f \in Facts : vault.sharing[f] = [visibility |-> vault.sharing[f].visibility,
                                          category |-> vault.sharing[f].category]
  /\ vault.config = [policy |-> vault.config.policy, server |-> vault.config.server,
                     model |-> vault.config.model, keys |-> vault.config.keys]
  /\ vault.shares = [enabled |-> vault.shares.enabled, tunnel |-> vault.shares.tunnel,
                     live |-> vault.shares.live]
SeenShape ==
  /\ seen = [shown |-> seen.shown, overlapped |-> seen.overlapped, left |-> seen.left]
  /\ seen.left \in BOOLEAN
  /\ spent = [clicks |-> spent.clicks, opens |-> spent.opens, faults |-> spent.faults]
  /\ spent.faults \in Nat
CallsShape ==
  /\ Len(inFlight) \in Nat /\ inFlight = [i \in 1..Len(inFlight) |-> inFlight[i]]
  /\ \A i \in DOMAIN inFlight : CallShape(inFlight[i])

-----------------------------------------------------------------------------
(* Which view awaits a command: the handlers find the view they were sent  *)
(* from, whatever was unmounted meanwhile.                                 *)
SharesCmds == {"share_status", "set_sharing_enabled", "issue_share_token",
                  "revoke_share_token", "share_tunnel"}
PaneOfCmd(cmd) ==
  CASE cmd = "get_dashboard" -> "dashboard"
    [] cmd \in {"queue_list", "queue_answer"} -> "queue"
    [] cmd \in {"persona_history_load", "persona_chat"} -> "persona"
    [] cmd \in SharesCmds -> "sharing"
    [] cmd \in {"list_sources", "trigger_ingest", "disconnect_source", "connect_source",
                "set_session_scope"} -> "sources"
    [] cmd = "unlock" -> "unlock"
    [] OTHER -> "none"
Awaiters(cmd) ==
  CASE cmd = "get_fact" -> {"load"}
    [] cmd = "set_fact_sharing" -> {"panel", "nobody"}
    [] cmd = "get_session_scope" -> {"panel"}
    [] cmd = "get_graph" -> {"graph"}
    [] cmd \in {"get_dashboard", "queue_list", "persona_history_load", "share_status",
                "list_sources"} -> {"pane"}
    [] cmd = "queue_answer" -> {"pane", "shell"}
    [] cmd = "trigger_ingest" -> {"pane", "home", "shell"}
    [] cmd \in {"load_settings", "get_config", "list_transfers"} -> {"home"}
    [] cmd \in {"set_transfer_policy", "set_server_enabled", "set_llm_config"} -> {"home", "nobody"}
    [] cmd = "persona_history_save" -> {"nobody"}
    [] cmd \in {"persona_chat", "set_sharing_enabled", "issue_share_token", "revoke_share_token",
                "share_tunnel", "disconnect_source"} -> {"pane", "nobody"}
    [] cmd \in {"connect_source", "set_session_scope"} -> {"panel", "pane", "nobody"}
    [] cmd = "lock" -> {"home", "app"}
    [] cmd = "unlock" -> {"pane", "app"}
    [] cmd = "get_status" -> {"app"}
    [] OTHER -> {}
PanelOfCmd(cmd) ==
  CASE cmd = "set_fact_sharing" -> "control"
    [] cmd = "connect_source" -> "connect"
    [] cmd \in {"get_session_scope", "set_session_scope"} -> "scope"
    [] OTHER -> "none"
\* The commands about a page name a page of the graph.
Named(c) == c.cmd \in {"get_fact", "set_fact_sharing"} => c.arg.fact \in Facts
Routed(c, u) ==
  /\ c.for \in Awaiters(c.cmd)
  /\ c.for = "nobody" => c.state = "sent" /\ c.cmd \notin Reads
  /\ c.for = "pane" => u.tab = PaneOfCmd(c.cmd)
  /\ c.for = "home" => u.tab \in SettingsTabs
  /\ c.for = "graph" => u.tab = "dashboard" /\ Shows(u.pane.stats)
  /\ c.for = "panel" => u.panel.view = PanelOfCmd(c.cmd)
  /\ c.for = "load" => u.panel.view = "control" /\ c.arg.fact = u.pane.selected
  /\ Named(c)
Routing == \A c \in All(inFlight) : Routed(c, ui)

Shape == UiShape /\ VaultShape /\ SeenShape /\ CallsShape /\ Routing

-----------------------------------------------------------------------------
(* The invariant, resource by resource: what is in flight, what a view shows*)
(* and what is stored differ only as the calls on their way explain.       *)

\* While the calls on a resource do not overlap, at most one of them is in flight.
AtMostOne == \A r : Alone(r) => OneOn(inFlight, r)

\* The answer of every issue command holds the secret that was made for it, and a command that
\* nobody awaits was left behind.
MintedInv ==
  /\ MintedIsShown
  /\ \A c \in All(inFlight) : c.cmd = "issue_share_token" =>
       /\ c.for = "nobody" => seen.left
       /\ c.state = "done" => c.answer \in Secrets

\* An answer on its way holds what is stored; the sharing tab shows it, or says that it failed.
SharesInv == Alone("shares") =>
  /\ \A c \in On(inFlight, "shares") :
       c.cmd = "share_status" /\ c.state = "done" => c.answer = vault.shares
  /\ ui.tab = "sharing" =>
       /\ \A c \in On(inFlight, "shares") : c.for = "pane"
       /\ On(inFlight, "shares") = {} /\ Shows(ui.pane.status) /\ ~ui.pane.error =>
            ui.pane.status.data = vault.shares

\* A list of sources that was read is current until a connection is made or dropped.
SourcesInv == Alone("sources") =>
  /\ \A c \in On(inFlight, "sources") :
       c.cmd = "list_sources" /\ c.state = "done" => c.answer = vault.connected
  /\ ui.tab = "sources" =>
       /\ \A c \in On(inFlight, "sources") : c.for # "nobody"
       /\ /\ \A c \in On(inFlight, "sources") : c.cmd # "list_sources" /\ c.state # "done"
          /\ Shows(ui.pane.status) /\ ~ui.pane.error
          => ui.pane.status.data = vault.connected

\* The transfer log is read once, when its tab is opened.
TransfersInv == Alone("transfers") /\ ui.tab = "transfers" =>
  /\ \A c \in On(inFlight, "transfers") :
       /\ c.cmd = "list_transfers" /\ c.for = "home" /\ c.state # "failed"
       /\ c.state = "done" => c.answer = vault.sent
  /\ On(inFlight, "transfers") = {} => ui.home.transfers = vault.sent

\* Questions leave the queue only by an answer, which is in flight until they are read again.
QueueInv == Alone("queue") =>
  /\ \A c \in On(inFlight, "queue") :
       c.cmd = "queue_list" /\ c.state = "done" => c.answer \subseteq vault.pending
  /\ ui.tab = "queue" =>
       /\ \A c \in On(inFlight, "queue") : c.cmd = "queue_answer" => c.for = "pane"
       /\ /\ \A c \in On(inFlight, "queue") : c.cmd # "queue_answer"
          /\ Shows(ui.pane.items) /\ ~ui.pane.error
          => ui.pane.items.data \subseteq vault.pending

\* The pages of a scope.
GraphSet(s) == IF s = "all" THEN Facts ELSE CompanyFacts
\* The graph that is fetched or shown is that of the scope the tabs say.
GraphInv == Alone("graph") =>
  /\ \A c \in On(inFlight, "graph") :
       /\ c.arg = ui.pane.scope
       /\ c.state = "done" => c.answer = GraphSet(c.arg)
  /\ ui.tab = "dashboard" /\ Shows(ui.pane.graph) => ui.pane.graph.data = GraphSet(ui.pane.scope)

\* The numbers of the dashboard, and the answers that have it read again.
Now == [facts |-> vault.facts, pending |-> Cardinality(vault.pending)]
Bumps(c) == c.cmd \in {"queue_answer", "trigger_ingest"} /\ c.state = "done"
\* Numbers that are shown or arrive are current, or the answer that has them read again is due.
DashboardInv == spent.faults = 0 /\ ui.tab = "dashboard" =>
  \/ \E c \in All(inFlight) : Bumps(c)
  \/ /\ Shows(ui.pane.stats) => ui.pane.stats.data = Now
     /\ \A c \in All(inFlight) : c.cmd = "get_dashboard" /\ c.state = "done" => c.answer = Now

\* The lock screen stands for a locked vault, but for a command that has ended or is about to.
LockInv == Alone("lock") =>
  /\ IF \E c \in On(inFlight, "lock") : c.cmd = "get_status" \/ c.state = "done"
     THEN ui.tab = "unlock" <=> vault.open
     ELSE ui.tab = "unlock" <=> ~vault.open
  /\ \A c \in On(inFlight, "lock") :
       /\ c.cmd = "get_status" /\ c.state # "sent" =>
            c.answer = (IF vault.open THEN "open" ELSE "locked")
       /\ c.cmd = "unlock" => ui.tab = "unlock"
       /\ c.cmd = "lock" => ui.tab # "unlock"
       /\ c.cmd \in {"lock", "get_status"} => c.state # "failed"

\* What the form holds and the user did not type is the stored model.
ConfigInv == Alone("config") =>
  /\ \A c \in On(inFlight, "config") :
       /\ c.cmd = "load_settings" /\ c.state = "done" => c.answer.config = vault.config
       /\ c.cmd = "get_config" /\ c.state = "done" => c.answer = vault.config
       /\ c.cmd = "set_llm_config" /\ "model" \notin c.arg.typed => c.arg.model = vault.config.model
  /\ InSettings =>
       /\ \A c \in On(inFlight, "config") :
            /\ c.for = "home"
            /\ c.cmd # "load_settings" => Shows(ui.home.config)
            /\ c.cmd = "set_llm_config" => c.arg.typed \subseteq ui.home.typed /\ ~ui.home.saved
       /\ "model" \notin ui.home.typed /\ Shows(ui.home.config) => ui.home.model = vault.config.model
       /\ ui.home.saved => Shows(ui.home.config) /\ ui.home.config.data.model = vault.config.model
\* The settings page shows the stored configuration unless a call on it is in flight.
HomeInv ==
  /\ Alone("config") /\ Alone("lock") /\ InSettings
  /\ On(inFlight, "config") = {} /\ On(inFlight, "lock") = {}
  /\ Shows(ui.home.config) /\ ~ui.home.error
  => ui.home.config.data = vault.config

\* The dialog and the command it sends differ from the stored scope only in ticked projects.
ScopeInv == Alone("scope") =>
  /\ \A c \in On(inFlight, "scope") :
       /\ c.cmd = "get_session_scope" /\ c.state = "done" => c.answer = vault.scope
       /\ c.cmd = "set_session_scope" /\ c.state = "sent" =>
            SymDiff(c.arg.roots, vault.scope) \subseteq c.arg.toggled
  /\ ui.panel.view = "scope" /\ ui.panel.shown =>
       /\ SymDiff(ui.panel.selected, vault.scope) \subseteq ui.panel.toggled
       /\ \A c \in On(inFlight, "scope") : c.cmd = "set_session_scope" =>
            SymDiff(ui.panel.selected, c.arg.roots) \subseteq ui.panel.toggled

\* The sharing state of a page as p has it, and but for what was picked.
Stored(f, p) == vault.sharing[f] = [visibility |-> p.visibility, category |-> p.category]
KeptBut(f, p) ==
  \A field \in {"visibility", "category"} \ p.picked : p[field] = vault.sharing[f][field]
\* The control is disabled while a save of its own is in flight: one at a time.
ControlInv ==
  /\ \A c \in All(inFlight) : Saving(c) => ui.panel.busy /\ ~ui.panel.saved
  /\ OneSave(inFlight)
\* The commands about a page f, and what its control shows of it.
FactCalls(f) == \A c \in On(inFlight, f) :
  /\ c.cmd = "get_fact" /\ c.state = "done" => c.answer = vault.sharing[f]
  /\ c.cmd = "set_fact_sharing" /\ c.state = "sent" => KeptBut(f, c.arg)
  /\ c.cmd = "set_fact_sharing" /\ c.state = "done" => Stored(f, c.arg)
FactSent(f) == \A c \in On(inFlight, f) :
  /\ c.for # "nobody"
  /\ c.cmd = "set_fact_sharing" =>
       c.arg.visibility = ui.panel.visibility /\ c.arg.category = ui.panel.category
\* What was picked on another page is on its way.
Elsewhere(f) == \E c \in All(inFlight) : Saving(c) /\ c.arg.fact # f
FactShown(f) ==
  /\ KeptBut(f, ui.panel)
  /\ ui.panel.saved \/ Elsewhere(f) => Stored(f, ui.panel)
FactInv == \A f \in Facts : Alone(f) =>
  /\ FactCalls(f)
  /\ ui.panel.view = "control" /\ ui.pane.selected = f =>
       /\ FactSent(f)
       /\ Shows(ui.panel.fact) => FactShown(f)

\* Threads of the conversation, the stored one and those the chat holds or saves.
Turns == [by : {"user", "persona"}, text : {"earlier", "asked", "reply"}, error : BOOLEAN]
Threads == Seq(Turns)
ThreadShape ==
  /\ vault.thread \in Threads
  /\ ui.tab = "persona" => ui.pane.messages \in Threads
  /\ \A c \in On(inFlight, "thread") :
       /\ c.cmd = "persona_history_load" /\ c.state = "done" => c.answer \in Threads
       /\ c.cmd = "persona_history_save" => c.arg.thread \in Threads
\* The second thread goes on from the first.
Extends(s, t) == IsPrefix(Texts(s), Texts(t))
\* Every change of a loaded thread is on its way to the vault, in the order it was made.
ThreadKept == Alone("thread") =>
  /\ \A c \in On(inFlight, "thread") :
       /\ c.cmd = "persona_history_load" /\ c.state = "done" => c.answer = vault.thread
       /\ c.cmd = "persona_history_save" => c.arg.fresh \/ Extends(vault.thread, c.arg.thread)
  /\ ui.tab = "persona" /\ ui.pane.loaded =>
       /\ ui.pane.fresh \/ Extends(vault.thread, ui.pane.messages)
       /\ \A c \in On(inFlight, "thread") :
            /\ c.cmd = "persona_history_save" /\ c.arg.thread = ui.pane.messages
            /\ c.arg.fresh = ui.pane.fresh
ThreadInv == ThreadShape /\ ThreadKept
\* Nothing of a loaded thread is lost unless a command failed or the vault is locked.
PersonaInv ==
  /\ Alone("thread") /\ Alone("lock") /\ ui.tab = "persona" /\ spent.faults = 0 /\ vault.open
  => /\ \A c \in On(inFlight, "thread") : c.state # "failed"
     /\ ui.pane.loaded => ui.pane.messages = vault.thread \/ On(inFlight, "thread") # {}

-----------------------------------------------------------------------------
(* Recursion over 0..N: induction, and functions defined by it.            *)

\* A set of numbers with 0 that is closed under the successor is all of 0..N.
LEMMA Induction ==
    ASSUME NEW N \in Nat, NEW S, 0 \in S, \A n \in 1..N : n - 1 \in S => n \in S
    PROVE  \A n \in 0..N : n \in S
<1> DEFINE T == (0..N) \ S
<1> SUFFICES ASSUME T # {} PROVE FALSE
  OBVIOUS
<1>1. PICK n \in T : \A k \in T : ~(<<k, n>> \in OpToRel(<, Nat))
  <2>1. T \subseteq Nat
    OBVIOUS
  <2> QED BY <2>1, NatLessThanWellFounded, WFMin
<1>2. n \in 1..N /\ n - 1 \in Nat /\ n - 1 \in 0..N /\ n - 1 < n
  OBVIOUS
<1>3. <<n - 1, n>> \in OpToRel(<, Nat)
  BY <1>2 DEF OpToRel
<1>4. n - 1 \notin T
  BY <1>1, <1>3
<1> QED BY <1>2, <1>4

\* next takes the position and what was reached before it; f is what it leads to.
IsLoop(N, T, next) == next \in [(1..N) \X T -> T]

Runs(N, T, base, next, f) ==
    /\ f \in [0..N -> T]
    /\ f[0] = base
    /\ \A n \in 1..N : f[n] = next[<<n, f[n - 1]>>]

\* Every loop over 1..N runs.
LEMMA Recursion ==
    ASSUME NEW N \in Nat, NEW T, NEW base \in T, NEW next, IsLoop(N, T, next)
    PROVE  \E f : Runs(N, T, base, next, f)
<1> USE DEF IsLoop
<1> DEFINE Built(n, f) == f[0] = base /\ \A k \in 1..n : f[k] = next[<<k, f[k - 1]>>]
           S == {n \in 0..N : \E f \in [0..N -> T] : Built(n, f)}
<1>1. 0 \in S
  <2> DEFINE g == [k \in 0..N |-> base]
  <2>1. g \in [0..N -> T] /\ g[0] = base
    OBVIOUS
  <2> HIDE DEF g
  <2>2. Built(0, g)
    BY <2>1
  <2> QED BY <2>1, <2>2
<1>2. ASSUME NEW n \in 1..N, n - 1 \in S PROVE n \in S
  <2>1. PICK f \in [0..N -> T] : Built(n - 1, f)
    BY <1>2
  <2> DEFINE g == [f EXCEPT ![n] = next[<<n, f[n - 1]>>]]
  <2>2. n - 1 \in 0..N /\ f[n - 1] \in T /\ n \in 0..N
    OBVIOUS
  <2>3. next[<<n, f[n - 1]>>] \in T
    BY <2>2
  <2>4. g \in [0..N -> T]
    BY <2>3
  <2>5. \A k \in 0..N : k # n => g[k] = f[k]
    OBVIOUS
  <2>6. g[n] = next[<<n, f[n - 1]>>]
    BY <2>2
  <2>7. g[0] = base
    BY <2>1, <2>5
  <2>8. ASSUME NEW k \in 1..n PROVE g[k] = next[<<k, g[k - 1]>>]
    <3>1. k - 1 \in 0..N /\ k - 1 # n /\ k \in 0..N
      OBVIOUS
    <3>2. g[k - 1] = f[k - 1]
      BY <2>5, <3>1
    <3>3. CASE k = n
      BY <2>6, <3>2, <3>3
    <3>4. CASE k # n
      <4>1. k \in 1..(n - 1) /\ g[k] = f[k]
        BY <3>1, <3>4, <2>5
      <4> QED BY <2>1, <3>2, <4>1
    <3> QED BY <3>3, <3>4
  <2> HIDE DEF g
  <2>9. Built(n, g)
    BY <2>7, <2>8
  <2> QED BY <2>4, <2>9
<1>3. N \in S
  <2>1. N \in 0..N
    OBVIOUS
  <2> HIDE DEF S
  <2> QED BY <1>1, <1>2, <2>1, Induction
<1> QED BY <1>3 DEF Runs

-----------------------------------------------------------------------------
(* Sequences of commands.                                                  *)

IsSeq(s) == s \in Seq({s[i] : i \in DOMAIN s})

\* The elements, the length and the places of a sequence.
LEMMA SeqFacts ==
    ASSUME NEW s, IsSeq(s)
    PROVE  /\ Len(s) \in Nat /\ DOMAIN s = 1..Len(s)
           /\ s = [i \in 1..Len(s) |-> s[i]]
<1> PICK S : S = {s[i] : i \in DOMAIN s}
  OBVIOUS
<1>1. s \in Seq(S)
  BY DEF IsSeq
<1> QED BY <1>1

LEMMA IsSeqOf ==
    ASSUME NEW s, NEW S, s \in Seq(S)
    PROVE  IsSeq(s)
<1>1. Len(s) \in Nat /\ DOMAIN s = 1..Len(s) /\ s = [i \in 1..Len(s) |-> s[i]]
  OBVIOUS
<1> SUFFICES s \in Seq({s[i] : i \in DOMAIN s})
  BY DEF IsSeq
<1> DEFINE R == {s[i] : i \in DOMAIN s}
<1>2. \A i \in 1..Len(s) : s[i] \in R
  BY <1>1
<1> HIDE DEF R
<1>3. s \in [1..Len(s) -> R]
  BY <1>1, <1>2
<1>4. s \in Seq(R)
  BY <1>1, <1>3
<1> QED BY <1>4 DEF R

LEMMA SeqIn ==
    ASSUME NEW s, NEW S, IsSeq(s), \A i \in DOMAIN s : s[i] \in S
    PROVE  s \in Seq(S)
<1>1. Len(s) \in Nat /\ DOMAIN s = 1..Len(s) /\ s = [i \in 1..Len(s) |-> s[i]]
  BY SeqFacts
<1>2. s \in [1..Len(s) -> S]
  BY <1>1
<1> QED BY <1>1, <1>2

\* f leads through the first n of m, and keeps some of them in order.
Sieves(N, S, m, keep, f) ==
    /\ f \in [0..N -> Seq(S)] /\ f[0] = <<>>
    /\ \A n \in 1..N : f[n] = IF n \in keep THEN Append(f[n - 1], m[n]) ELSE f[n - 1]

\* g is what is kept of the first n; e names the place each came from.
Sieved(m, keep, n, g, e) ==
    /\ e \in [DOMAIN g -> {i \in keep : i <= n}]
    /\ \A j \in DOMAIN g : g[j] = m[e[j]]
    /\ \A j, k \in DOMAIN g : e[j] = e[k] => j = k
    /\ \A i \in keep : i <= n => \E j \in DOMAIN g : e[j] = i

LEMMA SieveKeeps ==
    ASSUME NEW S, NEW N \in Nat, NEW m \in [1..N -> S], NEW keep \in SUBSET (1..N),
           NEW n \in 1..N, n \in keep, NEW g \in Seq(S), NEW e, Sieved(m, keep, n - 1, g, e)
    PROVE  \E d : Sieved(m, keep, n, Append(g, m[n]), d)
<1>0. m[n] \in S
  OBVIOUS
<1>1. PICK h : h = Append(g, m[n])
  OBVIOUS
<1>2. /\ Len(g) \in Nat /\ DOMAIN g = 1..Len(g)
      /\ DOMAIN h = 1..(Len(g) + 1)
      /\ \A j \in 1..Len(g) : h[j] = g[j]
      /\ h[Len(g) + 1] = m[n]
  BY <1>0, <1>1
<1>3. PICK L \in Nat : L = Len(g)
  BY <1>2
<1>4. PICK d : d = [j \in 1..(L + 1) |-> IF j \in 1..L THEN e[j] ELSE n]
  OBVIOUS
<1>5. \A j \in 1..L : e[j] \in keep /\ e[j] <= n - 1 /\ e[j] # n
  <2> TAKE j \in 1..L
  <2>1. e \in [DOMAIN g -> {i \in keep : i <= n - 1}]
    BY DEF Sieved
  <2>2. e[j] \in {i \in keep : i <= n - 1}
    BY <1>2, <1>3, <2>1
  <2>3. e[j] \in keep /\ e[j] <= n - 1
    BY <2>2
  <2>4. \A i \in keep : i <= n - 1 => i # n
    OBVIOUS
  <2> QED BY <2>3, <2>4
<1>6. /\ \A j \in 1..L : d[j] = e[j]
      /\ d[L + 1] = n /\ DOMAIN d = 1..(L + 1)
  BY <1>4
<1>7. \A j \in DOMAIN h : j \in 1..L \/ j = L + 1
  BY <1>2, <1>3
<1>8. \A i \in keep : i <= n <=> i <= n - 1 \/ i = n
  OBVIOUS
<1>9. d \in [DOMAIN h -> {i \in keep : i <= n}]
  <2>1. \A j \in 1..(L + 1) : d[j] \in {i \in keep : i <= n}
    BY <1>2, <1>3, <1>5, <1>6, <1>7, <1>8
  <2> QED BY <1>2, <1>3, <1>4, <2>1
<1>10. \A j \in DOMAIN h : h[j] = m[d[j]]
  BY <1>2, <1>3, <1>6, <1>7 DEF Sieved
<1>11. \A j, k \in DOMAIN h : d[j] = d[k] => j = k
  BY <1>2, <1>3, <1>5, <1>6, <1>7 DEF Sieved
<1>12. \A i \in keep : i <= n => \E j \in DOMAIN h : d[j] = i
  <2> SUFFICES ASSUME NEW i \in keep, i <= n PROVE \E j \in DOMAIN h : d[j] = i
    OBVIOUS
  <2>1. CASE i = n
    <3>1. L + 1 \in DOMAIN h
      BY <1>2, <1>3
    <3> QED BY <1>6, <2>1, <3>1
  <2>2. CASE i # n
    <3>1. PICK j \in DOMAIN g : e[j] = i
      BY <1>8, <2>2 DEF Sieved
    <3>2. j \in 1..L /\ j \in DOMAIN h
      BY <1>2, <1>3, <3>1
    <3> QED BY <1>6, <3>1, <3>2
  <2> QED BY <2>1, <2>2
<1>13. Sieved(m, keep, n, h, d)
  BY <1>9, <1>10, <1>11, <1>12 DEF Sieved
<1> QED BY <1>1, <1>13

LEMMA SieveDrops ==
    ASSUME NEW N \in Nat, NEW m, NEW keep \in SUBSET (1..N),
           NEW n \in 1..N, n \notin keep, NEW g, NEW e, Sieved(m, keep, n - 1, g, e)
    PROVE  Sieved(m, keep, n, g, e)
<1>1. \A i \in keep : i <= n <=> i <= n - 1
  OBVIOUS
<1>2. {i \in keep : i <= n} = {i \in keep : i <= n - 1}
  BY <1>1
<1> QED BY <1>1, <1>2 DEF Sieved

\* g is what is kept of all of m.
Sifted(m, keep, g) ==
    \E e \in [DOMAIN g -> keep] :
       /\ \A j \in DOMAIN g : g[j] = m[e[j]]
       /\ \A j, k \in DOMAIN g : e[j] = e[k] => j = k
       /\ \A n \in keep : \E j \in DOMAIN g : e[j] = n

LEMMA Sieve ==
    ASSUME NEW N \in Nat, NEW S, NEW m \in [1..N -> S], NEW keep \in SUBSET (1..N),
           NEW f, Sieves(N, S, m, keep, f)
    PROVE  Sifted(m, keep, f[N])
<1> DEFINE T == {n \in 0..N : \E e : Sieved(m, keep, n, f[n], e)}
<1>1. 0 \in T
  <2>1. PICK e : e = [j \in {} |-> 0]
    OBVIOUS
  <2>2. f[0] = <<>> /\ DOMAIN f[0] = {}
    BY DEF Sieves
  <2>3. \A i \in keep : ~(i <= 0)
    OBVIOUS
  <2>4. Sieved(m, keep, 0, f[0], e)
    BY <2>1, <2>2, <2>3 DEF Sieved
  <2>5. 0 \in 0..N
    OBVIOUS
  <2> QED BY <2>4, <2>5
<1>2. ASSUME NEW n \in 1..N, n - 1 \in T PROVE n \in T
  <2>1. n \in 0..N
    OBVIOUS
  <2>2. PICK g \in Seq(S) : g = f[n - 1]
    <3>1. n - 1 \in 0..N
      OBVIOUS
    <3> QED BY <3>1 DEF Sieves
  <2>3. PICK e : Sieved(m, keep, n - 1, g, e)
    BY <1>2, <2>2
  <2>4. f[n] = IF n \in keep THEN Append(g, m[n]) ELSE g
    BY <2>2 DEF Sieves
  <2>5. CASE n \in keep
    <3>1. \E d : Sieved(m, keep, n, Append(g, m[n]), d)
      BY <2>3, <2>5, SieveKeeps
    <3>2. f[n] = Append(g, m[n])
      BY <2>4, <2>5
    <3> QED BY <2>1, <3>1, <3>2, Zenon
  <2>6. CASE n \notin keep
    <3>1. Sieved(m, keep, n, g, e)
      BY <2>3, <2>6, SieveDrops
    <3>2. f[n] = g
      BY <2>4, <2>6
    <3> QED BY <2>1, <3>1, <3>2, Zenon
  <2> QED BY <2>5, <2>6
<1>3. N \in T
  <2>1. N \in 0..N
    OBVIOUS
  <2> HIDE DEF T
  <2> QED BY <1>1, <1>2, <2>1, Induction
<1>4. PICK e : Sieved(m, keep, N, f[N], e)
  BY <1>3
<1>5. \A n \in keep : n <= N
  OBVIOUS
<1>6. {i \in keep : i <= N} = keep
  BY <1>5
<1> QED BY <1>4, <1>5, <1>6 DEF Sieved, Sifted

\* e names the command of cs that each of h was before some parts were unmounted.
CameFrom(h, cs, gone, e) ==
    /\ e \in [DOMAIN h -> DOMAIN cs]
    /\ \A j \in DOMAIN h : h[j] = Moved(cs[e[j]], gone) /\ Matters(Moved(cs[e[j]], gone))
    /\ \A j, k \in DOMAIN h : e[j] = e[k] => j = k
    /\ \A i \in DOMAIN cs : Matters(Moved(cs[i], gone)) => \E j \in DOMAIN h : e[j] = i

\* The commands in flight once the parts in gone are unmounted: each came from one before.
LEMMA HeirsFacts ==
    ASSUME NEW cs, IsSeq(cs), NEW gone
    PROVE  IsSeq(Heirs(cs, gone)) /\ \E e : CameFrom(Heirs(cs, gone), cs, gone, e)
<1> DEFINE N == Len(cs)
           m == [i \in 1..N |-> Moved(cs[i], gone)]
           keep == {i \in 1..N : Matters(Moved(cs[i], gone))}
           S == {Moved(cs[i], gone) : i \in 1..N}
           kept[n \in 0..N] ==
             IF n = 0 THEN <<>>
             ELSE IF Matters(Moved(cs[n], gone)) THEN Append(kept[n - 1], Moved(cs[n], gone))
             ELSE kept[n - 1]
           next == [x \in (1..N) \X Seq(S) |->
                      IF Matters(Moved(cs[x[1]], gone)) THEN Append(x[2], Moved(cs[x[1]], gone))
                      ELSE x[2]]
<1>1. N \in Nat /\ DOMAIN cs = 1..N /\ <<>> \in Seq(S)
  <2>1. Len(cs) \in Nat /\ DOMAIN cs = 1..Len(cs)
    BY SeqFacts
  <2> QED BY <2>1
<1>2. \A i \in 1..N : Moved(cs[i], gone) \in S /\ m[i] = Moved(cs[i], gone)
  OBVIOUS
<1>3. m \in [1..N -> S] /\ keep \in SUBSET (1..N)
  OBVIOUS
<1>4. next \in [(1..N) \X Seq(S) -> Seq(S)]
  <2> HIDE DEF S, N
  <2>1. \A x \in (1..N) \X Seq(S) : next[x] \in Seq(S)
    <3> TAKE x \in (1..N) \X Seq(S)
    <3>1. x[1] \in 1..N /\ x[2] \in Seq(S) /\ Moved(cs[x[1]], gone) \in S
      BY <1>2
    <3>2. Append(x[2], Moved(cs[x[1]], gone)) \in Seq(S)
      BY <3>1
    <3> QED BY <3>1, <3>2
  <2> QED BY <2>1
<1>5. PICK f : /\ f \in [0..N -> Seq(S)] /\ f[0] = <<>>
               /\ \A n \in 1..N : f[n] = next[<<n, f[n - 1]>>]
  <2>1. IsLoop(N, Seq(S), next)
    BY <1>4 DEF IsLoop
  <2>2. PICK f : Runs(N, Seq(S), <<>>, next, f)
    <3> HIDE DEF N, next, S
    <3> QED BY <1>1, <2>1, Recursion
  <2> QED BY <2>2 DEF Runs
<1>6. \A n \in 1..N :
         f[n] = IF Matters(Moved(cs[n], gone)) THEN Append(f[n - 1], Moved(cs[n], gone)) ELSE f[n - 1]
  <2> HIDE DEF S, N
  <2> TAKE n \in 1..N
  <2>1. n - 1 \in 0..N
    BY <1>1
  <2>2. <<n, f[n - 1]>> \in (1..N) \X Seq(S)
    BY <1>5, <2>1
  <2> QED BY <1>5, <2>2
<1>7. Sieves(N, S, m, keep, f)
  <2>1. \A n \in 1..N : f[n] = IF n \in keep THEN Append(f[n - 1], m[n]) ELSE f[n - 1]
    <3> TAKE n \in 1..N
    <3>1. n \in keep <=> Matters(Moved(cs[n], gone))
      OBVIOUS
    <3> HIDE DEF keep, m
    <3> QED BY <1>2, <1>6, <3>1
  <2> HIDE DEF N, m, keep, S
  <2> QED BY <1>5, <2>1 DEF Sieves
<1>8. f = [n \in 0..N |->
             IF n = 0 THEN <<>>
             ELSE IF Matters(Moved(cs[n], gone)) THEN Append(f[n - 1], Moved(cs[n], gone))
             ELSE f[n - 1]]
  <2> HIDE DEF N, S
  <2>1. \A n \in 0..N : f[n] =
             IF n = 0 THEN <<>>
             ELSE IF Matters(Moved(cs[n], gone)) THEN Append(f[n - 1], Moved(cs[n], gone))
             ELSE f[n - 1]
    <3> TAKE n \in 0..N
    <3>1. CASE n = 0
      BY <1>5, <3>1
    <3>2. CASE n \in 1..N
      <4>1. n # 0
        BY <1>1, <3>2
      <4>2. f[n] = IF Matters(Moved(cs[n], gone)) THEN Append(f[n - 1], Moved(cs[n], gone))
                   ELSE f[n - 1]
        BY <1>6, <3>2, Zenon
      <4> QED BY <4>1, <4>2, Zenon
    <3>3. n = 0 \/ n \in 1..N
      BY <1>1
    <3> QED BY <3>1, <3>2, <3>3, Zenon
  <2>2. f = [n \in 0..N |-> f[n]]
    BY <1>5
  <2> QED BY <2>1, <2>2, Zenon
<1>9. kept = [n \in 0..N |->
             IF n = 0 THEN <<>>
             ELSE IF Matters(Moved(cs[n], gone)) THEN Append(kept[n - 1], Moved(cs[n], gone))
             ELSE kept[n - 1]]
  <2> HIDE DEF N
  <2> QED BY <1>8
<1>10. Heirs(cs, gone) = kept[N]
  BY DEF Heirs
<1> HIDE DEF kept, next
<1>11. Sieves(N, S, m, keep, kept)
  <2> HIDE DEF N, m, keep, S
  <2> DEFINE T == {n \in 0..N : kept[n] = f[n]}
  <2>1. 0 \in T
    BY <1>1, <1>5, <1>9
  <2>2. ASSUME NEW n \in 1..N, n - 1 \in T PROVE n \in T
    <3>1. n \in 0..N /\ n # 0 /\ kept[n - 1] = f[n - 1]
      BY <1>1, <2>2
    <3>2. kept[n] = IF Matters(Moved(cs[n], gone)) THEN Append(kept[n - 1], Moved(cs[n], gone))
                    ELSE kept[n - 1]
      BY <1>9, <3>1
    <3> QED BY <1>6, <3>1, <3>2
  <2>3. \A n \in 0..N : n \in T
    <3> HIDE DEF T
    <3> QED BY <1>1, <2>1, <2>2, Induction
  <2>4. DOMAIN kept = 0..N /\ kept = [n \in 0..N |-> kept[n]]
    BY <1>9
  <2>5. kept = f
    BY <1>5, <2>3, <2>4
  <2> QED BY <1>7, <2>5
<1>12. PICK h : h = kept[N]
  OBVIOUS
<1>13. h \in Seq(S)
  <2> HIDE DEF N, m, keep, S
  <2>1. N \in 0..N
    BY <1>1
  <2> QED BY <1>11, <1>12, <2>1 DEF Sieves
<1>14. PICK e \in [DOMAIN h -> keep] :
              /\ \A j \in DOMAIN h : h[j] = m[e[j]]
              /\ \A j, k \in DOMAIN h : e[j] = e[k] => j = k
              /\ \A n \in keep : \E j \in DOMAIN h : e[j] = n
  <2> HIDE DEF N, m, keep, S
  <2>1. Sifted(m, keep, kept[N])
    BY <1>1, <1>3, <1>11, Sieve
  <2>2. Sifted(m, keep, h)
    BY <2>1, <1>12
  <2> QED BY <2>2 DEF Sifted
<1>15. \A j \in DOMAIN h : e[j] \in 1..N /\ Matters(Moved(cs[e[j]], gone))
  BY <1>14
<1>16. \A i \in 1..N : Matters(Moved(cs[i], gone)) => i \in keep
  OBVIOUS
<1> HIDE DEF N, m, keep, S
<1>17. IsSeq(h)
  BY <1>13, IsSeqOf
<1>18. e \in [DOMAIN h -> DOMAIN cs]
  BY <1>1, <1>14, <1>15
<1>19. \A j \in DOMAIN h : h[j] = Moved(cs[e[j]], gone) /\ Matters(Moved(cs[e[j]], gone))
  BY <1>2, <1>14, <1>15
<1>20. \A i \in DOMAIN cs : Matters(Moved(cs[i], gone)) => \E j \in DOMAIN h : e[j] = i
  BY <1>1, <1>14, <1>16
<1>21. Heirs(cs, gone) = h
  BY <1>10, <1>12
<1>22. CameFrom(h, cs, gone, e)
  BY <1>14, <1>18, <1>19, <1>20 DEF CameFrom
<1> QED BY <1>17, <1>21, <1>22, Zenon

LEMMA ConcatFacts ==
    ASSUME NEW s, NEW t, IsSeq(s), IsSeq(t)
    PROVE  /\ IsSeq(s \o t)
           /\ Len(s) \in Nat /\ Len(t) \in Nat
           /\ DOMAIN s = 1..Len(s) /\ DOMAIN t = 1..Len(t)
           /\ DOMAIN (s \o t) = 1..(Len(s) + Len(t))
           /\ \A j \in 1..Len(s) : (s \o t)[j] = s[j]
           /\ \A j \in 1..Len(t) : (s \o t)[Len(s) + j] = t[j]
<1> DEFINE S == All(s) \cup All(t)
<1>1. s \in Seq(S) /\ t \in Seq(S)
  <2>1. \A i \in DOMAIN s : s[i] \in S
    BY DEF All
  <2>2. \A i \in DOMAIN t : t[i] \in S
    BY DEF All
  <2> HIDE DEF S
  <2> QED BY <2>1, <2>2, SeqIn
<1> HIDE DEF S
<1>2. s \o t \in Seq(S)
  BY <1>1
<1>3. IsSeq(s \o t)
  BY <1>2, IsSeqOf
<1> QED BY <1>1, <1>3

\* What is left once the command at i is taken out.
LeftOf(t, s, i, e) ==
    /\ e \in [DOMAIN t -> DOMAIN s \ {i}]
    /\ \A j \in DOMAIN t : t[j] = s[e[j]]
    /\ \A j, k \in DOMAIN t : e[j] = e[k] => j = k
    /\ \A n \in DOMAIN s \ {i} : \E j \in DOMAIN t : e[j] = n

\* Every command but the one at i is still there, at a place of its own.
LEMMA RemoveAtFacts ==
    ASSUME NEW s, IsSeq(s), NEW i \in DOMAIN s
    PROVE  IsSeq(RemoveAt(s, i)) /\ \E e : LeftOf(RemoveAt(s, i), s, i, e)
<1>1. PICK N \in Nat : N = Len(s) /\ DOMAIN s = 1..N
  BY SeqFacts
<1>2. i \in 1..N
  BY <1>1
<1> DEFINE S == All(s)
<1>3. s \in Seq(S)
  BY SeqIn DEF All
<1> HIDE DEF S
<1>4. PICK a \in Seq(S) : /\ a = SubSeq(s, 1, i - 1) /\ Len(a) = i - 1
                          /\ \A j \in 1..(i - 1) : a[j] = s[j]
  <2>1. PICK a : a = SubSeq(s, 1, i - 1)
    OBVIOUS
  <2>2. \A j \in 1..(i - 1) : s[j] \in S
    BY <1>1, <1>2, <1>3
  <2>3. /\ SubSeq(s, 1, i - 1) \in Seq(S)
        /\ Len(SubSeq(s, 1, i - 1)) = IF 1 <= i - 1 THEN (i - 1) - 1 + 1 ELSE 0
        /\ \A j \in 1..((i - 1) - 1 + 1) : SubSeq(s, 1, i - 1)[j] = s[1 + j - 1]
    <3>1. i - 1 \in Int /\ 1 \in Int
      BY <1>2
    <3> QED BY <2>2, <3>1, SubSeqProperties
  <2>4. a \in Seq(S) /\ Len(a) = i - 1
    BY <1>2, <2>1, <2>3
  <2>5. \A j \in 1..(i - 1) : a[j] = s[j]
    <3> TAKE j \in 1..(i - 1)
    <3>1. j \in 1..((i - 1) - 1 + 1) /\ 1 + j - 1 = j
      BY <1>2
    <3> QED BY <2>1, <2>3, <3>1
  <2> QED BY <2>1, <2>4, <2>5
<1>5. PICK b \in Seq(S) : /\ b = SubSeq(s, i + 1, N) /\ Len(b) = N - i
                          /\ \A j \in 1..(N - i) : b[j] = s[i + j]
  <2>1. PICK b : b = SubSeq(s, i + 1, N)
    OBVIOUS
  <2>2. \A j \in (i + 1)..N : s[j] \in S
    BY <1>1, <1>2, <1>3
  <2>3. /\ SubSeq(s, i + 1, N) \in Seq(S)
        /\ Len(SubSeq(s, i + 1, N)) = IF i + 1 <= N THEN N - (i + 1) + 1 ELSE 0
        /\ \A j \in 1..(N - (i + 1) + 1) : SubSeq(s, i + 1, N)[j] = s[(i + 1) + j - 1]
    <3>1. i + 1 \in Int /\ N \in Int
      BY <1>2
    <3> QED BY <2>2, <3>1, SubSeqProperties
  <2>4. b \in Seq(S) /\ Len(b) = N - i
    BY <1>2, <2>1, <2>3
  <2>5. \A j \in 1..(N - i) : b[j] = s[i + j]
    <3> TAKE j \in 1..(N - i)
    <3>1. j \in 1..(N - (i + 1) + 1) /\ (i + 1) + j - 1 = i + j
      BY <1>2
    <3> QED BY <2>1, <2>3, <3>1
  <2> QED BY <2>1, <2>4, <2>5
<1>6. PICK t : t = a \o b
  OBVIOUS
<1>7. RemoveAt(s, i) = t
  BY <1>1, <1>4, <1>5, <1>6 DEF RemoveAt
<1>8. t \in Seq(S)
  BY <1>6
<1>9. /\ DOMAIN t = 1..(N - 1)
      /\ \A j \in 1..(i - 1) : t[j] = s[j]
      /\ \A j \in 1..(N - i) : t[(i - 1) + j] = s[i + j]
  <2>1. IsSeq(a) /\ IsSeq(b)
    BY IsSeqOf
  <2>2. /\ DOMAIN t = 1..((i - 1) + (N - i))
        /\ \A j \in 1..(i - 1) : t[j] = a[j]
        /\ \A j \in 1..(N - i) : t[(i - 1) + j] = b[j]
    <3>1. /\ DOMAIN (a \o b) = 1..(Len(a) + Len(b))
          /\ \A j \in 1..Len(a) : (a \o b)[j] = a[j]
          /\ \A j \in 1..Len(b) : (a \o b)[Len(a) + j] = b[j]
      BY <2>1, ConcatFacts
    <3>2. Len(a) = i - 1 /\ Len(b) = N - i
      BY <1>4, <1>5
    <3> QED BY <1>6, <3>1, <3>2
  <2>3. (i - 1) + (N - i) = N - 1
    BY <1>2
  <2> QED BY <1>4, <1>5, <2>2, <2>3
<1>10. \A j \in 1..(N - 1) : j >= i => t[j] = s[j + 1]
  <2> SUFFICES ASSUME NEW j \in 1..(N - 1), j >= i PROVE t[j] = s[j + 1]
    OBVIOUS
  <2>1. PICK k \in 1..(N - i) : k = j - i + 1
    BY <1>2
  <2>2. (i - 1) + k = j /\ i + k = j + 1
    BY <1>2, <2>1
  <2> QED BY <1>9, <2>2
<1>11. PICK e : e = [j \in 1..(N - 1) |-> IF j < i THEN j ELSE j + 1]
  OBVIOUS
<1>12. e \in [1..(N - 1) -> (1..N) \ {i}]
  BY <1>1, <1>2, <1>11
<1>13. \A j \in 1..(N - 1) : t[j] = s[e[j]]
  <2> TAKE j \in 1..(N - 1)
  <2>1. CASE j < i
    <3>1. j \in 1..(i - 1) /\ e[j] = j
      BY <1>2, <1>11, <2>1
    <3> QED BY <1>9, <3>1
  <2>2. CASE ~(j < i)
    <3>1. j >= i /\ e[j] = j + 1
      BY <1>2, <1>11, <2>2
    <3> QED BY <1>10, <3>1
  <2> QED BY <2>1, <2>2
<1>14. \A j, k \in 1..(N - 1) : e[j] = e[k] => j = k
  BY <1>1, <1>2, <1>11
<1>15. \A n \in (1..N) \ {i} : \E j \in 1..(N - 1) : e[j] = n
  <2> TAKE n \in (1..N) \ {i}
  <2>1. CASE n < i
    <3>1. n \in 1..(N - 1) /\ e[n] = n
      BY <1>1, <1>2, <1>11, <2>1
    <3> QED BY <3>1
  <2>2. CASE n > i
    <3>1. n - 1 \in 1..(N - 1) /\ e[n - 1] = n
      BY <1>1, <1>2, <1>11, <2>2
    <3> QED BY <3>1
  <2> QED BY <1>2, <2>1, <2>2
<1>16. IsSeq(t)
  BY <1>8, IsSeqOf
<1>17. DOMAIN s = 1..N /\ DOMAIN t = 1..(N - 1)
  BY <1>1, <1>9
<1>18. LeftOf(t, s, i, e)
  BY <1>12, <1>13, <1>14, <1>15, <1>17 DEF LeftOf
<1> QED BY <1>7, <1>16, <1>18

\* The order in which views inherit a command: the view itself is the last of its line.
LEMMA LineFacts ==
    ASSUME NEW c
    PROVE  DOMAIN Line(c) \subseteq 1..3
<1> QED BY DEF Line

\* Who awaits a command once some parts were unmounted.
LEMMA HeirFacts ==
    ASSUME NEW c, NEW gone
    PROVE  /\ c.for \notin gone => Heir(c, gone) = c.for
           /\ c.for \in gone /\ (\E n \in DOMAIN Line(c) : Line(c)[n] \notin gone) =>
                \E n \in DOMAIN Line(c) : Heir(c, gone) = Line(c)[n] /\ Line(c)[n] \notin gone
           /\ c.for \in gone /\ ~(\E n \in DOMAIN Line(c) : Line(c)[n] \notin gone) =>
                Heir(c, gone) = "nobody"
<1>1. PICK left : left = {n \in DOMAIN Line(c) : Line(c)[n] \notin gone}
  OBVIOUS
<1>2. Heir(c, gone) = IF c.for \notin gone THEN c.for
                      ELSE IF left = {} THEN "nobody"
                      ELSE Line(c)[CHOOSE n \in left : \A m \in left : n <= m]
  BY <1>1 DEF Heir
<1>3. left # {} => \E n \in left : \A m \in left : n <= m
  <2>1. left \subseteq 1..3
    BY <1>1, LineFacts
  <2>2. CASE 1 \in left
    BY <2>1, <2>2
  <2>3. CASE 1 \notin left /\ 2 \in left
    BY <2>1, <2>3
  <2>4. CASE 1 \notin left /\ 2 \notin left /\ left # {}
    <3>1. \A n \in left : n = 3
      BY <2>1, <2>4
    <3> QED BY <2>4, <3>1
  <2> QED BY <2>2, <2>3, <2>4
<1>4. left # {} => (CHOOSE n \in left : \A m \in left : n <= m) \in left
  BY <1>3
<1>5. (\E n \in DOMAIN Line(c) : Line(c)[n] \notin gone) <=> left # {}
  BY <1>1
<1>6. PICK n : n = CHOOSE k \in left : \A m \in left : k <= m
  OBVIOUS
<1>7. left # {} => n \in DOMAIN Line(c) /\ Line(c)[n] \notin gone
  BY <1>1, <1>4, <1>6
<1> QED BY <1>2, <1>5, <1>6, <1>7

LEMMA MovedFacts ==
    ASSUME NEW c, CallShape(c), NEW gone
    PROVE  /\ CallShape(Moved(c, gone))
           /\ Moved(c, gone).cmd = c.cmd /\ Moved(c, gone).arg = c.arg
           /\ Moved(c, gone).state = c.state /\ Moved(c, gone).answer = c.answer
           /\ Moved(c, gone).for = Heir(c, gone)
           /\ Touches(Moved(c, gone)) = Touches(c)
<1>1. PICK m : m = Moved(c, gone)
  OBVIOUS
<1>2. /\ m = [cmd |-> c.cmd, arg |-> c.arg, for |-> Heir(c, gone), state |-> c.state,
              answer |-> c.answer]
  BY <1>1 DEF Moved, CallShape
<1>3. m.cmd = c.cmd /\ m.arg = c.arg /\ m.for = Heir(c, gone) /\ m.state = c.state
      /\ m.answer = c.answer
  BY <1>2
<1>4. CallShape(m)
  BY <1>2, <1>3 DEF CallShape
<1>5. Touches(m) = Touches(c)
  BY <1>3 DEF Touches
<1> QED BY <1>1, <1>3, <1>4, <1>5

\* What a handler leaves in flight: the commands that still matter, moved, and those it sends.
LEMMA ShowCalls ==
    ASSUME NEW cs, IsSeq(cs), NEW sent, IsSeq(sent), NEW u, NEW gone, Show(cs, u, gone, sent)
    PROVE  /\ IsSeq(inFlight')
           /\ \A c \in All(inFlight') :
                 (\E d \in All(cs) : c = Moved(d, gone) /\ Matters(c)) \/ c \in All(sent)
           /\ \A d \in All(cs) : Matters(Moved(d, gone)) => Moved(d, gone) \in All(inFlight')
           /\ All(sent) \subseteq All(inFlight')
<1>1. PICK h : h = Heirs(cs, gone)
  OBVIOUS
<1>2. PICK e : IsSeq(h) /\ CameFrom(h, cs, gone, e)
  BY <1>1, HeirsFacts
<1>3. inFlight' = h \o sent
  BY <1>1 DEF Show
<1>4. PICK t : t = h \o sent
  OBVIOUS
<1>5. /\ IsSeq(t)
      /\ Len(h) \in Nat /\ Len(sent) \in Nat
      /\ DOMAIN h = 1..Len(h) /\ DOMAIN sent = 1..Len(sent)
      /\ DOMAIN t = 1..(Len(h) + Len(sent))
      /\ \A j \in 1..Len(h) : t[j] = h[j]
      /\ \A j \in 1..Len(sent) : t[Len(h) + j] = sent[j]
  BY <1>2, <1>4, ConcatFacts
<1>6. \A j \in DOMAIN t : j \in DOMAIN h \/ \E k \in DOMAIN sent : j = Len(h) + k
  <2> SUFFICES ASSUME NEW j \in DOMAIN t, j \notin DOMAIN h
               PROVE  \E k \in DOMAIN sent : j = Len(h) + k
    OBVIOUS
  <2>1. j - Len(h) \in 1..Len(sent) /\ j = Len(h) + (j - Len(h))
    BY <1>5
  <2> QED BY <1>5, <2>1
<1>7. \A c \in All(t) : (\E d \in All(cs) : c = Moved(d, gone) /\ Matters(c)) \/ c \in All(sent)
  <2> SUFFICES ASSUME NEW j \in DOMAIN t
               PROVE  \/ \E d \in All(cs) : t[j] = Moved(d, gone) /\ Matters(t[j])
                      \/ t[j] \in All(sent)
    BY DEF All
  <2>1. CASE j \in DOMAIN h
    <3>1. t[j] = h[j] /\ h[j] = Moved(cs[e[j]], gone) /\ Matters(h[j]) /\ e[j] \in DOMAIN cs
      BY <1>2, <1>5, <2>1 DEF CameFrom
    <3>2. cs[e[j]] \in All(cs)
      BY <3>1 DEF All
    <3> QED BY <3>1, <3>2
  <2>2. CASE j \notin DOMAIN h
    <3>1. PICK k \in DOMAIN sent : j = Len(h) + k
      BY <1>6, <2>2
    <3>2. t[j] = sent[k]
      BY <1>5, <3>1
    <3> QED BY <3>2 DEF All
  <2> QED BY <2>1, <2>2
<1>8. \A d \in All(cs) : Matters(Moved(d, gone)) => Moved(d, gone) \in All(t)
  <2> SUFFICES ASSUME NEW i \in DOMAIN cs, Matters(Moved(cs[i], gone))
               PROVE  Moved(cs[i], gone) \in All(t)
    BY DEF All
  <2>1. PICK j \in DOMAIN h : e[j] = i
    BY <1>2 DEF CameFrom
  <2>2. h[j] = Moved(cs[i], gone)
    BY <1>2, <2>1 DEF CameFrom
  <2>3. j \in DOMAIN t /\ t[j] = h[j]
    BY <1>5
  <2> QED BY <2>2, <2>3 DEF All
<1>9. All(sent) \subseteq All(t)
  <2> SUFFICES ASSUME NEW k \in DOMAIN sent PROVE sent[k] \in All(t)
    BY DEF All
  <2>1. Len(h) + k \in DOMAIN t /\ t[Len(h) + k] = sent[k]
    BY <1>5
  <2> QED BY <2>1 DEF All
<1>10. inFlight' = t
  BY <1>3, <1>4
<1> QED BY <1>5, <1>7, <1>8, <1>9, <1>10

\* Calls on a resource that stay apart.
LEMMA ShowOne ==
    ASSUME NEW cs, IsSeq(cs), NEW sent, IsSeq(sent), NEW u, NEW gone, Show(cs, u, gone, sent),
           \A c \in All(cs) : CallShape(c), SeenShape
    PROVE  /\ seen.overlapped \subseteq seen'.overlapped
           /\ \A r : r \notin seen'.overlapped /\ (\E c \in All(sent) : r \in Touches(c)) =>
                 \A d \in All(cs) : r \in Touches(d) => ~Matters(Moved(d, gone))
           /\ \A r : r \notin seen'.overlapped /\ OneOn(cs, r) /\ OneOn(sent, r) =>
                 OneOn(inFlight', r)
<1>1. PICK h : h = Heirs(cs, gone)
  OBVIOUS
<1>2. PICK e : IsSeq(h) /\ CameFrom(h, cs, gone, e)
  BY <1>1, HeirsFacts
<1>3. inFlight' = h \o sent
  BY <1>1 DEF Show
<1>4. PICK t : t = h \o sent
  OBVIOUS
<1>5. /\ IsSeq(t)
      /\ Len(h) \in Nat /\ Len(sent) \in Nat
      /\ DOMAIN h = 1..Len(h) /\ DOMAIN sent = 1..Len(sent)
      /\ DOMAIN t = 1..(Len(h) + Len(sent))
      /\ \A j \in 1..Len(h) : t[j] = h[j]
      /\ \A j \in 1..Len(sent) : t[Len(h) + j] = sent[j]
  BY <1>2, <1>4, ConcatFacts
<1>6. \A j \in DOMAIN h : e[j] \in DOMAIN cs /\ Touches(h[j]) = Touches(cs[e[j]])
  <2> TAKE j \in DOMAIN h
  <2>1. e[j] \in DOMAIN cs /\ h[j] = Moved(cs[e[j]], gone)
    BY <1>2 DEF CameFrom
  <2>2. CallShape(cs[e[j]])
    BY <2>1 DEF All
  <2> QED BY <2>1, <2>2, MovedFacts
<1>7. PICK new : new = {r \in UNION {Touches(sent[i]) : i \in DOMAIN sent} :
                          \E i \in DOMAIN h : r \in Touches(h[i])}
  OBVIOUS
<1>8. seen'.overlapped = seen.overlapped \cup new
  BY <1>1, <1>7 DEF Show, SeenShape
<1>9. \A r : \A i \in DOMAIN h, k \in DOMAIN sent :
         r \in Touches(h[i]) /\ r \in Touches(sent[k]) => r \in seen'.overlapped
  BY <1>7, <1>8
<1>10. ASSUME NEW r, r \notin seen'.overlapped, NEW c \in All(sent), r \in Touches(c),
              NEW d \in All(cs), r \in Touches(d)
       PROVE  ~Matters(Moved(d, gone))
  <2> SUFFICES ASSUME Matters(Moved(d, gone)) PROVE FALSE
    OBVIOUS
  <2>1. PICK i \in DOMAIN cs : d = cs[i]
    BY DEF All
  <2>2. PICK k \in DOMAIN sent : c = sent[k]
    BY DEF All
  <2>3. PICK j \in DOMAIN h : e[j] = i
    BY <1>2, <2>1 DEF CameFrom
  <2>4. r \in Touches(h[j])
    BY <1>6, <1>10, <2>1, <2>3
  <2> QED BY <1>9, <1>10, <2>2, <2>4
<1>11. ASSUME NEW r, r \notin seen'.overlapped, OneOn(cs, r), OneOn(sent, r),
              NEW i \in DOMAIN t, NEW j \in DOMAIN t, r \in Touches(t[i]), r \in Touches(t[j])
       PROVE  i = j
  <2>1. \A k \in DOMAIN t :
          k \in DOMAIN h \/ (k - Len(h) \in DOMAIN sent /\ k = Len(h) + (k - Len(h)))
    BY <1>5
  <2>2. \A k \in DOMAIN h : k \in DOMAIN t /\ t[k] = h[k]
    BY <1>5
  <2>3. \A k \in DOMAIN t : k \notin DOMAIN h => t[k] = sent[k - Len(h)]
    BY <1>5, <2>1
  <2>4. CASE i \in DOMAIN h /\ j \in DOMAIN h
    <3>1. e[i] = e[j]
      BY <1>6, <1>11, <2>2, <2>4 DEF OneOn
    <3> QED BY <1>2, <2>4, <3>1 DEF CameFrom
  <2>5. CASE i \in DOMAIN h /\ j \notin DOMAIN h
    BY <1>9, <1>11, <2>1, <2>2, <2>3, <2>5
  <2>6. CASE i \notin DOMAIN h /\ j \in DOMAIN h
    BY <1>9, <1>11, <2>1, <2>2, <2>3, <2>6
  <2>7. CASE i \notin DOMAIN h /\ j \notin DOMAIN h
    <3>1. i - Len(h) = j - Len(h)
      BY <1>11, <2>1, <2>3, <2>7 DEF OneOn
    <3> QED BY <1>5, <3>1
  <2> QED BY <2>4, <2>5, <2>6, <2>7
<1>12. inFlight' = t
  BY <1>3, <1>4
<1>13. \A r : r \notin seen'.overlapped /\ OneOn(cs, r) /\ OneOn(sent, r) => OneOn(t, r)
  BY <1>11 DEF OneOn
<1> QED BY <1>8, <1>10, <1>12, <1>13

\* What is saved for a control was saved for it before.
LEMMA MovedSaving ==
    ASSUME NEW c, CallShape(c), NEW gone, Saving(Moved(c, gone))
    PROVE  Saving(c)
<1>1. c.cmd = "set_fact_sharing" /\ Heir(c, gone) = "panel"
  BY MovedFacts DEF Saving
<1>2. Line(c) = <<>>
  BY <1>1 DEF Line
<1>3. ~(\E n \in DOMAIN Line(c) : Line(c)[n] \notin gone)
  <2>1. DOMAIN Line(c) = {}
    BY <1>2
  <2> QED BY <2>1
<1>4. c.for \notin gone
  BY <1>1, <1>3, HeirFacts
<1> QED BY <1>1, <1>4, HeirFacts DEF Saving

LEMMA ShowSaves ==
    ASSUME NEW cs, IsSeq(cs), NEW sent, IsSeq(sent), NEW u, NEW gone, Show(cs, u, gone, sent),
           \A c \in All(cs) : CallShape(c), OneSave(cs), OneSave(sent),
           (\A c \in All(sent) : ~Saving(c)) \/ (\A d \in All(cs) : ~Saving(d))
    PROVE  OneSave(inFlight')
<1>1. PICK h : h = Heirs(cs, gone)
  OBVIOUS
<1>2. PICK e : IsSeq(h) /\ CameFrom(h, cs, gone, e)
  BY <1>1, HeirsFacts
<1>3. inFlight' = h \o sent
  BY <1>1 DEF Show
<1>4. PICK t : t = h \o sent
  OBVIOUS
<1>5. /\ Len(h) \in Nat /\ Len(sent) \in Nat
      /\ DOMAIN h = 1..Len(h) /\ DOMAIN sent = 1..Len(sent)
      /\ DOMAIN t = 1..(Len(h) + Len(sent))
      /\ \A j \in 1..Len(h) : t[j] = h[j]
      /\ \A j \in 1..Len(sent) : t[Len(h) + j] = sent[j]
  BY <1>2, <1>4, ConcatFacts
<1>6. \A j \in DOMAIN h : e[j] \in DOMAIN cs /\ (Saving(h[j]) => Saving(cs[e[j]]))
  <2> TAKE j \in DOMAIN h
  <2>1. e[j] \in DOMAIN cs /\ h[j] = Moved(cs[e[j]], gone)
    BY <1>2 DEF CameFrom
  <2>2. CallShape(cs[e[j]])
    BY <2>1 DEF All
  <2> QED BY <2>1, <2>2, MovedSaving
<1>7. \/ \A k \in DOMAIN sent : ~Saving(sent[k])
      \/ \A j \in DOMAIN h : ~Saving(h[j])
  BY <1>6 DEF All
<1>8. ASSUME NEW i \in DOMAIN t, NEW j \in DOMAIN t, Saving(t[i]), Saving(t[j]) PROVE i = j
  <2>1. \A k \in DOMAIN t :
          k \in DOMAIN h \/ (k - Len(h) \in DOMAIN sent /\ k = Len(h) + (k - Len(h)))
    BY <1>5
  <2>2. \A k \in DOMAIN h : k \in DOMAIN t /\ t[k] = h[k]
    BY <1>5
  <2>3. \A k \in DOMAIN t : k \notin DOMAIN h => t[k] = sent[k - Len(h)]
    BY <1>5, <2>1
  <2>4. CASE i \in DOMAIN h /\ j \in DOMAIN h
    <3>1. e[i] = e[j]
      BY <1>6, <1>8, <2>2, <2>4 DEF OneSave
    <3> QED BY <1>2, <2>4, <3>1 DEF CameFrom
  <2>5. CASE i \in DOMAIN h /\ j \notin DOMAIN h
    BY <1>7, <1>8, <2>1, <2>2, <2>3, <2>5
  <2>6. CASE i \notin DOMAIN h /\ j \in DOMAIN h
    BY <1>7, <1>8, <2>1, <2>2, <2>3, <2>6
  <2>7. CASE i \notin DOMAIN h /\ j \notin DOMAIN h
    <3>1. i - Len(h) = j - Len(h)
      BY <1>8, <2>1, <2>3, <2>7 DEF OneSave
    <3> QED BY <1>5, <3>1
  <2> QED BY <2>4, <2>5, <2>6, <2>7
<1>9. inFlight' = t
  BY <1>3, <1>4
<1> QED BY <1>8, <1>9 DEF OneSave

-----------------------------------------------------------------------------
(* One handler, seen from the commands in flight.                          *)

\* A handler unmounts `gone`, has taken the commands `out`, and sends those in `new`.
Traffic(gone, new, out) ==
    /\ IsSeq(inFlight')
    /\ \A c \in new : CallShape(c)
    /\ \A c \in All(inFlight') :
          (\E d \in All(inFlight) : c = Moved(d, gone) /\ Matters(c)) \/ c \in new
    /\ \A d \in All(inFlight) \ out : Matters(Moved(d, gone)) => Moved(d, gone) \in All(inFlight')
    /\ new \subseteq All(inFlight')
    /\ seen.overlapped \subseteq seen'.overlapped
    /\ \A r : r \notin seen'.overlapped =>
          /\ (\E c \in new \cup out : r \in Touches(c)) =>
                \A c \in All(inFlight') : r \in Touches(c) => c \in new
          /\ OneOn(inFlight', r)

\* The secret on the screen was shown; a view left while a token is issued is noted.
Watched(gone, out) ==
    /\ SeenShape'
    /\ seen'.shown = IF ui'.pane.view = "sharing"
                     THEN seen.shown \cup ({ui'.pane.issued} \ {Null}) ELSE seen.shown
    /\ seen.left => seen'.left
    /\ (\E c \in All(inFlight) \ out : c.cmd = "issue_share_token" /\ c.for \in gone) => seen'.left

\* The saves for a control: one at a time, unless another is sent.
SavesKept(new, out) ==
    OneSave(inFlight) =>
      /\ \/ \A c \in new : ~Saving(c)
         \/ \A d \in All(inFlight) : ~Saving(d)
         => OneSave(inFlight')
      /\ (\E c \in out : Saving(c)) => \A c \in All(inFlight') : Saving(c) => c \in new

\* One handler of a view: nothing stored changes.
Turn(gone, new, out) ==
    /\ Traffic(gone, new, out)
    /\ Watched(gone, out)
    /\ SavesKept(new, out)
    /\ vault' = vault /\ spent'.faults = spent.faults

\* What a handler sends: at most one command on each resource.
Sendable(sent) ==
    /\ IsSeq(sent)
    /\ \A c \in All(sent) : CallShape(c)
    /\ \A r : OneOn(sent, r)
    /\ OneSave(sent)

LEMMA ShowTurn ==
    ASSUME Shape, AtMostOne, NEW u, NEW gone, NEW sent, Sendable(sent),
           Show(inFlight, u, gone, sent), vault' = vault,
           spent' = [clicks |-> spent'.clicks, opens |-> spent'.opens, faults |-> spent.faults]
    PROVE  Turn(gone, All(sent), {}) /\ ui' = u
<1>1. Show(inFlight, u, gone, sent) /\ ui' = u /\ vault' = vault
  BY DEF Show
<1>2. IsSeq(inFlight) /\ SeenShape /\ IsSeq(sent) /\ \A c \in All(inFlight) : CallShape(c)
  <2>1. inFlight \in Seq(All(inFlight))
    <3>1. Len(inFlight) \in Nat /\ inFlight = [i \in 1..Len(inFlight) |-> inFlight[i]]
      BY DEF Shape, CallsShape
    <3>2. \A i \in 1..Len(inFlight) : inFlight[i] \in All(inFlight)
      BY <3>1 DEF All
    <3>3. inFlight \in [1..Len(inFlight) -> All(inFlight)]
      BY <3>1, <3>2
    <3> QED BY <3>1, <3>3
  <2> QED BY <2>1, IsSeqOf DEF Shape, CallsShape, All, Sendable
<1>3. /\ IsSeq(inFlight')
      /\ \A c \in All(inFlight') :
            (\E d \in All(inFlight) : c = Moved(d, gone) /\ Matters(c)) \/ c \in All(sent)
      /\ \A d \in All(inFlight) : Matters(Moved(d, gone)) => Moved(d, gone) \in All(inFlight')
      /\ All(sent) \subseteq All(inFlight')
  BY <1>1, <1>2, ShowCalls
<1>4. /\ seen.overlapped \subseteq seen'.overlapped
      /\ \A r : r \notin seen'.overlapped /\ (\E c \in All(sent) : r \in Touches(c)) =>
            \A d \in All(inFlight) : r \in Touches(d) => ~Matters(Moved(d, gone))
      /\ \A r : r \notin seen'.overlapped /\ OneOn(inFlight, r) /\ OneOn(sent, r) =>
            OneOn(inFlight', r)
  BY <1>1, <1>2, ShowOne
<1>5. \A d \in All(inFlight) : Touches(Moved(d, gone)) = Touches(d)
  BY <1>2, MovedFacts
<1>6. ASSUME NEW r, r \notin seen'.overlapped
      PROVE  /\ (\E c \in All(sent) \cup {} : r \in Touches(c)) =>
                   \A c \in All(inFlight') : r \in Touches(c) => c \in All(sent)
             /\ OneOn(inFlight', r)
  <2>1. OneOn(inFlight, r) /\ OneOn(sent, r)
    BY <1>4, <1>6 DEF AtMostOne, Alone, Sendable
  <2>2. OneOn(inFlight', r)
    BY <1>4, <1>6, <2>1
  <2> QED BY <1>3, <1>4, <1>5, <1>6, <2>2
<1>7. Traffic(gone, All(sent), {})
  BY <1>3, <1>4, <1>6 DEF Traffic, Sendable
<1>8. Watched(gone, {})
  <2>1. /\ seen'.shown = IF u.pane.view = "sharing"
                         THEN seen.shown \cup ({u.pane.issued} \ {Null}) ELSE seen.shown
        /\ seen' = [shown |-> seen'.shown, overlapped |-> seen'.overlapped, left |-> seen'.left]
        /\ seen'.left = (seen.left \/ \E j \in DOMAIN inFlight :
                           inFlight[j].cmd = "issue_share_token" /\ inFlight[j].for \in gone)
    BY <1>1, <1>2 DEF Show, SeenShape
  <2>2. SeenShape'
    BY <1>2, <2>1 DEF SeenShape
  <2>3. (\E c \in All(inFlight) : c.cmd = "issue_share_token" /\ c.for \in gone) => seen'.left
    BY <2>1 DEF All
  <2> QED BY <1>1, <2>1, <2>2, <2>3 DEF Watched
<1>9. spent'.faults = spent.faults
  OBVIOUS
<1>10. SavesKept(All(sent), {})
  BY <1>1, <1>2, ShowSaves DEF SavesKept, Sendable
<1> QED BY <1>1, <1>7, <1>8, <1>9, <1>10 DEF Turn

\* A click and an answer as turns: what they send and what they take.
LEMMA ClickTurn ==
    ASSUME Shape, AtMostOne, NEW u, NEW gone, NEW sent, Sendable(sent), Clicked(u, gone, sent)
    PROVE  Turn(gone, All(sent), {}) /\ ui' = u
<1>1. Show(inFlight, u, gone, sent) /\ vault' = vault
  BY DEF Clicked
<1>2. spent' = [clicks |-> spent'.clicks, opens |-> spent'.opens, faults |-> spent.faults]
  BY DEF Clicked, Shape, SeenShape
<1> QED BY <1>1, <1>2, ShowTurn

LEMMA AnswerTurn ==
    ASSUME Shape, AtMostOne, NEW i \in DOMAIN inFlight, NEW u, NEW gone, NEW sent, Sendable(sent),
           Answered(i, u, gone, sent)
    PROVE  Turn(gone, All(sent), {inFlight[i]}) /\ ui' = u
<1>1. PICK cs : cs = RemoveAt(inFlight, i)
  OBVIOUS
<1>2. Show(cs, u, gone, sent) /\ ui' = u /\ vault' = vault /\ spent' = spent
  BY <1>1 DEF Answered, Show
<1>3. IsSeq(inFlight) /\ SeenShape /\ IsSeq(sent) /\ \A c \in All(inFlight) : CallShape(c)
  <2>1. inFlight \in Seq(All(inFlight))
    <3>1. Len(inFlight) \in Nat /\ inFlight = [k \in 1..Len(inFlight) |-> inFlight[k]]
      BY DEF Shape, CallsShape
    <3>2. \A k \in 1..Len(inFlight) : inFlight[k] \in All(inFlight)
      BY <3>1 DEF All
    <3>3. inFlight \in [1..Len(inFlight) -> All(inFlight)]
      BY <3>1, <3>2
    <3> QED BY <3>1, <3>3
  <2> QED BY <2>1, IsSeqOf DEF Shape, CallsShape, All, Sendable
<1>4. PICK e : IsSeq(cs) /\ LeftOf(cs, inFlight, i, e)
  BY <1>1, <1>3, RemoveAtFacts
<1>5. All(cs) \subseteq All(inFlight)
  BY <1>4 DEF LeftOf, All
<1>6. \A d \in All(inFlight) \ {inFlight[i]} : d \in All(cs)
  <2> SUFFICES ASSUME NEW k \in DOMAIN inFlight, inFlight[k] # inFlight[i]
               PROVE  inFlight[k] \in All(cs)
    BY DEF All
  <2>1. PICK j \in DOMAIN cs : e[j] = k
    BY <1>4 DEF LeftOf
  <2> QED BY <1>4, <2>1 DEF LeftOf, All
<1>7. \A r : OneOn(inFlight, r) => OneOn(cs, r)
  <2> SUFFICES ASSUME NEW r, OneOn(inFlight, r), NEW j \in DOMAIN cs, NEW k \in DOMAIN cs,
                      r \in Touches(cs[j]), r \in Touches(cs[k])
               PROVE  j = k
    BY DEF OneOn
  <2>1. e[j] \in DOMAIN inFlight /\ e[k] \in DOMAIN inFlight
        /\ cs[j] = inFlight[e[j]] /\ cs[k] = inFlight[e[k]]
    BY <1>4 DEF LeftOf
  <2>2. e[j] = e[k]
    BY <2>1 DEF OneOn
  <2> QED BY <1>4, <2>2 DEF LeftOf
<1>8. \A r : OneOn(inFlight, r) /\ r \in Touches(inFlight[i]) =>
         \A d \in All(cs) : r \notin Touches(d)
  <2> SUFFICES ASSUME NEW r, OneOn(inFlight, r), r \in Touches(inFlight[i]), NEW j \in DOMAIN cs,
                      r \in Touches(cs[j])
               PROVE  FALSE
    BY DEF All
  <2>1. e[j] \in DOMAIN inFlight /\ e[j] # i /\ cs[j] = inFlight[e[j]]
    BY <1>4 DEF LeftOf
  <2> QED BY <2>1 DEF OneOn
<1>9. /\ IsSeq(inFlight')
      /\ \A c \in All(inFlight') :
            (\E d \in All(cs) : c = Moved(d, gone) /\ Matters(c)) \/ c \in All(sent)
      /\ \A d \in All(cs) : Matters(Moved(d, gone)) => Moved(d, gone) \in All(inFlight')
      /\ All(sent) \subseteq All(inFlight')
  BY <1>2, <1>3, <1>4, ShowCalls
<1>10. \A c \in All(cs) : CallShape(c)
  BY <1>3, <1>5
<1>11. /\ seen.overlapped \subseteq seen'.overlapped
       /\ \A r : r \notin seen'.overlapped /\ (\E c \in All(sent) : r \in Touches(c)) =>
             \A d \in All(cs) : r \in Touches(d) => ~Matters(Moved(d, gone))
       /\ \A r : r \notin seen'.overlapped /\ OneOn(cs, r) /\ OneOn(sent, r) =>
             OneOn(inFlight', r)
  BY <1>2, <1>3, <1>4, <1>10, ShowOne
<1>12. \A d \in All(inFlight) : Touches(Moved(d, gone)) = Touches(d)
  BY <1>3, MovedFacts
<1>13. ASSUME NEW r, r \notin seen'.overlapped
       PROVE  /\ (\E c \in All(sent) \cup {inFlight[i]} : r \in Touches(c)) =>
                   \A c \in All(inFlight') : r \in Touches(c) => c \in All(sent)
             /\ OneOn(inFlight', r)
  <2>1. OneOn(inFlight, r) /\ OneOn(sent, r)
    BY <1>11, <1>13 DEF AtMostOne, Alone, Sendable
  <2>2. OneOn(inFlight', r)
    <3>1. OneOn(cs, r)
      BY <1>7, <2>1
    <3> QED BY <1>11, <1>13, <2>1, <3>1
  <2>3. (\E c \in All(sent) : r \in Touches(c)) =>
           \A c \in All(inFlight') : r \in Touches(c) => c \in All(sent)
    BY <1>5, <1>9, <1>11, <1>12, <1>13
  <2>4. r \in Touches(inFlight[i]) =>
           \A c \in All(inFlight') : r \in Touches(c) => c \in All(sent)
    BY <1>5, <1>8, <1>9, <1>12, <2>1
  <2> QED BY <2>2, <2>3, <2>4
<1>14. /\ \A c \in All(inFlight') :
             (\E d \in All(inFlight) : c = Moved(d, gone) /\ Matters(c)) \/ c \in All(sent)
       /\ \A d \in All(inFlight) \ {inFlight[i]} :
             Matters(Moved(d, gone)) => Moved(d, gone) \in All(inFlight')
  BY <1>5, <1>6, <1>9
<1>15. Traffic(gone, All(sent), {inFlight[i]})
  BY <1>9, <1>11, <1>13, <1>14 DEF Traffic, Sendable
<1>16. Watched(gone, {inFlight[i]})
  <2>1. /\ seen'.shown = IF u.pane.view = "sharing"
                         THEN seen.shown \cup ({u.pane.issued} \ {Null}) ELSE seen.shown
        /\ seen' = [shown |-> seen'.shown, overlapped |-> seen'.overlapped, left |-> seen'.left]
        /\ seen'.left = (seen.left \/ \E j \in DOMAIN cs :
                           cs[j].cmd = "issue_share_token" /\ cs[j].for \in gone)
    BY <1>2, <1>3 DEF Show, SeenShape
  <2>2. SeenShape'
    BY <1>2, <1>3, <2>1 DEF SeenShape
  <2>3. (\E c \in All(cs) : c.cmd = "issue_share_token" /\ c.for \in gone) => seen'.left
    BY <2>1 DEF All
  <2> QED BY <1>2, <1>6, <2>1, <2>2, <2>3 DEF Watched
<1>17. SavesKept(All(sent), {inFlight[i]})
  <2> SUFFICES ASSUME OneSave(inFlight)
               PROVE  /\ \/ \A c \in All(sent) : ~Saving(c)
                         \/ \A d \in All(inFlight) : ~Saving(d)
                         => OneSave(inFlight')
                      /\ Saving(inFlight[i]) =>
                            \A c \in All(inFlight') : Saving(c) => c \in All(sent)
    BY DEF SavesKept
  <2>1. \A j \in DOMAIN cs : e[j] \in DOMAIN inFlight /\ e[j] # i /\ cs[j] = inFlight[e[j]]
    BY <1>4 DEF LeftOf
  <2>2. OneSave(cs)
    <3> SUFFICES ASSUME NEW j \in DOMAIN cs, NEW k \in DOMAIN cs, Saving(cs[j]), Saving(cs[k])
                 PROVE  j = k
      BY DEF OneSave
    <3>1. e[j] = e[k]
      BY <2>1 DEF OneSave
    <3> QED BY <1>4, <3>1 DEF LeftOf
  <2>3. ASSUME (\A c \in All(sent) : ~Saving(c)) \/ (\A d \in All(inFlight) : ~Saving(d))
        PROVE  OneSave(inFlight')
    <3>1. (\A c \in All(sent) : ~Saving(c)) \/ (\A d \in All(cs) : ~Saving(d))
      BY <1>5, <2>3
    <3> QED BY <1>2, <1>3, <1>4, <1>10, <2>2, <3>1, ShowSaves DEF Sendable
  <2>4. ASSUME Saving(inFlight[i]), NEW c \in All(inFlight'), Saving(c) PROVE c \in All(sent)
    <3> SUFFICES ASSUME c \notin All(sent) PROVE FALSE
      OBVIOUS
    <3>1. PICK d \in All(cs) : c = Moved(d, gone)
      BY <1>9
    <3>2. Saving(d)
      BY <1>10, <2>4, <3>1, MovedSaving
    <3>3. PICK j \in DOMAIN cs : d = cs[j]
      BY DEF All
    <3> QED BY <2>1, <2>4, <3>2, <3>3 DEF OneSave
  <2> QED BY <2>3, <2>4
<1> QED BY <1>2, <1>15, <1>16, <1>17 DEF Turn

-----------------------------------------------------------------------------
(* Commands: what each touches, and what a handler may send.               *)

LEMMA Touched ==
    ASSUME NEW c, Named(c)
    PROVE  /\ "dashboard" \in Touches(c) <=> c.cmd = "get_dashboard"
           /\ "graph" \in Touches(c) <=> c.cmd = "get_graph"
           /\ "queue" \in Touches(c) <=> c.cmd \in {"queue_list", "queue_answer", "trigger_ingest"}
           /\ "transfers" \in Touches(c) <=>
                c.cmd \in {"trigger_ingest", "list_transfers", "load_settings"}
           /\ "thread" \in Touches(c) <=>
                c.cmd \in {"persona_history_load", "persona_history_save"}
           /\ "shares" \in Touches(c) <=> c.cmd \in SharesCmds
           /\ "config" \in Touches(c) <=>
                c.cmd \in {"load_settings", "get_config", "set_transfer_policy",
                           "set_server_enabled", "set_llm_config"}
           /\ "sources" \in Touches(c) <=>
                c.cmd \in {"list_sources", "connect_source", "disconnect_source"}
           /\ "scope" \in Touches(c) <=> c.cmd \in {"get_session_scope", "set_session_scope"}
           /\ "lock" \in Touches(c) <=> c.cmd \in {"lock", "unlock", "get_status"}
           /\ \A f \in Facts : f \in Touches(c) <=>
                c.cmd \in {"get_fact", "set_fact_sharing"} /\ c.arg.fact = f
<1>1. \A f \in Facts : f \notin Resources
  BY ViewsAssumption DEF ViewsAssumption
<1>2. CASE c.cmd \in {"get_fact", "set_fact_sharing"}
  <2>1. Touches(c) = {c.arg.fact} /\ c.arg.fact \in Facts /\ c.arg.fact \notin Resources
    BY <1>1, <1>2 DEF Touches, Named
  <2> QED BY <1>1, <1>2, <2>1 DEF Resources, SharesCmds
<1>3. CASE c.cmd \notin {"get_fact", "set_fact_sharing"}
  <2>1. Touches(c) \subseteq Resources
    BY <1>3 DEF Touches, Resources
  <2>2. \A f \in Facts : f \notin Touches(c)
    BY <1>1, <2>1
  <2>3. Touches(c) =
          CASE c.cmd = "get_dashboard" -> {"dashboard"}
            [] c.cmd = "get_graph" -> {"graph"}
            [] c.cmd \in {"queue_list", "queue_answer"} -> {"queue"}
            [] c.cmd = "trigger_ingest" -> {"queue", "transfers"}
            [] c.cmd = "list_transfers" -> {"transfers"}
            [] c.cmd \in {"persona_history_load", "persona_history_save"} -> {"thread"}
            [] c.cmd \in SharesCmds -> {"shares"}
            [] c.cmd = "load_settings" -> {"config", "transfers"}
            [] c.cmd \in {"get_config", "set_transfer_policy", "set_server_enabled",
                          "set_llm_config"} -> {"config"}
            [] c.cmd \in {"list_sources", "connect_source", "disconnect_source"} -> {"sources"}
            [] c.cmd \in {"get_session_scope", "set_session_scope"} -> {"scope"}
            [] c.cmd \in {"lock", "unlock", "get_status"} -> {"lock"}
            [] OTHER -> {}
    BY <1>3 DEF Touches, SharesCmds
  <2>4. "dashboard" \in Touches(c) <=> c.cmd = "get_dashboard"
    BY <2>3 DEF SharesCmds
  <2>5. "graph" \in Touches(c) <=> c.cmd = "get_graph"
    BY <2>3 DEF SharesCmds
  <2>6. "queue" \in Touches(c) <=> c.cmd \in {"queue_list", "queue_answer", "trigger_ingest"}
    BY <2>3 DEF SharesCmds
  <2>7. "transfers" \in Touches(c) <=>
          c.cmd \in {"trigger_ingest", "list_transfers", "load_settings"}
    BY <2>3 DEF SharesCmds
  <2>8. "thread" \in Touches(c) <=> c.cmd \in {"persona_history_load", "persona_history_save"}
    BY <2>3 DEF SharesCmds
  <2>9. "shares" \in Touches(c) <=> c.cmd \in SharesCmds
    BY <2>3 DEF SharesCmds
  <2>10. "config" \in Touches(c) <=>
           c.cmd \in {"load_settings", "get_config", "set_transfer_policy",
                      "set_server_enabled", "set_llm_config"}
    BY <2>3 DEF SharesCmds
  <2>11. "sources" \in Touches(c) <=>
           c.cmd \in {"list_sources", "connect_source", "disconnect_source"}
    BY <2>3 DEF SharesCmds
  <2>12. "scope" \in Touches(c) <=> c.cmd \in {"get_session_scope", "set_session_scope"}
    BY <2>3 DEF SharesCmds
  <2>13. "lock" \in Touches(c) <=> c.cmd \in {"lock", "unlock", "get_status"}
    BY <2>3 DEF SharesCmds
  <2> HIDE DEF Touches
  <2> QED BY <1>3, <2>2, <2>4, <2>5, <2>6, <2>7, <2>8, <2>9, <2>10, <2>11, <2>12, <2>13
<1> QED BY <1>2, <1>3

\* What each command touches.
LEMMA TouchesFacts ==
    ASSUME NEW c
    PROVE  /\ c.cmd \in {"get_fact", "set_fact_sharing"} => Touches(c) = {c.arg.fact}
           /\ c.cmd = "get_dashboard" => Touches(c) = {"dashboard"}
           /\ c.cmd = "get_graph" => Touches(c) = {"graph"}
           /\ c.cmd \in {"queue_list", "queue_answer"} => Touches(c) = {"queue"}
           /\ c.cmd = "trigger_ingest" => Touches(c) = {"queue", "transfers"}
           /\ c.cmd = "list_transfers" => Touches(c) = {"transfers"}
           /\ c.cmd \in {"persona_history_load", "persona_history_save"} =>
                Touches(c) = {"thread"}
           /\ c.cmd \in SharesCmds => Touches(c) = {"shares"}
           /\ c.cmd = "load_settings" => Touches(c) = {"config", "transfers"}
           /\ c.cmd \in {"get_config", "set_transfer_policy", "set_server_enabled", "set_llm_config"} =>
                Touches(c) = {"config"}
           /\ c.cmd \in {"list_sources", "connect_source", "disconnect_source"} =>
                Touches(c) = {"sources"}
           /\ c.cmd \in {"get_session_scope", "set_session_scope"} => Touches(c) = {"scope"}
           /\ c.cmd \in {"lock", "unlock", "get_status"} => Touches(c) = {"lock"}
           /\ c.cmd = "persona_chat" => Touches(c) = {}
<1>1. ASSUME c.cmd \in {"get_fact", "set_fact_sharing"} PROVE Touches(c) = {c.arg.fact}
  BY <1>1 DEF Touches, SharesCmds
<1>2. ASSUME c.cmd = "get_dashboard" PROVE Touches(c) = {"dashboard"}
  BY <1>2 DEF Touches, SharesCmds
<1>3. ASSUME c.cmd = "get_graph" PROVE Touches(c) = {"graph"}
  BY <1>3 DEF Touches, SharesCmds
<1>4. ASSUME c.cmd \in {"queue_list", "queue_answer"} PROVE Touches(c) = {"queue"}
  BY <1>4 DEF Touches, SharesCmds
<1>5. ASSUME c.cmd = "trigger_ingest" PROVE Touches(c) = {"queue", "transfers"}
  BY <1>5 DEF Touches, SharesCmds
<1>6. ASSUME c.cmd = "list_transfers" PROVE Touches(c) = {"transfers"}
  BY <1>6 DEF Touches, SharesCmds
<1>7. ASSUME c.cmd \in {"persona_history_load", "persona_history_save"}
      PROVE  Touches(c) = {"thread"}
  BY <1>7 DEF Touches, SharesCmds
<1>8. ASSUME c.cmd \in SharesCmds PROVE Touches(c) = {"shares"}
  BY <1>8 DEF Touches, SharesCmds
<1>9. ASSUME c.cmd = "load_settings" PROVE Touches(c) = {"config", "transfers"}
  BY <1>9 DEF Touches, SharesCmds
<1>10. ASSUME c.cmd \in {"get_config", "set_transfer_policy", "set_server_enabled", "set_llm_config"}
       PROVE  Touches(c) = {"config"}
  BY <1>10 DEF Touches, SharesCmds
<1>11. ASSUME c.cmd \in {"list_sources", "connect_source", "disconnect_source"}
       PROVE  Touches(c) = {"sources"}
  BY <1>11 DEF Touches, SharesCmds
<1>12. ASSUME c.cmd \in {"get_session_scope", "set_session_scope"} PROVE Touches(c) = {"scope"}
  BY <1>12 DEF Touches, SharesCmds
<1>13. ASSUME c.cmd \in {"lock", "unlock", "get_status"} PROVE Touches(c) = {"lock"}
  BY <1>13 DEF Touches, SharesCmds
<1>14. ASSUME c.cmd = "persona_chat" PROVE Touches(c) = {}
  BY <1>14 DEF Touches, SharesCmds
<1> QED BY <1>1, <1>2, <1>3, <1>4, <1>5, <1>6, <1>7, <1>8, <1>9, <1>10, <1>11, <1>12, <1>13,
      <1>14

LEMMA CmdFacts ==
    ASSUME NEW cmd, NEW arg, NEW for
    PROVE  /\ CallShape(Cmd(cmd, arg, for))
           /\ Cmd(cmd, arg, for).cmd = cmd /\ Cmd(cmd, arg, for).arg = arg
           /\ Cmd(cmd, arg, for).for = for /\ Cmd(cmd, arg, for).state = "sent"
           /\ Cmd(cmd, arg, for).answer = Null
<1> QED BY DEF Cmd, CallShape

LEMMA NoneSendable == Sendable(<<>>) /\ All(<<>>) = {}
<1>1. <<>> \in Seq({})
  OBVIOUS
<1>2. IsSeq(<<>>)
  BY <1>1, IsSeqOf
<1>3. DOMAIN <<>> = {}
  OBVIOUS
<1> QED BY <1>2, <1>3 DEF Sendable, All, OneOn, OneSave

LEMMA OneSendable ==
    ASSUME NEW c, CallShape(c)
    PROVE  Sendable(<<c>>) /\ All(<<c>>) = {c}
<1>1. <<c>> \in Seq({c})
  OBVIOUS
<1>2. IsSeq(<<c>>)
  BY <1>1, IsSeqOf
<1>3. DOMAIN <<c>> = {1} /\ <<c>>[1] = c
  OBVIOUS
<1>4. All(<<c>>) = {c}
  BY <1>3 DEF All
<1> QED BY <1>2, <1>3, <1>4 DEF Sendable, OneOn, OneSave

LEMMA TwoSendable ==
    ASSUME NEW c, NEW d, CallShape(c), CallShape(d), Touches(c) \cap Touches(d) = {},
           ~Saving(c)
    PROVE  Sendable(<<c, d>>) /\ All(<<c, d>>) = {c, d}
<1>1. <<c, d>> \in Seq({c, d})
  OBVIOUS
<1>2. IsSeq(<<c, d>>)
  BY <1>1, IsSeqOf
<1>3. DOMAIN <<c, d>> = {1, 2} /\ <<c, d>>[1] = c /\ <<c, d>>[2] = d
  OBVIOUS
<1>4. All(<<c, d>>) = {c, d}
  BY <1>3 DEF All
<1> QED BY <1>2, <1>3, <1>4 DEF Sendable, OneOn, OneSave

-----------------------------------------------------------------------------
(* What is mounted, and who awaits a command then.                         *)

\* What is mounted stays mounted, but for the parts in gone.
MountsStay(gone, u, v) ==
    /\ "pane" \notin gone => v.tab = u.tab
    /\ "home" \notin gone => (u.tab \in SettingsTabs => v.tab \in SettingsTabs)
    /\ "graph" \notin gone => (u.tab = "dashboard" /\ Shows(u.pane.stats) =>
                                  v.tab = "dashboard" /\ Shows(v.pane.stats))
    /\ "panel" \notin gone => (u.panel.view # "none" => v.panel.view = u.panel.view)
    /\ "load" \notin gone => (u.panel.view = "control" =>
                                  v.panel.view = "control" /\ v.pane.selected = u.pane.selected)
    /\ "home" \in gone => "pane" \in gone
    /\ "pane" \in gone => "panel" \in gone \/ u.tab = "unlock"
    /\ gone \subseteq {"pane", "home", "graph", "panel", "load"}

LEMMA LineParts ==
    ASSUME NEW c
    PROVE  /\ c.cmd = "queue_answer" => Line(c) = <<"pane", "shell">>
           /\ c.cmd = "trigger_ingest" => Line(c) = <<"pane", "home", "shell">>
           /\ c.cmd \in {"connect_source", "set_session_scope"} => Line(c) = <<"panel", "pane">>
           /\ c.cmd = "lock" => Line(c) = <<"home", "app">>
           /\ c.cmd = "unlock" => Line(c) = <<"pane", "app">>
           /\ c.cmd \notin {"queue_answer", "trigger_ingest", "connect_source",
                            "set_session_scope", "lock", "unlock"} => Line(c) = <<>>
<1> QED BY DEF Line

\* Who may inherit a command.
LEMMA HeirParts ==
    ASSUME NEW c, NEW gone, c.for \in gone
    PROVE  \/ Heir(c, gone) = "nobody"
           \/ /\ Heir(c, gone) \notin gone
              /\ \/ c.cmd = "queue_answer" /\ Heir(c, gone) \in {"pane", "shell"}
                 \/ c.cmd = "trigger_ingest" /\ Heir(c, gone) \in {"pane", "home", "shell"}
                 \/ c.cmd \in {"connect_source", "set_session_scope"}
                    /\ Heir(c, gone) \in {"panel", "pane"}
                 \/ c.cmd = "lock" /\ Heir(c, gone) \in {"home", "app"}
                 \/ c.cmd = "unlock" /\ Heir(c, gone) \in {"pane", "app"}
<1>1. CASE \E n \in DOMAIN Line(c) : Line(c)[n] \notin gone
  <2>1. PICK n \in DOMAIN Line(c) : Heir(c, gone) = Line(c)[n] /\ Line(c)[n] \notin gone
    BY <1>1, HeirFacts
  <2>2. CASE c.cmd = "queue_answer"
    BY <2>1, <2>2, LineParts
  <2>3. CASE c.cmd = "trigger_ingest"
    BY <2>1, <2>3, LineParts
  <2>4. CASE c.cmd \in {"connect_source", "set_session_scope"}
    BY <2>1, <2>4, LineParts
  <2>5. CASE c.cmd = "lock"
    BY <2>1, <2>5, LineParts
  <2>6. CASE c.cmd = "unlock"
    BY <2>1, <2>6, LineParts
  <2>7. CASE c.cmd \notin {"queue_answer", "trigger_ingest", "connect_source",
                           "set_session_scope", "lock", "unlock"}
    <3>1. Line(c) = <<>>
      BY <2>7, LineParts
    <3>2. DOMAIN Line(c) = {}
      BY <3>1
    <3> QED BY <2>1, <3>2
  <2> QED BY <2>2, <2>3, <2>4, <2>5, <2>6, <2>7
<1>2. CASE ~(\E n \in DOMAIN Line(c) : Line(c)[n] \notin gone)
  BY <1>2, HeirFacts
<1> QED BY <1>1, <1>2

\* A command with a successor in its line is never awaited by nobody.
LEMMA HeirStays ==
    ASSUME NEW c, NEW gone, gone \subseteq {"pane", "home", "graph", "panel", "load"},
           c.for \in gone
    PROVE  /\ c.cmd \in {"queue_answer", "trigger_ingest", "lock", "unlock"} =>
                Heir(c, gone) # "nobody"
           /\ c.cmd \in {"connect_source", "set_session_scope"} /\ "pane" \notin gone =>
                Heir(c, gone) # "nobody"
<1>1. "shell" \notin gone /\ "app" \notin gone
  OBVIOUS
<1>2. (\E n \in DOMAIN Line(c) : Line(c)[n] \notin gone) =>
        \E n \in DOMAIN Line(c) : Heir(c, gone) = Line(c)[n]
  BY HeirFacts
<1>3. CASE c.cmd = "queue_answer"
  <2>1. Line(c) = <<"pane", "shell">>
    BY <1>3, LineParts
  <2> QED BY <1>1, <1>2, <1>3, <2>1
<1>4. CASE c.cmd = "trigger_ingest"
  <2>1. Line(c) = <<"pane", "home", "shell">>
    BY <1>4, LineParts
  <2> QED BY <1>1, <1>2, <1>4, <2>1
<1>5. CASE c.cmd \in {"connect_source", "set_session_scope"}
  <2>1. Line(c) = <<"panel", "pane">>
    BY <1>5, LineParts
  <2> QED BY <1>1, <1>2, <1>5, <2>1
<1>6. CASE c.cmd = "lock"
  <2>1. Line(c) = <<"home", "app">>
    BY <1>6, LineParts
  <2> QED BY <1>1, <1>2, <1>6, <2>1
<1>7. CASE c.cmd = "unlock"
  <2>1. Line(c) = <<"pane", "app">>
    BY <1>7, LineParts
  <2> QED BY <1>1, <1>2, <1>7, <2>1
<1> QED BY <1>3, <1>4, <1>5, <1>6, <1>7

\* A command that goes on is awaited by what is mounted then.
LEMMA MovedRouted ==
    ASSUME UiShape, NEW c, CallShape(c), Routed(c, ui), NEW gone, NEW v, MountsStay(gone, ui, v),
           Matters(Moved(c, gone))
    PROVE  Routed(Moved(c, gone), v)
<1>1. PICK m : m = Moved(c, gone)
  OBVIOUS
<1>2. m.cmd = c.cmd /\ m.arg = c.arg /\ m.state = c.state /\ m.for = Heir(c, gone)
  BY <1>1, MovedFacts
<1>3. Named(m)
  BY <1>2 DEF Routed, Named
<1>4. CASE c.for \notin gone
  <2>1. m.for = c.for
    BY <1>2, <1>4, HeirFacts
  <2>2. PanelOfCmd(c.cmd) \in {"control", "connect", "scope", "none"}
    BY DEF PanelOfCmd
  <2>3. c.for = "panel" => PanelOfCmd(c.cmd) # "none"
    <3>1. c.for = "panel" => c.cmd \in {"set_fact_sharing", "get_session_scope", "connect_source",
                                        "set_session_scope"}
      BY DEF Routed, Awaiters
    <3> QED BY <3>1 DEF PanelOfCmd
  <2> QED BY <1>1, <1>2, <1>3, <1>4, <2>1, <2>2, <2>3 DEF Routed, MountsStay
<1>5. CASE c.for \in gone /\ m.for = "nobody"
  <2>1. m.state = "sent" /\ m.cmd \notin Reads
    BY <1>1, <1>5 DEF Matters
  <2>2. c.for \in Awaiters(c.cmd) /\ c.for \in {"pane", "home", "graph", "panel", "load"}
    BY <1>5 DEF Routed, MountsStay
  <2>3. c.cmd \notin {"queue_answer", "trigger_ingest", "lock", "unlock"}
    BY <1>2, <1>5, HeirStays DEF MountsStay
  <2>4. "nobody" \in Awaiters(c.cmd)
    BY <1>2, <2>1, <2>2, <2>3 DEF Awaiters, Reads
  <2> QED BY <1>1, <1>2, <1>3, <1>5, <2>1, <2>4 DEF Routed
<1>6. CASE c.for \in gone /\ m.for # "nobody"
  <2>1. /\ m.for \notin gone
        /\ \/ c.cmd = "queue_answer" /\ m.for \in {"pane", "shell"}
           \/ c.cmd = "trigger_ingest" /\ m.for \in {"pane", "home", "shell"}
           \/ c.cmd \in {"connect_source", "set_session_scope"} /\ m.for \in {"panel", "pane"}
           \/ c.cmd = "lock" /\ m.for \in {"home", "app"}
           \/ c.cmd = "unlock" /\ m.for \in {"pane", "app"}
    BY <1>2, <1>6, HeirParts
  <2>2. m.for \in Awaiters(m.cmd)
    BY <1>2, <2>1 DEF Awaiters
  <2>3. c.for \in Awaiters(c.cmd) /\ c.for # m.for
    BY <1>6, <2>1 DEF Routed
  <2>4. c.cmd \in {"queue_answer", "unlock"} => m.for # "pane"
    BY <1>6, <2>1, <2>3 DEF Awaiters, MountsStay
  <2>5. c.cmd = "lock" => m.for = "app"
    BY <1>6, <2>1, <2>3 DEF Awaiters, MountsStay
  <2>6. CASE c.cmd \in {"connect_source", "set_session_scope"}
    <3>1. \/ c.for = "panel" /\ m.for = "pane"
          \/ c.for = "pane" /\ m.for = "panel"
      BY <1>6, <2>1, <2>3, <2>6 DEF Awaiters, MountsStay
    <3>2. CASE c.for = "panel" /\ m.for = "pane"
      <4>1. ui.panel.view \in {"scope", "connect"}
        BY <2>6, <3>2 DEF Routed, PanelOfCmd
      <4>2. ui.tab = "sources"
        <5>1. NoView.view = "none"
          BY DEF NoView
        <5> QED BY <4>1, <5>1 DEF UiShape
      <4>3. v.tab = "sources"
        BY <2>1, <3>2, <4>2 DEF MountsStay
      <4>4. PaneOfCmd(m.cmd) = "sources"
        BY <1>2, <2>6 DEF PaneOfCmd, SharesCmds
      <4> QED BY <1>1, <1>2, <1>3, <2>2, <3>2, <4>3, <4>4 DEF Routed
    <3>3. CASE c.for = "pane" /\ m.for = "panel"
      <4>1. PaneOfCmd(c.cmd) = "sources"
        BY <2>6 DEF PaneOfCmd, SharesCmds
      <4>2. ui.tab = "sources"
        BY <3>3, <4>1 DEF Routed
      <4> QED BY <1>6, <2>1, <3>3, <4>2 DEF MountsStay
    <3> QED BY <3>1, <3>2, <3>3
  <2>7. CASE c.cmd = "trigger_ingest"
    <3>1. PaneOfCmd(c.cmd) = "sources"
      BY <2>7 DEF PaneOfCmd, SharesCmds
    <3>2. c.for \in {"pane", "home"}
      BY <1>6, <2>3, <2>7 DEF Awaiters, MountsStay
    <3>3. ui.tab \in SettingsTabs
      BY <3>1, <3>2 DEF Routed, SettingsTabs
    <3>4. m.for = "home" => v.tab \in SettingsTabs
      BY <2>1, <3>3 DEF MountsStay
    <3>5. m.for # "pane"
      BY <1>6, <2>1, <3>2 DEF MountsStay
    <3>6. m.for \in {"home", "shell"}
      BY <2>1, <2>7, <3>5
    <3> QED BY <1>1, <1>2, <1>3, <2>2, <3>4, <3>6 DEF Routed
  <2>8. CASE c.cmd \in {"queue_answer", "lock", "unlock"}
    <3>1. m.for \in {"shell", "app"}
      BY <2>1, <2>4, <2>5, <2>8
    <3> QED BY <1>1, <1>2, <1>3, <2>2, <3>1 DEF Routed
  <2> QED BY <2>1, <2>6, <2>7, <2>8
<1> QED BY <1>4, <1>5, <1>6

\* Every command of a shape is one of the sequence, at its place.
LEMMA AllShaped ==
    ASSUME IsSeq(inFlight), \A c \in All(inFlight) : CallShape(c)
    PROVE  CallsShape
<1>1. Len(inFlight) \in Nat /\ inFlight = [i \in 1..Len(inFlight) |-> inFlight[i]]
  BY SeqFacts
<1> QED BY <1>1 DEF CallsShape, All

LEMMA ShapedCalls ==
    ASSUME CallsShape
    PROVE  IsSeq(inFlight) /\ \A c \in All(inFlight) : CallShape(c)
<1>1. inFlight \in Seq(All(inFlight))
  <2>1. Len(inFlight) \in Nat /\ inFlight = [i \in 1..Len(inFlight) |-> inFlight[i]]
    BY DEF CallsShape
  <2>2. \A i \in 1..Len(inFlight) : inFlight[i] \in All(inFlight)
    BY <2>1 DEF All
  <2>3. inFlight \in [1..Len(inFlight) -> All(inFlight)]
    BY <2>1, <2>2
  <2> QED BY <2>1, <2>3
<1> QED BY <1>1, IsSeqOf DEF CallsShape, All

\* Every command in flight matters, and stays as it is while its view stays.
LEMMA StaysSame ==
    ASSUME Shape, NEW c \in All(inFlight), NEW gone, c.for \notin gone
    PROVE  Moved(c, gone) = c /\ Matters(c)
<1>1. CallShape(c) /\ Routed(c, ui)
  BY ShapedCalls DEF Shape, Routing
<1>2. Heir(c, gone) = c.for
  BY HeirFacts
<1>3. Moved(c, gone) = [c EXCEPT !.for = c.for]
  BY <1>2 DEF Moved
<1>4. [c EXCEPT !.for = c.for] = c
  BY <1>1 DEF CallShape
<1>5. Matters(c)
  BY <1>1 DEF Matters, Routed
<1> QED BY <1>3, <1>4, <1>5

\* A handler keeps the shape of the views and the commands.
LEMMA TurnShape ==
    ASSUME Shape, NEW gone, NEW new, NEW out, Turn(gone, new, out), MountsStay(gone, ui, ui'),
           UiShape', \A c \in new : Routed(c, ui')
    PROVE  Shape' /\ AtMostOne'
<1>1. \A c \in All(inFlight) : CallShape(c) /\ Routed(c, ui)
  BY ShapedCalls DEF Shape, Routing
<1>2. ASSUME NEW c \in All(inFlight') PROVE CallShape(c) /\ Routed(c, ui')
  <2>1. CASE c \in new
    BY <2>1 DEF Turn, Traffic
  <2>2. CASE c \notin new
    <3>1. PICK d \in All(inFlight) : c = Moved(d, gone) /\ Matters(c)
      BY <2>2 DEF Turn, Traffic
    <3>2. CallShape(d) /\ Routed(d, ui)
      BY <1>1
    <3> QED BY <3>1, <3>2, MovedFacts, MovedRouted DEF Shape
  <2> QED BY <2>1, <2>2
<1>3. IsSeq(inFlight')
  BY DEF Turn, Traffic
<1>4. CallsShape'
  <2>1. Len(inFlight') \in Nat /\ inFlight' = [i \in 1..Len(inFlight') |-> inFlight'[i]]
    BY <1>3, SeqFacts
  <2> QED BY <1>2, <2>1 DEF CallsShape, All
<1>5. Routing'
  BY <1>2 DEF Routing
<1>6. VaultShape'
  BY DEF Turn, Shape, VaultShape
<1>7. SeenShape'
  BY DEF Turn, Watched
<1>8. AtMostOne'
  BY DEF Turn, Traffic, AtMostOne, Alone
<1> QED BY <1>4, <1>5, <1>6, <1>7, <1>8 DEF Shape

\* Calls on what a handler does not touch are left as they are.
LEMMA Untouched ==
    ASSUME Shape, NEW gone, NEW new, NEW out, Turn(gone, new, out), NEW r,
           \A c \in new \cup out : r \notin Touches(c),
           \A c \in All(inFlight) : c.for \in gone => r \notin Touches(c)
    PROVE  On(inFlight', r) = On(inFlight, r)
<1>1. ASSUME NEW c \in On(inFlight', r) PROVE c \in On(inFlight, r)
  <2>1. c \in All(inFlight') /\ r \in Touches(c)
    BY <1>1 DEF On
  <2>2. PICK d \in All(inFlight) : c = Moved(d, gone)
    BY <2>1 DEF Turn, Traffic
  <2>3. CallShape(d)
    BY ShapedCalls DEF Shape
  <2>4. r \in Touches(d)
    BY <2>1, <2>2, <2>3, MovedFacts
  <2>5. Moved(d, gone) = d
    BY <2>4, StaysSame
  <2> QED BY <2>2, <2>4, <2>5 DEF On
<1>2. ASSUME NEW c \in On(inFlight, r) PROVE c \in On(inFlight', r)
  <2>1. c \in All(inFlight) /\ r \in Touches(c) /\ c \notin out
    BY <1>2 DEF On
  <2>2. Moved(c, gone) = c /\ Matters(c)
    BY <2>1, StaysSame
  <2>3. c \in All(inFlight')
    BY <2>1, <2>2 DEF Turn, Traffic
  <2> QED BY <2>1, <2>3 DEF On
<1> QED BY <1>1, <1>2

\* Calls on what a handler does touch are those it sends.
LEMMA TouchedNew ==
    ASSUME NEW gone, NEW new, NEW out, Turn(gone, new, out), NEW r, r \notin seen'.overlapped,
           \E c \in new \cup out : r \in Touches(c)
    PROVE  On(inFlight', r) = {c \in new : r \in Touches(c)}
<1>1. \A c \in All(inFlight') : r \in Touches(c) => c \in new
  BY DEF Turn, Traffic
<1>2. new \subseteq All(inFlight')
  BY DEF Turn, Traffic
<1> QED BY <1>1, <1>2 DEF On

\* A command sent alone finds no other on its way.
LEMMA TouchedBefore ==
    ASSUME Shape, NEW gone, NEW new, NEW out, Turn(gone, new, out), NEW r, r \notin seen'.overlapped,
           \E c \in new \cup out : r \in Touches(c),
           \A c \in All(inFlight) : c.for \in gone => r \notin Touches(c)
    PROVE  On(inFlight, r) \subseteq new \cup out
<1> SUFFICES ASSUME NEW c \in All(inFlight), r \in Touches(c), c \notin out PROVE c \in new
  BY DEF On
<1>1. Moved(c, gone) = c /\ Matters(c)
  BY StaysSame
<1>2. c \in All(inFlight')
  BY <1>1 DEF Turn, Traffic
<1> QED BY <1>2 DEF Turn, Traffic

\* What was sent alone stays so.
LEMMA OnlyGrows ==
    ASSUME NEW gone, NEW new, NEW out, Turn(gone, new, out), NEW r, Alone(r)'
    PROVE  Alone(r)
<1> QED BY DEF Turn, Traffic, Alone

\* Handlers that send no command, or one.
LEMMA ClickNone ==
    ASSUME Shape, AtMostOne, NEW u, NEW gone, Clicked(u, gone, <<>>)
    PROVE  Turn(gone, {}, {}) /\ ui' = u
<1> QED BY NoneSendable, ClickTurn

LEMMA ClickOne ==
    ASSUME Shape, AtMostOne, NEW u, NEW gone, NEW cmd, NEW arg, NEW for,
           Clicked(u, gone, <<Cmd(cmd, arg, for)>>)
    PROVE  Turn(gone, {Cmd(cmd, arg, for)}, {}) /\ ui' = u
<1> PICK c : c = Cmd(cmd, arg, for)
  OBVIOUS
<1>1. CallShape(c) /\ Clicked(u, gone, <<c>>)
  BY CmdFacts
<1> QED BY <1>1, OneSendable, ClickTurn

LEMMA AnswerNone ==
    ASSUME Shape, AtMostOne, NEW i \in DOMAIN inFlight, NEW u, NEW gone, Answered(i, u, gone, <<>>)
    PROVE  Turn(gone, {}, {inFlight[i]}) /\ ui' = u
<1> QED BY NoneSendable, AnswerTurn

LEMMA AnswerOne ==
    ASSUME Shape, AtMostOne, NEW i \in DOMAIN inFlight, NEW u, NEW gone, NEW cmd, NEW arg, NEW for,
           Answered(i, u, gone, <<Cmd(cmd, arg, for)>>)
    PROVE  Turn(gone, {Cmd(cmd, arg, for)}, {inFlight[i]}) /\ ui' = u
<1> PICK c : c = Cmd(cmd, arg, for)
  OBVIOUS
<1>1. CallShape(c) /\ Answered(i, u, gone, <<c>>)
  BY CmdFacts
<1> QED BY <1>1, OneSendable, AnswerTurn

-----------------------------------------------------------------------------
(* The views, as the handlers find them.                                   *)

\* One lemma per view: what is mounted has the fields its handlers use.
LEMMA QueueUi ==
    ASSUME Shape, ui.tab = "queue"
    PROVE  \E tab, panel, home, items, busyId, error :
             ui = View(tab, QueuePane(items, busyId, error), panel, home)
<1>1. ui = View(ui.tab, ui.pane, ui.panel, ui.home) /\ QueueShape(ui.pane)
  BY DEF Shape, UiShape, InSettings
<1> WITNESS ui.tab, ui.panel, ui.home, ui.pane.items, ui.pane.busyId, ui.pane.error
<1> QED BY <1>1, Zenon DEF QueueShape

LEMMA PersonaUi ==
    ASSUME Shape, ui.tab = "persona"
    PROVE  \E tab, panel, home, messages, sending, loaded, fresh :
             ui = View(tab, PersonaPane(messages, sending, loaded, fresh), panel, home)
<1>1. ui = View(ui.tab, ui.pane, ui.panel, ui.home) /\ PersonaShape(ui.pane)
  BY DEF Shape, UiShape, InSettings
<1> WITNESS ui.tab, ui.panel, ui.home, ui.pane.messages, ui.pane.sending, ui.pane.loaded,
            ui.pane.fresh
<1> QED BY <1>1, Zenon DEF PersonaShape

LEMMA SharingUi ==
    ASSUME Shape, ui.tab = "sharing"
    PROVE  \E tab, panel, home, status, loading, busy, error, picked, issued :
             ui = View(tab, SharingPane(status, loading, busy, error, picked, issued), panel, home)
<1>1. ui = View(ui.tab, ui.pane, ui.panel, ui.home) /\ SharingShape(ui.pane)
  BY DEF Shape, UiShape, InSettings
<1> WITNESS ui.tab, ui.panel, ui.home, ui.pane.status, ui.pane.loading, ui.pane.busy,
            ui.pane.error, ui.pane.picked, ui.pane.issued
<1> QED BY <1>1, Zenon DEF SharingShape

LEMMA SourcesUi ==
    ASSUME Shape, ui.tab = "sources"
    PROVE  \E tab, panel, home, status, run, error :
             ui = View(tab, SourcesPane(status, run, error), panel, home)
<1>1. ui = View(ui.tab, ui.pane, ui.panel, ui.home) /\ SourcesShape(ui.pane)
  BY DEF Shape, UiShape, InSettings
<1> WITNESS ui.tab, ui.panel, ui.home, ui.pane.status, ui.pane.run, ui.pane.error
<1> QED BY <1>1, Zenon DEF SourcesShape

LEMMA UnlockUi ==
    ASSUME Shape, ui.tab = "unlock"
    PROVE  \E tab, panel, home, busy, error :
             ui = View(tab, UnlockPane(busy, error), panel, home)
<1>1. ui = View(ui.tab, ui.pane, ui.panel, ui.home) /\ UnlockShape(ui.pane)
  BY DEF Shape, UiShape, InSettings
<1> WITNESS ui.tab, ui.panel, ui.home, ui.pane.busy, ui.pane.error
<1> QED BY <1>1, Zenon DEF UnlockShape

LEMMA DashboardUi ==
    ASSUME Shape, ui.tab = "dashboard"
    PROVE  \E tab, panel, home, stats, graph, scope, selected :
             ui = View(tab, DashboardPane(stats, graph, scope, selected), panel, home)
<1>1. ui = View(ui.tab, ui.pane, ui.panel, ui.home) /\ DashboardShape(ui.pane)
  BY DEF Shape, UiShape, InSettings
<1> WITNESS ui.tab, ui.panel, ui.home, ui.pane.stats, ui.pane.graph, ui.pane.scope,
            ui.pane.selected
<1> QED BY <1>1, Zenon DEF DashboardShape

LEMMA HomeUi ==
    ASSUME Shape, ui.tab \in SettingsTabs
    PROVE  \E tab, pane, panel, cfg, model, typed, loading, busy, error, noted, transfers :
             ui = View(tab, pane, panel,
                       HomeView(cfg, model, typed, loading, busy, error, noted, transfers))
<1>1. ui = View(ui.tab, ui.pane, ui.panel, ui.home) /\ HomeShape(ui.home)
  BY DEF Shape, UiShape, InSettings
<1> WITNESS ui.tab, ui.pane, ui.panel, ui.home.config, ui.home.model, ui.home.typed,
            ui.home.loading, ui.home.busy, ui.home.error, ui.home.saved, ui.home.transfers
<1> QED BY <1>1, Zenon DEF HomeShape

LEMMA ControlUi ==
    ASSUME Shape, ui.panel.view = "control"
    PROVE  \E tab, pane, home, fact, visibility, category, picked, busy, error, noted :
             ui = View(tab, pane,
                       ControlPanel(fact, visibility, category, picked, busy, error, noted), home)
<1>1. NoView.view # "control"
  BY DEF NoView
<1>2. ui = View(ui.tab, ui.pane, ui.panel, ui.home) /\ ControlShape(ui.panel)
  BY <1>1 DEF Shape, UiShape, ControlShape
<1> WITNESS ui.tab, ui.pane, ui.home, ui.panel.fact, ui.panel.visibility, ui.panel.category,
            ui.panel.picked, ui.panel.busy, ui.panel.error, ui.panel.saved
<1> QED BY <1>2, Zenon DEF ControlShape

LEMMA ScopeUi ==
    ASSUME Shape, ui.panel.view = "scope"
    PROVE  \E tab, pane, home, shown, selected, toggled, saving, error :
             ui = View(tab, pane, ScopePanel(shown, selected, toggled, saving, error), home)
<1>1. NoView.view # "scope"
  BY DEF NoView
<1>2. ui = View(ui.tab, ui.pane, ui.panel, ui.home) /\ ScopeShape(ui.panel)
  BY <1>1 DEF Shape, UiShape, ScopeShape
<1> WITNESS ui.tab, ui.pane, ui.home, ui.panel.shown, ui.panel.selected, ui.panel.toggled,
            ui.panel.saving, ui.panel.error
<1> QED BY <1>2, Zenon DEF ScopeShape

LEMMA ConnectUi ==
    ASSUME Shape, ui.panel.view = "connect"
    PROVE  \E tab, pane, home, saving, note, error :
             ui = View(tab, pane, ConnectPanel(saving, note, error), home)
<1>1. NoView.view # "connect"
  BY DEF NoView
<1>2. ui = View(ui.tab, ui.pane, ui.panel, ui.home) /\ ConnectShape(ui.panel)
  BY <1>1 DEF Shape, UiShape, ConnectShape
<1> WITNESS ui.tab, ui.pane, ui.home, ui.panel.saving, ui.panel.note, ui.panel.error
<1> QED BY <1>2, Zenon DEF ConnectShape

\* A command in flight, as the handlers find it.
LEMMA CallFacts ==
    ASSUME Shape, NEW i \in DOMAIN inFlight
    PROVE  /\ inFlight[i] \in All(inFlight) /\ CallShape(inFlight[i])
           /\ Routed(inFlight[i], ui) /\ Named(inFlight[i])
<1>1. inFlight[i] \in All(inFlight)
  BY DEF All
<1> QED BY <1>1, ShapedCalls DEF Shape, Routing, Routed

\* Where a command may be awaited, name by name.
LEMMA RoutedFacts ==
    ASSUME NEW c, NEW u, Routed(c, u)
    PROVE  /\ c.cmd = "queue_list" => c.for = "pane" /\ u.tab = "queue"
           /\ c.cmd = "queue_answer" =>
                c.for \in {"pane", "shell"} /\ (c.for = "pane" => u.tab = "queue")
           /\ c.cmd = "persona_history_load" => c.for = "pane" /\ u.tab = "persona"
           /\ c.cmd = "persona_chat" /\ c.state # "sent" =>
                c.for = "pane" /\ u.tab = "persona"
           /\ c.cmd = "persona_history_save" => c.for = "nobody" /\ c.state = "sent"
           /\ c.cmd = "share_status" => c.for = "pane" /\ u.tab = "sharing"
           /\ c.cmd \in SharesCmds =>
                c.for \in {"pane", "nobody"} /\ (c.for = "pane" => u.tab = "sharing")
              /\ (c.state # "sent" => c.for = "pane")
           /\ c.cmd = "list_sources" => c.for = "pane" /\ u.tab = "sources"
           /\ c.cmd = "disconnect_source" /\ c.state # "sent" =>
                c.for = "pane" /\ u.tab = "sources"
           /\ c.cmd = "connect_source" /\ c.for \in {"pane", "panel"} =>
                u.tab = "sources" \/ (c.for = "panel" /\ u.panel.view = "connect")
           /\ c.cmd = "connect_source" /\ c.state # "sent" => c.for \in {"pane", "panel"}
           /\ c.cmd = "set_session_scope" /\ c.state # "sent" => c.for \in {"pane", "panel"}
           /\ c.cmd = "set_session_scope" /\ c.for = "pane" => u.tab = "sources"
           /\ c.cmd = "set_session_scope" /\ c.for = "panel" => u.panel.view = "scope"
           /\ c.cmd = "get_session_scope" => c.for = "panel" /\ u.panel.view = "scope"
           /\ c.cmd = "trigger_ingest" =>
                c.for \in {"pane", "home", "shell"} /\ (c.for = "pane" => u.tab = "sources")
              /\ (c.for = "home" => u.tab \in SettingsTabs)
           /\ c.cmd \in {"load_settings", "get_config", "list_transfers"} =>
                c.for = "home" /\ u.tab \in SettingsTabs
           /\ c.cmd \in {"set_transfer_policy", "set_server_enabled", "set_llm_config"} =>
                c.for \in {"home", "nobody"}
              /\ (c.for = "home" => u.tab \in SettingsTabs) /\ (c.state # "sent" => c.for = "home")
           /\ c.cmd = "lock" =>
                c.for \in {"home", "app"} /\ (c.for = "home" => u.tab \in SettingsTabs)
           /\ c.cmd = "unlock" =>
                c.for \in {"pane", "app"} /\ (c.for = "pane" => u.tab = "unlock")
           /\ c.cmd = "get_status" => c.for = "app"
           /\ c.cmd = "get_dashboard" => c.for = "pane" /\ u.tab = "dashboard"
           /\ c.cmd = "get_graph" =>
                c.for = "graph" /\ u.tab = "dashboard" /\ Shows(u.pane.stats)
           /\ c.cmd = "get_fact" =>
                c.for = "load" /\ u.panel.view = "control" /\ c.arg.fact = u.pane.selected
           /\ c.cmd = "set_fact_sharing" =>
                c.for \in {"panel", "nobody"} /\ (c.for = "panel" => u.panel.view = "control")
              /\ (c.state # "sent" => c.for = "panel")
           /\ c.state # "sent" => c.for # "nobody"
           /\ c.cmd \in {"get_fact", "set_fact_sharing"} => c.arg.fact \in Facts
<1>1. ASSUME c.cmd = "queue_list" PROVE c.for = "pane" /\ u.tab = "queue"
  BY <1>1 DEF Routed, Awaiters, PaneOfCmd, PanelOfCmd, SharesCmds, SettingsTabs, Reads, Named
<1>2. ASSUME c.cmd = "queue_answer"
      PROVE  c.for \in {"pane", "shell"} /\ (c.for = "pane" => u.tab = "queue")
  BY <1>2 DEF Routed, Awaiters, PaneOfCmd, PanelOfCmd, SharesCmds, SettingsTabs, Reads, Named
<1>3. ASSUME c.cmd = "persona_history_load" PROVE c.for = "pane" /\ u.tab = "persona"
  BY <1>3 DEF Routed, Awaiters, PaneOfCmd, PanelOfCmd, SharesCmds, SettingsTabs, Reads, Named
<1>4. ASSUME c.cmd = "persona_chat" /\ c.state # "sent" PROVE c.for = "pane" /\ u.tab = "persona"
  BY <1>4 DEF Routed, Awaiters, PaneOfCmd, PanelOfCmd, SharesCmds, SettingsTabs, Reads, Named
<1>5. ASSUME c.cmd = "persona_history_save" PROVE c.for = "nobody" /\ c.state = "sent"
  BY <1>5 DEF Routed, Awaiters, PaneOfCmd, PanelOfCmd, SharesCmds, SettingsTabs, Reads, Named
<1>6. ASSUME c.cmd = "share_status" PROVE c.for = "pane" /\ u.tab = "sharing"
  BY <1>6 DEF Routed, Awaiters, PaneOfCmd, PanelOfCmd, SharesCmds, SettingsTabs, Reads, Named
<1>7. ASSUME c.cmd \in SharesCmds
      PROVE  /\ c.for \in {"pane", "nobody"}
             /\ (c.for = "pane" => u.tab = "sharing")
             /\ (c.state # "sent" => c.for = "pane")
  BY <1>7 DEF Routed, Awaiters, PaneOfCmd, PanelOfCmd, SharesCmds, SettingsTabs, Reads, Named
<1>8. ASSUME c.cmd = "list_sources" PROVE c.for = "pane" /\ u.tab = "sources"
  BY <1>8 DEF Routed, Awaiters, PaneOfCmd, PanelOfCmd, SharesCmds, SettingsTabs, Reads, Named
<1>9. ASSUME c.cmd = "disconnect_source" /\ c.state # "sent"
      PROVE  c.for = "pane" /\ u.tab = "sources"
  BY <1>9 DEF Routed, Awaiters, PaneOfCmd, PanelOfCmd, SharesCmds, SettingsTabs, Reads, Named
<1>10. ASSUME c.cmd = "connect_source" /\ c.for \in {"pane", "panel"}
       PROVE  u.tab = "sources" \/ (c.for = "panel" /\ u.panel.view = "connect")
  BY <1>10 DEF Routed, Awaiters, PaneOfCmd, PanelOfCmd, SharesCmds, SettingsTabs, Reads, Named
<1>11. ASSUME c.cmd = "connect_source" /\ c.state # "sent" PROVE c.for \in {"pane", "panel"}
  BY <1>11 DEF Routed, Awaiters, PaneOfCmd, PanelOfCmd, SharesCmds, SettingsTabs, Reads, Named
<1>12. ASSUME c.cmd = "set_session_scope" /\ c.state # "sent" PROVE c.for \in {"pane", "panel"}
  BY <1>12 DEF Routed, Awaiters, PaneOfCmd, PanelOfCmd, SharesCmds, SettingsTabs, Reads, Named
<1>13. ASSUME c.cmd = "set_session_scope" /\ c.for = "pane" PROVE u.tab = "sources"
  BY <1>13 DEF Routed, Awaiters, PaneOfCmd, PanelOfCmd, SharesCmds, SettingsTabs, Reads, Named
<1>14. ASSUME c.cmd = "set_session_scope" /\ c.for = "panel" PROVE u.panel.view = "scope"
  BY <1>14 DEF Routed, Awaiters, PaneOfCmd, PanelOfCmd, SharesCmds, SettingsTabs, Reads, Named
<1>15. ASSUME c.cmd = "get_session_scope" PROVE c.for = "panel" /\ u.panel.view = "scope"
  BY <1>15 DEF Routed, Awaiters, PaneOfCmd, PanelOfCmd, SharesCmds, SettingsTabs, Reads, Named
<1>16. ASSUME c.cmd = "trigger_ingest"
       PROVE  /\ c.for \in {"pane", "home", "shell"}
              /\ (c.for = "pane" => u.tab = "sources")
              /\ (c.for = "home" => u.tab \in SettingsTabs)
  BY <1>16 DEF Routed, Awaiters, PaneOfCmd, PanelOfCmd, SharesCmds, SettingsTabs, Reads, Named
<1>17. ASSUME c.cmd \in {"load_settings", "get_config", "list_transfers"}
       PROVE  c.for = "home" /\ u.tab \in SettingsTabs
  BY <1>17 DEF Routed, Awaiters, PaneOfCmd, PanelOfCmd, SharesCmds, SettingsTabs, Reads, Named
<1>18. ASSUME c.cmd \in {"set_transfer_policy", "set_server_enabled", "set_llm_config"}
       PROVE  /\ c.for \in {"home", "nobody"}
              /\ (c.for = "home" => u.tab \in SettingsTabs)
              /\ (c.state # "sent" => c.for = "home")
  BY <1>18 DEF Routed, Awaiters, PaneOfCmd, PanelOfCmd, SharesCmds, SettingsTabs, Reads, Named
<1>19. ASSUME c.cmd = "lock"
       PROVE  c.for \in {"home", "app"} /\ (c.for = "home" => u.tab \in SettingsTabs)
  BY <1>19 DEF Routed, Awaiters, PaneOfCmd, PanelOfCmd, SharesCmds, SettingsTabs, Reads, Named
<1>20. ASSUME c.cmd = "unlock"
       PROVE  c.for \in {"pane", "app"} /\ (c.for = "pane" => u.tab = "unlock")
  BY <1>20 DEF Routed, Awaiters, PaneOfCmd, PanelOfCmd, SharesCmds, SettingsTabs, Reads, Named
<1>21. ASSUME c.cmd = "get_status" PROVE c.for = "app"
  BY <1>21 DEF Routed, Awaiters, PaneOfCmd, PanelOfCmd, SharesCmds, SettingsTabs, Reads, Named
<1>22. ASSUME c.cmd = "get_dashboard" PROVE c.for = "pane" /\ u.tab = "dashboard"
  BY <1>22 DEF Routed, Awaiters, PaneOfCmd, PanelOfCmd, SharesCmds, SettingsTabs, Reads, Named
<1>23. ASSUME c.cmd = "get_graph"
       PROVE  c.for = "graph" /\ u.tab = "dashboard" /\ Shows(u.pane.stats)
  BY <1>23 DEF Routed, Awaiters, PaneOfCmd, PanelOfCmd, SharesCmds, SettingsTabs, Reads, Named
<1>24. ASSUME c.cmd = "get_fact"
       PROVE  c.for = "load" /\ u.panel.view = "control" /\ c.arg.fact = u.pane.selected
  BY <1>24 DEF Routed, Awaiters, PaneOfCmd, PanelOfCmd, SharesCmds, SettingsTabs, Reads, Named
<1>25. ASSUME c.cmd = "set_fact_sharing"
       PROVE  /\ c.for \in {"panel", "nobody"}
              /\ (c.for = "panel" => u.panel.view = "control")
              /\ (c.state # "sent" => c.for = "panel")
  BY <1>25 DEF Routed, Awaiters, PaneOfCmd, PanelOfCmd, SharesCmds, SettingsTabs, Reads, Named
<1>26. ASSUME c.state # "sent" PROVE c.for # "nobody"
  BY <1>26 DEF Routed, Awaiters, PaneOfCmd, PanelOfCmd, SharesCmds, SettingsTabs, Reads, Named
<1>27. ASSUME c.cmd \in {"get_fact", "set_fact_sharing"} PROVE c.arg.fact \in Facts
  BY <1>27 DEF Routed, Awaiters, PaneOfCmd, PanelOfCmd, SharesCmds, SettingsTabs, Reads, Named
<1> QED BY <1>1, <1>2, <1>3, <1>4, <1>5, <1>6, <1>7, <1>8, <1>9, <1>10, <1>11, <1>12, <1>13,
      <1>14, <1>15, <1>16, <1>17, <1>18, <1>19, <1>20, <1>21, <1>22, <1>23, <1>24, <1>25,
      <1>26, <1>27

-----------------------------------------------------------------------------
(* The handlers of one pane.                                               *)

PaneOnly(p) == ui' = View(ui.tab, p, ui.panel, ui.home)

PaneFits(p) ==
    \/ ui.tab = "queue" /\ QueueShape(p)
    \/ ui.tab = "persona" /\ PersonaShape(p)
    \/ ui.tab = "sharing" /\ SharingShape(p)
    \/ ui.tab = "sources" /\ SourcesShape(p)
    \/ ui.tab = "unlock" /\ UnlockShape(p)

\* What a step leaves alone: calls on other resources, what is stored, and the tab.
Frame(rs) ==
    /\ \A r : r \notin rs => On(inFlight', r) = On(inFlight, r)
    /\ seen.overlapped \subseteq seen'.overlapped
    /\ seen.shown \subseteq seen'.shown /\ (seen.left => seen'.left)
    /\ vault' = vault /\ spent'.faults = spent.faults
    /\ ui'.tab = ui.tab
    /\ OneSave(inFlight) => OneSave(inFlight')

\* A handler of the pane of a tab.
PaneStep(tab, rs) ==
    /\ Shape' /\ AtMostOne' /\ Frame(rs)
    /\ ui.tab = tab /\ ui'.panel = ui.panel /\ ui'.home = ui.home

\* The commands a handler of a pane sends.
FromPane(c) ==
    /\ c.for \in Awaiters(c.cmd) /\ c.for \in {"pane", "home", "app", "nobody"}
    /\ c.for = "pane" => ui.tab = PaneOfCmd(c.cmd)
    /\ c.for = "home" => ui.tab \in SettingsTabs
    /\ c.for = "nobody" => c.state = "sent" /\ c.cmd \notin Reads
    /\ c.cmd \notin {"get_fact", "set_fact_sharing"}

LEMMA PaneTurn ==
    ASSUME Shape, NEW new, NEW out, Turn({}, new, out), NEW p, PaneOnly(p), PaneFits(p),
           \A c \in new : FromPane(c), NEW rs, \A c \in new \cup out : Touches(c) \subseteq rs
    PROVE  PaneStep(ui.tab, rs)
<1>1. ui'.tab = ui.tab /\ ui'.pane = p /\ ui'.panel = ui.panel /\ ui'.home = ui.home
      /\ ui' = View(ui'.tab, ui'.pane, ui'.panel, ui'.home)
  BY DEF PaneOnly, View
<1>2. UiShape /\ ui.tab # "dashboard"
  BY DEF Shape, PaneFits
<1>3. ui.panel.view # "control"
  <2>1. NoView.view = "none"
    BY DEF NoView
  <2> QED BY <1>2, <2>1 DEF UiShape
<1>4. UiShape'
  BY <1>1, <1>2 DEF UiShape, PaneFits, InSettings, SettingsTabs
<1>5. MountsStay({}, ui, ui')
  BY <1>1, <1>2, <1>3 DEF MountsStay
<1>6. \A c \in new : Routed(c, ui')
  BY <1>1 DEF Routed, Named, FromPane
<1>7. Shape' /\ AtMostOne'
  BY <1>4, <1>5, <1>6, TurnShape
<1>8. \A r : r \notin rs => On(inFlight', r) = On(inFlight, r)
  <2> SUFFICES ASSUME NEW r, r \notin rs PROVE On(inFlight', r) = On(inFlight, r)
    OBVIOUS
  <2> QED BY Untouched
<1>9. Frame(rs)
  <2>1. \A c \in new : ~Saving(c)
    BY DEF FromPane, Saving
  <2> QED BY <1>1, <1>8, <2>1 DEF Frame, Turn, Traffic, Watched, SavesKept
<1> QED BY <1>1, <1>7, <1>9 DEF PaneStep

\* The same, for a handler that sends nothing or one command, and a click or an answer.
LEMMA PaneQuiet ==
    ASSUME Shape, Turn({}, {}, {}), NEW p, PaneOnly(p), PaneFits(p), NEW rs
    PROVE  PaneStep(ui.tab, rs)
<1>1. \A c \in {} : FromPane(c) /\ Touches(c) \subseteq rs
  OBVIOUS
<1> QED BY <1>1, PaneTurn

LEMMA PaneSends ==
    ASSUME Shape, NEW c, Turn({}, {c}, {}), NEW p, PaneOnly(p), PaneFits(p), FromPane(c),
           NEW rs, Touches(c) \subseteq rs
    PROVE  PaneStep(ui.tab, rs)
<1>1. \A x \in {c} : FromPane(x)
  OBVIOUS
<1>2. \A x \in {c} \cup {} : Touches(x) \subseteq rs
  OBVIOUS
<1> QED BY <1>1, <1>2, PaneTurn

LEMMA PaneTakes ==
    ASSUME Shape, NEW d, Turn({}, {}, {d}), NEW p, PaneOnly(p), PaneFits(p),
           NEW rs, Touches(d) \subseteq rs
    PROVE  PaneStep(ui.tab, rs)
<1>1. \A x \in {} : FromPane(x)
  OBVIOUS
<1>2. \A x \in {} \cup {d} : Touches(x) \subseteq rs
  OBVIOUS
<1> QED BY <1>1, <1>2, PaneTurn

LEMMA PaneReplies ==
    ASSUME Shape, NEW c, NEW d, Turn({}, {c}, {d}), NEW p, PaneOnly(p), PaneFits(p), FromPane(c),
           NEW rs, Touches(c) \subseteq rs, Touches(d) \subseteq rs
    PROVE  PaneStep(ui.tab, rs)
<1>1. \A x \in {c} : FromPane(x)
  OBVIOUS
<1>2. \A x \in {c} \cup {d} : Touches(x) \subseteq rs
  OBVIOUS
<1> QED BY <1>1, <1>2, PaneTurn

\* The queue.
QueueRead == Cmd("queue_list", Null, "pane")

LEMMA RefreshQueueTurn ==
    ASSUME Shape, AtMostOne, RefreshQueue
    PROVE  /\ ui.tab = "queue" /\ Turn({}, {QueueRead}, {})
           /\ PaneOnly(QueuePane(Loading, ui.pane.busyId, ui.pane.error))
<1>1. ui.tab = "queue" /\ Clicked([ui EXCEPT !.pane.items = Loading], {}, <<QueueRead>>)
  BY DEF RefreshQueue, Asked, QueueRead
<1>2. Turn({}, {QueueRead}, {}) /\ ui' = [ui EXCEPT !.pane.items = Loading]
  BY <1>1, ClickOne DEF QueueRead
<1>3. PICK tab, panel, home, items, busyId, error :
         ui = View(tab, QueuePane(items, busyId, error), panel, home)
  BY <1>1, QueueUi
<1> QED BY <1>1, <1>2, <1>3 DEF PaneOnly, View, QueuePane

LEMMA QueueListedTurn ==
    ASSUME Shape, AtMostOne, NEW i, QueueListed(i)
    PROVE  /\ i \in DOMAIN inFlight /\ inFlight[i].cmd = "queue_list" /\ ui.tab = "queue"
           /\ Turn({}, {}, {inFlight[i]})
           /\ PaneOnly(QueuePane(Fetched(i), ui.pane.busyId, ui.pane.error))
<1>1. /\ i \in DOMAIN inFlight /\ inFlight[i].cmd = "queue_list"
      /\ Answered(i, [ui EXCEPT !.pane.items = Fetched(i)], {}, <<>>)
  BY DEF QueueListed, Answers
<1>2. Turn({}, {}, {inFlight[i]}) /\ ui' = [ui EXCEPT !.pane.items = Fetched(i)]
  BY <1>1, AnswerNone
<1>3. ui.tab = "queue"
  BY <1>1, CallFacts, RoutedFacts
<1>4. PICK tab, panel, home, items, busyId, error :
         ui = View(tab, QueuePane(items, busyId, error), panel, home)
  BY <1>3, QueueUi
<1> QED BY <1>1, <1>2, <1>3, <1>4 DEF PaneOnly, View, QueuePane

LEMMA AnswerQuestionTurn ==
    ASSUME Shape, AtMostOne, NEW q, NEW input, AnswerQuestion(q, input)
    PROVE  /\ ui.tab = "queue"
           /\ Turn({}, {Cmd("queue_answer", [id |-> q, input |-> input], "pane")}, {})
           /\ PaneOnly(QueuePane(ui.pane.items, q, FALSE))
<1>1. /\ ui.tab = "queue"
      /\ Clicked([ui EXCEPT !.pane.busyId = q, !.pane.error = FALSE], {},
                 <<Cmd("queue_answer", [id |-> q, input |-> input], "pane")>>)
  BY DEF AnswerQuestion
<1>2. /\ Turn({}, {Cmd("queue_answer", [id |-> q, input |-> input], "pane")}, {})
      /\ ui' = [ui EXCEPT !.pane.busyId = q, !.pane.error = FALSE]
  BY <1>1, ClickOne
<1>3. PICK tab, panel, home, items, busyId, error :
         ui = View(tab, QueuePane(items, busyId, error), panel, home)
  BY <1>1, QueueUi
<1> QED BY <1>1, <1>2, <1>3 DEF PaneOnly, View, QueuePane

\* Its answer, while the queue is still shown.
LEMMA QuestionAnsweredTurn ==
    ASSUME Shape, AtMostOne, NEW i, QuestionAnswered(i), inFlight[i].for = "pane"
    PROVE  /\ i \in DOMAIN inFlight /\ inFlight[i].cmd = "queue_answer" /\ ui.tab = "queue"
           /\ \/ /\ Turn({}, {QueueRead}, {inFlight[i]})
                 /\ PaneOnly(QueuePane(Loading, Null, ui.pane.error))
              \/ /\ inFlight[i].state = "failed" /\ Turn({}, {}, {inFlight[i]})
                 /\ PaneOnly(QueuePane(ui.pane.items, Null, TRUE))
<1>1. i \in DOMAIN inFlight /\ inFlight[i].cmd = "queue_answer" /\ inFlight[i].state # "sent"
  BY DEF QuestionAnswered, Answers
<1>2. ui.tab = "queue" /\ (~Done(i) => inFlight[i].state = "failed")
  BY <1>1, CallFacts, RoutedFacts DEF CallShape, Done
<1>3. CASE Answered(i, [ui EXCEPT !.pane.busyId = Null, !.pane.items = Loading], {}, Asked("queue"))
  <2>1. Answered(i, [ui EXCEPT !.pane.busyId = Null, !.pane.items = Loading], {}, <<QueueRead>>)
    BY <1>3 DEF Asked, QueueRead
  <2>2. /\ Turn({}, {QueueRead}, {inFlight[i]})
        /\ ui' = [ui EXCEPT !.pane.busyId = Null, !.pane.items = Loading]
    BY <1>1, <2>1, AnswerOne DEF QueueRead
  <2>3. PICK tab, panel, home, items, busyId, error :
           ui = View(tab, QueuePane(items, busyId, error), panel, home)
    BY <1>2, QueueUi
  <2> QED BY <1>1, <1>2, <2>2, <2>3 DEF PaneOnly, View, QueuePane
<1>4. CASE ~Done(i) /\ Answered(i, [ui EXCEPT !.pane.busyId = Null, !.pane.error = TRUE], {}, <<>>)
  <2>1. /\ Turn({}, {}, {inFlight[i]})
        /\ ui' = [ui EXCEPT !.pane.busyId = Null, !.pane.error = TRUE]
    BY <1>1, <1>4, AnswerNone
  <2>2. PICK tab, panel, home, items, busyId, error :
           ui = View(tab, QueuePane(items, busyId, error), panel, home)
    BY <1>2, QueueUi
  <2> QED BY <1>1, <1>2, <1>4, <2>1, <2>2 DEF PaneOnly, View, QueuePane
<1> QED BY <1>3, <1>4 DEF QuestionAnswered

QueueStep ==
    \/ RefreshQueue
    \/ \E q \in Questions, input \in {"yes", "no", "skip"} : AnswerQuestion(q, input)
    \/ \E i \in DOMAIN inFlight : \/ QueueListed(i)
                                  \/ QuestionAnswered(i) /\ inFlight[i].for = "pane"

LEMMA QueueFrame ==
    ASSUME Shape, AtMostOne, QueueStep
    PROVE  PaneStep("queue", {"queue"})
<1>1. /\ QueueRead.cmd = "queue_list" /\ QueueRead.for = "pane"
      /\ Touches(QueueRead) = {"queue"}
  BY CmdFacts, TouchesFacts DEF QueueRead
<1>2. ui.tab = "queue" => FromPane(QueueRead)
  BY <1>1 DEF FromPane, Awaiters, PaneOfCmd, SharesCmds
<1>3. CASE RefreshQueue
  <2>1. PaneFits(QueuePane(Loading, ui.pane.busyId, ui.pane.error))
    BY <1>3, RefreshQueueTurn DEF PaneFits, QueueShape, QueuePane
  <2> QED BY <1>1, <1>2, <1>3, <2>1, RefreshQueueTurn, PaneSends
<1>4. ASSUME NEW q, NEW input, AnswerQuestion(q, input) PROVE PaneStep("queue", {"queue"})
  <2>1. PICK c : c = Cmd("queue_answer", [id |-> q, input |-> input], "pane")
    OBVIOUS
  <2>2. c.cmd = "queue_answer" /\ c.for = "pane" /\ Touches(c) = {"queue"}
    BY <2>1, CmdFacts, TouchesFacts
  <2>3. ui.tab = "queue" /\ Turn({}, {c}, {}) /\ PaneOnly(QueuePane(ui.pane.items, q, FALSE))
    BY <1>4, <2>1, AnswerQuestionTurn
  <2>4. FromPane(c)
    BY <2>2, <2>3 DEF FromPane, Awaiters, PaneOfCmd, SharesCmds
  <2>5. PaneFits(QueuePane(ui.pane.items, q, FALSE))
    BY <2>3 DEF PaneFits, QueueShape, QueuePane
  <2> QED BY <2>2, <2>3, <2>4, <2>5, PaneSends
<1>5. ASSUME NEW i \in DOMAIN inFlight, QueueListed(i) PROVE PaneStep("queue", {"queue"})
  <2>1. PaneFits(QueuePane(Fetched(i), ui.pane.busyId, ui.pane.error))
    BY <1>5, QueueListedTurn DEF PaneFits, QueueShape, QueuePane
  <2>2. Touches(inFlight[i]) = {"queue"}
    BY <1>5, QueueListedTurn, TouchesFacts
  <2> QED BY <1>5, <2>1, <2>2, QueueListedTurn, PaneTakes
<1>6. ASSUME NEW i \in DOMAIN inFlight, QuestionAnswered(i), inFlight[i].for = "pane"
      PROVE  PaneStep("queue", {"queue"})
  <2>1. Touches(inFlight[i]) = {"queue"} /\ ui.tab = "queue"
    BY <1>6, QuestionAnsweredTurn, TouchesFacts
  <2>2. \A items, e : PaneFits(QueuePane(items, Null, e))
    BY <2>1 DEF PaneFits, QueueShape, QueuePane
  <2>3. CASE Turn({}, {QueueRead}, {inFlight[i]})
             /\ PaneOnly(QueuePane(Loading, Null, ui.pane.error))
    BY <1>1, <1>2, <2>1, <2>2, <2>3, PaneReplies
  <2>4. CASE Turn({}, {}, {inFlight[i]}) /\ PaneOnly(QueuePane(ui.pane.items, Null, TRUE))
    BY <2>1, <2>2, <2>4, PaneTakes
  <2> QED BY <1>6, <2>3, <2>4, QuestionAnsweredTurn
<1> QED BY <1>3, <1>4, <1>5, <1>6 DEF QueueStep

LEMMA StateFacts ==
    /\ ~Shows(Loading) /\ ~Shows(Failed)
    /\ \A data : Shows(Ready(data)) /\ Ready(data).data = data
    /\ \A data : Ready(data) # Failed
<1> QED BY DEF Shows, Loading, Failed, Ready

LEMMA FetchedFacts ==
    ASSUME NEW i
    PROVE  /\ Shows(Fetched(i)) <=> inFlight[i].state = "done"
           /\ Shows(Fetched(i)) => Fetched(i).data = inFlight[i].answer
<1> QED BY StateFacts DEF Fetched, Done

LEMMA QueueOwn ==
    ASSUME Shape, AtMostOne, QueueInv, QueueStep
    PROVE  QueueInv'
<1>1. SUFFICES ASSUME Alone("queue")' PROVE QueueInv'
  BY DEF QueueInv
<1>2. "queue" \notin seen'.overlapped /\ Alone("queue")
  <2>1. PaneStep("queue", {"queue"})
    BY QueueFrame
  <2> QED BY <1>1, <2>1 DEF PaneStep, Frame, Alone
<1>3. /\ QueueRead.cmd = "queue_list" /\ QueueRead.for = "pane" /\ QueueRead.state = "sent"
      /\ "queue" \in Touches(QueueRead)
  BY CmdFacts, TouchesFacts DEF QueueRead
<1>4. CASE RefreshQueue
  <2>1. ui.tab = "queue" /\ On(inFlight', "queue") = {QueueRead}
    BY <1>2, <1>3, <1>4, RefreshQueueTurn, TouchedNew
  <2>2. ui'.tab = "queue" /\ ui'.pane.items = Loading /\ vault' = vault
    BY <1>4, RefreshQueueTurn DEF PaneOnly, View, QueuePane, Turn
  <2> QED BY <1>3, <2>1, <2>2, StateFacts DEF QueueInv
<1>5. ASSUME NEW q, NEW input, AnswerQuestion(q, input) PROVE QueueInv'
  <2>1. PICK c : c = Cmd("queue_answer", [id |-> q, input |-> input], "pane")
    OBVIOUS
  <2>2. c.cmd = "queue_answer" /\ c.for = "pane" /\ c.state = "sent" /\ "queue" \in Touches(c)
    BY <2>1, CmdFacts, TouchesFacts
  <2>3. ui.tab = "queue" /\ Turn({}, {c}, {}) /\ PaneOnly(QueuePane(ui.pane.items, q, FALSE))
    BY <1>5, <2>1, AnswerQuestionTurn
  <2>4. On(inFlight', "queue") = {c}
    BY <1>2, <2>2, <2>3, TouchedNew
  <2> QED BY <2>2, <2>4 DEF QueueInv
<1>6. ASSUME NEW i \in DOMAIN inFlight, QueueListed(i) PROVE QueueInv'
  <2>1. inFlight[i].cmd = "queue_list" /\ ui.tab = "queue" /\ Turn({}, {}, {inFlight[i]})
    BY <1>6, QueueListedTurn
  <2>2. inFlight[i] \in On(inFlight, "queue") /\ "queue" \in Touches(inFlight[i])
    BY <2>1, TouchesFacts, CallFacts DEF On
  <2>3. On(inFlight', "queue") = {}
    BY <1>2, <2>1, <2>2, TouchedNew
  <2>4. ui'.tab = "queue" /\ ui'.pane.items = Fetched(i) /\ vault' = vault
    BY <1>6, <2>1, QueueListedTurn DEF PaneOnly, View, QueuePane, Turn
  <2>5. Shows(Fetched(i)) => Fetched(i).data \subseteq vault.pending
    BY <1>2, <2>1, <2>2, FetchedFacts DEF QueueInv
  <2> QED BY <2>3, <2>4, <2>5 DEF QueueInv
<1>7. ASSUME NEW i \in DOMAIN inFlight, QuestionAnswered(i), inFlight[i].for = "pane"
      PROVE  QueueInv'
  <2>1. inFlight[i].cmd = "queue_answer" /\ ui.tab = "queue"
    BY <1>7, QuestionAnsweredTurn
  <2>2. "queue" \in Touches(inFlight[i])
    BY <2>1, TouchesFacts
  <2>3. CASE Turn({}, {QueueRead}, {inFlight[i]})
             /\ PaneOnly(QueuePane(Loading, Null, ui.pane.error))
    <3>1. On(inFlight', "queue") = {QueueRead}
      BY <1>2, <1>3, <2>2, <2>3, TouchedNew
    <3>2. ui'.tab = "queue" /\ ui'.pane.items = Loading /\ vault' = vault
      BY <2>1, <2>3 DEF PaneOnly, View, QueuePane, Turn
    <3> QED BY <1>3, <3>1, <3>2, StateFacts DEF QueueInv
  <2>4. CASE Turn({}, {}, {inFlight[i]}) /\ PaneOnly(QueuePane(ui.pane.items, Null, TRUE))
    <3>1. On(inFlight', "queue") = {}
      BY <1>2, <2>2, <2>4, TouchedNew
    <3>2. ui'.tab = "queue" /\ ui'.pane.error = TRUE
      BY <2>1, <2>4 DEF PaneOnly, View, QueuePane
    <3> QED BY <3>1, <3>2 DEF QueueInv
  <2> QED BY <1>7, <2>3, <2>4, QuestionAnsweredTurn
<1> QED BY <1>4, <1>5, <1>6, <1>7 DEF QueueStep

-----------------------------------------------------------------------------
(* The sharing tab.                                                        *)

SharesReread == Cmd("share_status", "refresh", "pane")
SharesClicks == {"set_sharing_enabled", "issue_share_token", "revoke_share_token", "share_tunnel"}

SharingStep ==
    \/ SwitchSharing \/ FillIn \/ IssueToken \/ ToggleTunnel
    \/ \E t \in Secrets : RevokeToken(t)
    \/ \E i \in DOMAIN inFlight : SharesRead(i) \/ SharesChanged(i) \/ TokenIssued(i)

\* What the handlers of the tab do.
SharesSent(p) ==
    \E c : /\ CallShape(c) /\ c.cmd \in SharesClicks /\ c.for = "pane" /\ c.state = "sent"
           /\ Turn({}, {c}, {})
SharesTyped(p) ==
    /\ p.status = ui.pane.status /\ p.error = ui.pane.error
    /\ Turn({}, {}, {})
SharesShown(p, i) ==
    /\ inFlight[i].cmd = "share_status" /\ inFlight[i].state # "sent"
    /\ Turn({}, {}, {inFlight[i]})
    /\ IF Done(i) THEN p.status = Ready(inFlight[i].answer) ELSE p.error = TRUE
SharesTold(p, i) ==
    /\ inFlight[i].cmd \in SharesClicks /\ inFlight[i].state # "sent"
    /\ \/ /\ Done(i) /\ Turn({}, {SharesReread}, {inFlight[i]})
          /\ inFlight[i].cmd = "issue_share_token" => p.issued = inFlight[i].answer
       \/ ~Done(i) /\ p.error = TRUE /\ Turn({}, {}, {inFlight[i]})
SharingMove(p) ==
    /\ ui.tab = "sharing" /\ PaneOnly(p) /\ SharingShape(p)
    /\ \/ SharesSent(p) \/ SharesTyped(p)
       \/ \E i \in DOMAIN inFlight : SharesShown(p, i) \/ SharesTold(p, i)

LEMMA SharingClickMove ==
    ASSUME Shape, AtMostOne,
           SwitchSharing \/ IssueToken \/ ToggleTunnel \/ \E t \in Secrets : RevokeToken(t)
    PROVE  \E p : SharingMove(p)
<1>1. PICK issued, cmd, arg :
         /\ ui.tab = "sharing" /\ cmd \in SharesClicks
         /\ \/ issued = ui.pane.issued /\ Clicked(Shares(Busied), {}, <<Cmd(cmd, arg, "pane")>>)
            \/ issued = Null
               /\ Clicked(Shares([Busied EXCEPT !.issued = Null]), {}, <<Cmd(cmd, arg, "pane")>>)
  <2>1. CASE SwitchSharing
    BY <2>1 DEF SwitchSharing, OnSharing, SharesClicks
  <2>2. CASE IssueToken
    BY <2>2 DEF IssueToken, SharesIdle, Enabled, OnSharing, SharesClicks
  <2>3. CASE ToggleTunnel
    BY <2>3 DEF ToggleTunnel, SharesIdle, Enabled, OnSharing, SharesClicks
  <2>4. CASE \E t \in Secrets : RevokeToken(t)
    BY <2>4 DEF RevokeToken, SharesIdle, Enabled, OnSharing, SharesClicks
  <2> QED BY <2>1, <2>2, <2>3, <2>4
<1>2. PICK tab, panel, home, status, loading, busy, error, picked, old :
         ui = View(tab, SharingPane(status, loading, busy, error, picked, old), panel, home)
  BY <1>1, SharingUi
<1>3. PICK c : c = Cmd(cmd, arg, "pane")
  OBVIOUS
<1>4. CallShape(c) /\ c.cmd = cmd /\ c.for = "pane" /\ c.state = "sent"
  BY <1>3, CmdFacts
<1>5. Turn({}, {c}, {})
      /\ (ui' = Shares(Busied) \/ ui' = Shares([Busied EXCEPT !.issued = Null]))
  BY <1>1, <1>3, ClickOne
<1>6. PICK p : p = SharingPane(status, loading, TRUE, FALSE, picked, issued)
  OBVIOUS
<1>7. SharingShape(p)
  BY <1>6 DEF SharingShape, SharingPane
<1>8. PaneOnly(p)
  <2>1. CASE issued = ui.pane.issued /\ Clicked(Shares(Busied), {}, <<Cmd(cmd, arg, "pane")>>)
    <3>1. ui' = Shares(Busied)
      BY <2>1, ClickOne
    <3> QED BY <1>2, <1>6, <2>1, <3>1 DEF PaneOnly, View, SharingPane, Shares, Busied
  <2>2. CASE issued = Null
             /\ Clicked(Shares([Busied EXCEPT !.issued = Null]), {}, <<Cmd(cmd, arg, "pane")>>)
    <3>1. ui' = Shares([Busied EXCEPT !.issued = Null])
      BY <2>2, ClickOne
    <3> QED BY <1>2, <1>6, <2>2, <3>1 DEF PaneOnly, View, SharingPane, Shares, Busied
  <2> QED BY <1>1, <2>1, <2>2
<1> QED BY <1>1, <1>4, <1>5, <1>7, <1>8 DEF SharingMove, SharesSent

LEMMA FillInMove ==
    ASSUME Shape, AtMostOne, FillIn
    PROVE  \E p : SharingMove(p)
<1>1. /\ ui.tab = "sharing"
      /\ Clicked(Shares([ui.pane EXCEPT !.picked = TRUE, !.issued = Null]), {}, <<>>)
  BY DEF FillIn, Enabled, OnSharing
<1>2. PICK tab, panel, home, status, loading, busy, error, picked, issued :
         ui = View(tab, SharingPane(status, loading, busy, error, picked, issued), panel, home)
  BY <1>1, SharingUi
<1>3. Turn({}, {}, {}) /\ ui' = Shares([ui.pane EXCEPT !.picked = TRUE, !.issued = Null])
  BY <1>1, ClickNone
<1>4. PICK p : p = SharingPane(status, loading, busy, error, TRUE, Null)
  OBVIOUS
<1>5. /\ SharingShape(p) /\ PaneOnly(p) /\ p.status = ui.pane.status /\ p.error = ui.pane.error
  BY <1>2, <1>3, <1>4 DEF SharingShape, PaneOnly, View, SharingPane, Shares
<1> QED BY <1>1, <1>3, <1>5 DEF SharingMove, SharesTyped

LEMMA SharesReadMove ==
    ASSUME Shape, AtMostOne, NEW i, SharesRead(i)
    PROVE  \E p : SharingMove(p)
<1>1. i \in DOMAIN inFlight /\ inFlight[i].cmd = "share_status" /\ inFlight[i].state # "sent"
  BY DEF SharesRead, Answers
<1>2. ui.tab = "sharing"
  BY <1>1, CallFacts, RoutedFacts
<1>3. PICK tab, panel, home, status, loading, busy, error, picked, issued :
         ui = View(tab, SharingPane(status, loading, busy, error, picked, issued), panel, home)
  BY <1>2, SharingUi
<1>4. PICK l, b, st, e :
         /\ Answered(i, Shares(SharingPane(st, l, b, e, picked, issued)), {}, <<>>)
         /\ IF Done(i) THEN st = Ready(inFlight[i].answer) ELSE e = TRUE
  <2>1. PICK pane : /\ pane = IF inFlight[i].arg = "mount" THEN [ui.pane EXCEPT !.loading = FALSE]
                              ELSE [ui.pane EXCEPT !.busy = FALSE]
                    /\ Answered(i, Shares(IF Done(i)
                                  THEN [pane EXCEPT !.status = Ready(inFlight[i].answer)]
                                  ELSE [pane EXCEPT !.error = TRUE]), {}, <<>>)
    BY DEF SharesRead
  <2>2. PICK l, b : pane = SharingPane(status, l, b, error, picked, issued)
    <3>1. CASE inFlight[i].arg = "mount"
      <4>1. pane = SharingPane(status, FALSE, busy, error, picked, issued)
        BY <1>3, <2>1, <3>1 DEF View, SharingPane
      <4> QED BY <4>1
    <3>2. CASE inFlight[i].arg # "mount"
      <4>1. pane = SharingPane(status, loading, FALSE, error, picked, issued)
        BY <1>3, <2>1, <3>2 DEF View, SharingPane
      <4> QED BY <4>1
    <3> QED BY <3>1, <3>2
  <2>3. CASE Done(i)
    <3>1. [pane EXCEPT !.status = Ready(inFlight[i].answer)]
             = SharingPane(Ready(inFlight[i].answer), l, b, error, picked, issued)
      BY <2>2 DEF SharingPane
    <3> QED BY <2>1, <2>3, <3>1
  <2>4. CASE ~Done(i)
    <3>1. PICK yes : yes = TRUE
      OBVIOUS
    <3>2. [pane EXCEPT !.error = yes] = SharingPane(status, l, b, yes, picked, issued)
      BY <2>2 DEF SharingPane
    <3>3. Answered(i, Shares([pane EXCEPT !.error = yes]), {}, <<>>)
      BY <2>1, <2>4, <3>1
    <3> QED BY <2>4, <3>1, <3>2, <3>3
  <2> QED BY <2>3, <2>4
<1>5. PICK p : p = SharingPane(st, l, b, e, picked, issued)
  OBVIOUS
<1>6. Turn({}, {}, {inFlight[i]}) /\ ui' = Shares(p)
  BY <1>1, <1>4, <1>5, AnswerNone
<1>7. SharingShape(p) /\ PaneOnly(p) /\ p.status = st /\ p.error = e
  BY <1>3, <1>5, <1>6 DEF SharingShape, PaneOnly, View, SharingPane, Shares
<1> QED BY <1>1, <1>2, <1>4, <1>6, <1>7 DEF SharingMove, SharesShown

LEMMA SharesFailedMove ==
    ASSUME Shape, AtMostOne, NEW i \in DOMAIN inFlight, inFlight[i].cmd \in SharesClicks,
           inFlight[i].state # "sent", ~Done(i), SharesFailed(i)
    PROVE  \E p : SharingMove(p)
<1>1. ui.tab = "sharing"
  BY CallFacts, RoutedFacts DEF SharesClicks, SharesCmds
<1>2. PICK tab, panel, home, status, loading, busy, error, picked, issued :
         ui = View(tab, SharingPane(status, loading, busy, error, picked, issued), panel, home)
  BY <1>1, SharingUi
<1>3. PICK p : p = SharingPane(status, loading, FALSE, TRUE, picked, issued)
  OBVIOUS
<1>4. /\ Turn({}, {}, {inFlight[i]})
      /\ ui' = Shares([ui.pane EXCEPT !.busy = FALSE, !.error = TRUE])
  BY AnswerNone DEF SharesFailed
<1>5. SharingShape(p) /\ PaneOnly(p) /\ p.error = TRUE
  BY <1>2, <1>3, <1>4 DEF SharingShape, PaneOnly, View, SharingPane, Shares
<1> QED BY <1>1, <1>4, <1>5 DEF SharingMove, SharesTold

LEMMA SharesChangedMove ==
    ASSUME Shape, AtMostOne, NEW i, SharesChanged(i)
    PROVE  \E p : SharingMove(p)
<1>1. /\ i \in DOMAIN inFlight /\ inFlight[i].cmd \in SharesClicks /\ inFlight[i].state # "sent"
      /\ inFlight[i].cmd # "issue_share_token"
      /\ IF Done(i) THEN Answered(i, ui, {}, SharesRefresh) ELSE SharesFailed(i)
  BY DEF SharesChanged, Answers, SharesClicks
<1>2. CASE Done(i)
  <2>1. Turn({}, {SharesReread}, {inFlight[i]}) /\ ui' = ui
    BY <1>1, <1>2, AnswerOne DEF SharesRefresh, SharesReread
  <2>2. ui.tab = "sharing"
    BY <1>1, CallFacts, RoutedFacts DEF SharesClicks, SharesCmds
  <2>3. SharingShape(ui.pane) /\ PaneOnly(ui.pane)
    BY <2>1, <2>2 DEF Shape, UiShape, PaneOnly
  <2> QED BY <1>1, <1>2, <2>1, <2>2, <2>3 DEF SharingMove, SharesTold
<1>3. CASE ~Done(i)
  BY <1>1, <1>3, SharesFailedMove
<1> QED BY <1>2, <1>3

LEMMA TokenIssuedMove ==
    ASSUME Shape, AtMostOne, NEW i, TokenIssued(i)
    PROVE  \E p : SharingMove(p)
<1>1. i \in DOMAIN inFlight /\ inFlight[i].cmd \in SharesClicks /\ inFlight[i].state # "sent"
  BY DEF TokenIssued, Answers, SharesClicks
<1>2. CASE Done(i)
  <2>1. ui.tab = "sharing"
    BY <1>1, CallFacts, RoutedFacts DEF SharesClicks, SharesCmds
  <2>2. PICK tab, panel, home, status, loading, busy, error, picked, issued :
           ui = View(tab, SharingPane(status, loading, busy, error, picked, issued), panel, home)
    BY <2>1, SharingUi
  <2>3. PICK p : p = SharingPane(status, loading, busy, error, FALSE, inFlight[i].answer)
    OBVIOUS
  <2>4. /\ Turn({}, {SharesReread}, {inFlight[i]})
        /\ ui' = Shares([ui.pane EXCEPT !.issued = inFlight[i].answer, !.picked = FALSE])
    BY <1>1, <1>2, AnswerOne DEF SharesRefresh, SharesReread, TokenIssued
  <2>5. SharingShape(p) /\ PaneOnly(p) /\ p.issued = inFlight[i].answer
    BY <2>2, <2>3, <2>4 DEF SharingShape, PaneOnly, View, SharingPane, Shares
  <2> QED BY <1>1, <1>2, <2>1, <2>4, <2>5 DEF SharingMove, SharesTold
<1>3. CASE ~Done(i)
  BY <1>1, <1>3, SharesFailedMove DEF TokenIssued
<1> QED BY <1>2, <1>3

LEMMA SharingMoves ==
    ASSUME Shape, AtMostOne, SharingStep
    PROVE  \E p : SharingMove(p)
<1> QED BY SharingClickMove, FillInMove, SharesReadMove, SharesChangedMove, TokenIssuedMove
        DEF SharingStep

LEMMA SharingFrame ==
    ASSUME Shape, AtMostOne, SharingStep
    PROVE  PaneStep("sharing", {"shares"})
<1>1. PICK p : SharingMove(p)
  BY SharingMoves
<1>2. ui.tab = "sharing" /\ PaneOnly(p) /\ PaneFits(p)
  BY <1>1 DEF SharingMove, PaneFits
<1>3. SharesClicks \subseteq SharesCmds /\ "share_status" \in SharesCmds
  BY DEF SharesClicks, SharesCmds
<1>4. \A c : c.cmd \in SharesCmds => Touches(c) \subseteq {"shares"}
  BY TouchesFacts
<1>5. CASE SharesSent(p)
  <2>1. PICK c : /\ c.cmd \in SharesClicks /\ c.for = "pane" /\ c.state = "sent"
                 /\ Turn({}, {c}, {})
    BY <1>5 DEF SharesSent
  <2>2. FromPane(c)
    BY <1>2, <2>1 DEF FromPane, Awaiters, PaneOfCmd, SharesCmds, SharesClicks
  <2> QED BY <1>2, <1>3, <1>4, <2>1, <2>2, PaneSends
<1>6. CASE SharesTyped(p)
  BY <1>2, <1>6, PaneQuiet DEF SharesTyped
<1>7. ASSUME NEW i \in DOMAIN inFlight, SharesShown(p, i)
      PROVE  PaneStep("sharing", {"shares"})
  BY <1>2, <1>3, <1>4, <1>7, PaneTakes DEF SharesShown
<1>8. ASSUME NEW i \in DOMAIN inFlight, SharesTold(p, i)
      PROVE  PaneStep("sharing", {"shares"})
  <2>1. SharesReread.cmd = "share_status" /\ SharesReread.for = "pane"
    BY CmdFacts DEF SharesReread
  <2>2. FromPane(SharesReread)
    BY <1>2, <2>1 DEF FromPane, Awaiters, PaneOfCmd, SharesCmds
  <2>3. Touches(SharesReread) \subseteq {"shares"} /\ Touches(inFlight[i]) \subseteq {"shares"}
    BY <1>3, <1>4, <1>8, <2>1 DEF SharesTold
  <2>4. CASE Turn({}, {SharesReread}, {inFlight[i]})
    BY <1>2, <2>2, <2>3, <2>4, PaneReplies
  <2>5. CASE Turn({}, {}, {inFlight[i]})
    BY <1>2, <2>3, <2>5, PaneTakes
  <2> QED BY <1>8, <2>4, <2>5 DEF SharesTold
<1> QED BY <1>1, <1>5, <1>6, <1>7, <1>8 DEF SharingMove

LEMMA SharesOwn ==
    ASSUME Shape, AtMostOne, SharesInv, SharingStep
    PROVE  SharesInv'
<1>1. SUFFICES ASSUME Alone("shares")' PROVE SharesInv'
  BY DEF SharesInv
<1>2. "shares" \notin seen'.overlapped /\ Alone("shares") /\ vault' = vault
  BY <1>1, SharingFrame DEF PaneStep, Frame, Alone
<1>3. PICK p : SharingMove(p)
  BY SharingMoves
<1>4. ui.tab = "sharing" /\ ui'.tab = "sharing" /\ ui'.pane = p
  BY <1>3 DEF SharingMove, PaneOnly, View
<1>5. SharesClicks \subseteq SharesCmds /\ "share_status" \in SharesCmds \ SharesClicks
  BY DEF SharesClicks, SharesCmds
<1>6. \A c : c.cmd \in SharesCmds => "shares" \in Touches(c)
  BY TouchesFacts
<1>7. CASE SharesSent(p)
  <2>1. PICK c : /\ c.cmd \in SharesClicks /\ c.for = "pane" /\ c.state = "sent"
                 /\ Turn({}, {c}, {})
    BY <1>7 DEF SharesSent
  <2>2. On(inFlight', "shares") = {c}
    BY <1>2, <1>5, <1>6, <2>1, TouchedNew
  <2> QED BY <2>1, <2>2 DEF SharesInv
<1>8. CASE SharesTyped(p)
  <2>1. On(inFlight', "shares") = On(inFlight, "shares")
    BY <1>8, Untouched DEF SharesTyped
  <2> QED BY <1>2, <1>4, <1>8, <2>1 DEF SharesInv, SharesTyped
<1>9. ASSUME NEW i \in DOMAIN inFlight, SharesShown(p, i) PROVE SharesInv'
  <2>1. inFlight[i].cmd = "share_status" /\ Turn({}, {}, {inFlight[i]})
    BY <1>9 DEF SharesShown
  <2>2. "shares" \in Touches(inFlight[i]) /\ inFlight[i] \in On(inFlight, "shares")
    BY <1>5, <1>6, <2>1, CallFacts DEF On
  <2>3. On(inFlight', "shares") = {}
    BY <1>2, <2>1, <2>2, TouchedNew
  <2>4. CASE Done(i)
    <3>1. p.status = Ready(inFlight[i].answer) /\ inFlight[i].answer = vault.shares
      BY <1>2, <1>9, <2>1, <2>2, <2>4 DEF SharesShown, SharesInv, Done
    <3> QED BY <1>2, <1>4, <2>3, <3>1, StateFacts DEF SharesInv
  <2>5. CASE ~Done(i)
    BY <1>4, <1>9, <2>3, <2>5 DEF SharesShown, SharesInv
  <2> QED BY <2>4, <2>5
<1>10. ASSUME NEW i \in DOMAIN inFlight, SharesTold(p, i) PROVE SharesInv'
  <2>1. "shares" \in Touches(inFlight[i])
    BY <1>5, <1>6, <1>10 DEF SharesTold
  <2>2. CASE Turn({}, {SharesReread}, {inFlight[i]})
    <3>1. SharesReread.cmd = "share_status" /\ SharesReread.for = "pane"
          /\ SharesReread.state = "sent"
      BY CmdFacts DEF SharesReread
    <3>2. On(inFlight', "shares") = {SharesReread}
      BY <1>2, <1>5, <1>6, <2>1, <2>2, <3>1, TouchedNew
    <3> QED BY <3>1, <3>2 DEF SharesInv
  <2>3. CASE Turn({}, {}, {inFlight[i]}) /\ p.error = TRUE
    <3>1. On(inFlight', "shares") = {}
      BY <1>2, <2>1, <2>3, TouchedNew
    <3> QED BY <1>4, <2>3, <3>1 DEF SharesInv
  <2> QED BY <1>10, <2>2, <2>3 DEF SharesTold
<1> QED BY <1>3, <1>7, <1>8, <1>9, <1>10 DEF SharingMove

\* The secrets in answers that have not arrived.
LEMMA MintedAnswers ==
    {inFlight[i].answer : i \in {j \in DOMAIN inFlight : inFlight[j].cmd = "issue_share_token"}}
       = {c.answer : c \in {d \in All(inFlight) : d.cmd = "issue_share_token"}}
<1> QED BY DEF All

\* A turn keeps the secrets in sight.
LEMMA TurnMinted ==
    ASSUME Shape, MintedInv, NEW gone, NEW new, NEW out, Turn(gone, new, out),
           \A c \in new : c.cmd = "issue_share_token" => c.for # "nobody" /\ c.state = "sent",
           out \subseteq All(inFlight),
           \A d \in out : d.state # "sent",
           \A d \in out : d.cmd = "issue_share_token" /\ d.state = "done" =>
                             d.answer \in seen'.shown
    PROVE  MintedInv'
<1>1. \A c \in All(inFlight) : CallShape(c)
  BY ShapedCalls DEF Shape
<1>2. seen.shown \subseteq seen'.shown /\ (seen.left => seen'.left) /\ vault' = vault
  BY DEF Turn, Watched
<1>3. ASSUME NEW c \in All(inFlight'), c.cmd = "issue_share_token"
      PROVE  (c.for = "nobody" => seen'.left) /\ (c.state = "done" => c.answer \in Secrets)
  <2>1. CASE c \in new
    BY <1>3, <2>1
  <2>2. CASE c \notin new
    <3>1. PICK d \in All(inFlight) : c = Moved(d, gone) /\ Matters(c)
      BY <2>2 DEF Turn, Traffic
    <3>2. c.cmd = d.cmd /\ c.state = d.state /\ c.answer = d.answer /\ c.for = Heir(d, gone)
      BY <1>1, <3>1, MovedFacts
    <3>3. c.state = "done" => c.answer \in Secrets
      BY <1>3, <3>2 DEF MintedInv
    <3>4. ASSUME c.for = "nobody" PROVE seen'.left
      <4>1. d \notin out
        BY <3>1, <3>2, <3>4 DEF Matters
      <4>2. CASE d.for \in gone
        BY <1>3, <3>2, <4>1, <4>2 DEF Turn, Watched
      <4>3. CASE d.for \notin gone
        <5>1. d.for = "nobody"
          BY <3>2, <3>4, <4>3, HeirFacts
        <5> QED BY <1>2, <1>3, <3>2, <5>1 DEF MintedInv
      <4> QED BY <4>2, <4>3
    <3> QED BY <3>3, <3>4
  <2> QED BY <2>1, <2>2
<1>4. ASSUME ~seen'.left, NEW t \in vault.minted
      PROVE  t \in seen'.shown
             \/ \E c \in All(inFlight') : c.cmd = "issue_share_token" /\ c.answer = t
  <2>1. t \in seen.shown \/ \E d \in All(inFlight) : d.cmd = "issue_share_token" /\ d.answer = t
    BY <1>2, <1>4, MintedAnswers DEF MintedInv, MintedIsShown
  <2>2. ASSUME NEW d \in All(inFlight), d.cmd = "issue_share_token", d.answer = t
        PROVE  t \in seen'.shown
               \/ \E c \in All(inFlight') : c.cmd = "issue_share_token" /\ c.answer = t
    <3>1. CASE d \in out
      <4>1. t # Null
        BY ViewsAssumption DEF Shape, VaultShape, ViewsAssumption
      <4>2. d.state = "done"
        BY <1>1, <2>2, <4>1 DEF CallShape
      <4> QED BY <2>2, <3>1, <4>2
    <3>2. CASE d \notin out
      <4>1. d.for \notin gone
        BY <1>4, <2>2, <3>2 DEF Turn, Watched
      <4>2. Moved(d, gone) = d /\ Matters(d)
        BY <4>1, StaysSame
      <4>3. d \in All(inFlight')
        BY <3>2, <4>2 DEF Turn, Traffic
      <4> QED BY <2>2, <4>3
    <3> QED BY <3>1, <3>2
  <2> QED BY <1>2, <2>1, <2>2
<1>5. MintedIsShown'
  <2>1. CASE seen'.left
    BY <2>1 DEF MintedIsShown
  <2>2. CASE ~seen'.left
    <3>1. \A t \in vault.minted :
             t \in seen'.shown
             \/ \E j \in DOMAIN inFlight' :
                   inFlight'[j].cmd = "issue_share_token" /\ inFlight'[j].answer = t
      BY <1>4, <2>2 DEF All
    <3> QED BY <1>2, <3>1 DEF MintedIsShown
  <2> QED BY <2>1, <2>2
<1> QED BY <1>3, <1>5 DEF MintedInv

\* A step that leaves the tokens alone keeps them in sight.
LEMMA FrameMinted ==
    ASSUME MintedInv, NEW rs, "shares" \notin rs, Frame(rs)
    PROVE  MintedInv'
<1>1. On(inFlight', "shares") = On(inFlight, "shares") /\ seen.shown \subseteq seen'.shown
      /\ (seen.left => seen'.left) /\ vault' = vault
  BY DEF Frame
<1>2. \A c : c.cmd = "issue_share_token" => "shares" \in Touches(c)
  BY TouchesFacts DEF SharesCmds
<1>3. \A c : c.cmd = "issue_share_token" => (c \in All(inFlight') <=> c \in All(inFlight))
  BY <1>1, <1>2 DEF On
<1>4. ASSUME ~seen'.left, NEW t \in vault.minted, t \notin seen'.shown
      PROVE  \E c \in All(inFlight') : c.cmd = "issue_share_token" /\ c.answer = t
  <2>1. \E d \in All(inFlight) : d.cmd = "issue_share_token" /\ d.answer = t
    BY <1>1, <1>4, MintedAnswers DEF MintedInv, MintedIsShown
  <2> QED BY <1>3, <2>1
<1>5. MintedIsShown'
  <2>1. CASE seen'.left
    BY <2>1 DEF MintedIsShown
  <2>2. CASE ~seen'.left
    <3>1. \A t \in vault.minted :
             t \in seen'.shown
             \/ \E j \in DOMAIN inFlight' :
                   inFlight'[j].cmd = "issue_share_token" /\ inFlight'[j].answer = t
      BY <1>4, <2>2 DEF All
    <3> QED BY <1>1, <3>1 DEF MintedIsShown
  <2> QED BY <2>1, <2>2
<1>6. \A c \in All(inFlight') : c.cmd = "issue_share_token" =>
         (c.for = "nobody" => seen'.left) /\ (c.state = "done" => c.answer \in Secrets)
  BY <1>1, <1>3 DEF MintedInv
<1> QED BY <1>5, <1>6 DEF MintedInv

\* The secret of a token is on the screen once its answer has arrived.
LEMMA SharingMinted ==
    ASSUME Shape, AtMostOne, MintedInv, SharingStep
    PROVE  MintedInv'
<1>1. PICK p : SharingMove(p)
  BY SharingMoves
<1>2. ui'.pane = p /\ p.view = "sharing"
  BY <1>1 DEF SharingMove, PaneOnly, View, SharingShape, SharingPane
<1>3. \A i \in DOMAIN inFlight : inFlight[i] \in All(inFlight) /\ CallShape(inFlight[i])
  BY CallFacts
<1>4. CASE SharesSent(p)
  <2>1. PICK c : c.for = "pane" /\ c.state = "sent" /\ Turn({}, {c}, {})
    BY <1>4 DEF SharesSent
  <2> QED BY <2>1, TurnMinted
<1>5. CASE SharesTyped(p)
  <2>1. Turn({}, {}, {})
    BY <1>5 DEF SharesTyped
  <2> QED BY <2>1, TurnMinted
<1>6. ASSUME NEW i \in DOMAIN inFlight, inFlight[i].state # "sent", SharesShown(p, i)
      PROVE  MintedInv'
  <2>1. PICK d : d = inFlight[i]
    OBVIOUS
  <2>2. d \in All(inFlight) /\ d.state # "sent" /\ d.cmd # "issue_share_token"
        /\ Turn({}, {}, {d})
    BY <1>3, <1>6, <2>1 DEF SharesShown
  <2> QED BY <2>2, TurnMinted
<1>7. ASSUME NEW i \in DOMAIN inFlight, inFlight[i].state # "sent", SharesTold(p, i)
      PROVE  MintedInv'
  <2>1. PICK d : d = inFlight[i]
    OBVIOUS
  <2>2. d \in All(inFlight) /\ d.state # "sent" /\ CallShape(d)
    BY <1>3, <1>7, <2>1
  <2>3. CASE Done(i) /\ Turn({}, {SharesReread}, {d})
    <3>1. SharesReread.cmd = "share_status"
      BY CmdFacts DEF SharesReread
    <3>2. ASSUME d.cmd = "issue_share_token" PROVE d.answer \in seen'.shown
      <4>1. d.answer \in Secrets
        BY <2>1, <2>2, <2>3, <3>2 DEF MintedInv, Done
      <4>2. d.answer # Null
        BY <4>1, ViewsAssumption DEF ViewsAssumption
      <4>3. p.issued = d.answer
        BY <1>7, <2>1, <2>3, <3>2 DEF SharesTold
      <4> QED BY <1>2, <2>3, <4>2, <4>3 DEF Turn, Watched
    <3> QED BY <2>2, <2>3, <3>1, <3>2, TurnMinted
  <2>4. CASE ~Done(i) /\ Turn({}, {}, {d})
    <3>1. d.state # "done"
      BY <2>1, <2>4 DEF Done
    <3> QED BY <2>2, <2>4, <3>1, TurnMinted
  <2> QED BY <1>7, <2>1, <2>3, <2>4 DEF SharesTold
<1>8. \A i \in DOMAIN inFlight : SharesShown(p, i) \/ SharesTold(p, i) => inFlight[i].state # "sent"
  BY DEF SharesShown, SharesTold
<1> QED BY <1>1, <1>4, <1>5, <1>6, <1>7, <1>8 DEF SharingMove

-----------------------------------------------------------------------------
(* The sources tab.                                                        *)

SourcesRead == Cmd("list_sources", Null, "pane")
TransfersRead == Cmd("list_transfers", Null, "home")

SourcesStep ==
    \/ Sync \/ Disconnect \/ ToastGone
    \/ \E i \in DOMAIN inFlight : \/ SourcesListed(i) \/ Disconnected(i)
                                  \/ SyncEnded(i) /\ inFlight[i].for = "pane"

\* What the handlers of the tab do.
SourcesKept(p) == p.status = ui.pane.status /\ p.error = ui.pane.error
SourcesSent(p) ==
    /\ SourcesKept(p)
    /\ \E c : /\ c.cmd \in {"trigger_ingest", "disconnect_source"} /\ c.for = "pane"
              /\ c.state = "sent" /\ Turn({}, {c}, {})
SourcesQuiet(p) == SourcesKept(p) /\ Turn({}, {}, {})
SourcesShown(p, i) ==
    /\ inFlight[i].cmd = "list_sources" /\ Turn({}, {}, {inFlight[i]})
    /\ IF Done(i) THEN p.status = Ready(inFlight[i].answer) ELSE p.error = TRUE
SyncOver(p, i) ==
    /\ inFlight[i].cmd = "trigger_ingest" /\ SourcesKept(p)
    /\ \/ Turn({}, {TransfersRead}, {inFlight[i]})
       \/ Turn({}, {}, {inFlight[i]})
SourceGone(p, i) ==
    /\ inFlight[i].cmd = "disconnect_source"
    /\ \/ SourcesKept(p) /\ Turn({}, {SourcesRead}, {inFlight[i]})
       \/ p.error = TRUE /\ Turn({}, {}, {inFlight[i]})
SourcesMove(p) ==
    /\ ui.tab = "sources" /\ PaneOnly(p) /\ SourcesShape(p)
    /\ \/ SourcesSent(p) \/ SourcesQuiet(p)
       \/ \E i \in DOMAIN inFlight : SourcesShown(p, i) \/ SyncOver(p, i) \/ SourceGone(p, i)

LEMMA SyncMove ==
    ASSUME Shape, AtMostOne, Sync
    PROVE  \E p : SourcesMove(p)
<1>1. /\ ui.tab = "sources"
      /\ Clicked([ui EXCEPT !.pane.run = "running"], {}, <<Cmd("trigger_ingest", Null, "pane")>>)
  BY DEF Sync, Connected, OnSources
<1>2. PICK tab, panel, home, status, run, error :
         ui = View(tab, SourcesPane(status, run, error), panel, home)
  BY <1>1, SourcesUi
<1>3. PICK c : c = Cmd("trigger_ingest", Null, "pane")
  OBVIOUS
<1>4. c.cmd = "trigger_ingest" /\ c.for = "pane" /\ c.state = "sent"
  BY <1>3, CmdFacts
<1>5. Turn({}, {c}, {}) /\ ui' = [ui EXCEPT !.pane.run = "running"]
  BY <1>1, <1>3, ClickOne
<1>6. PICK p : p = SourcesPane(status, "running", error)
  OBVIOUS
<1>7. SourcesShape(p) /\ PaneOnly(p) /\ SourcesKept(p)
  BY <1>2, <1>5, <1>6 DEF SourcesShape, PaneOnly, View, SourcesPane, SourcesKept
<1> QED BY <1>1, <1>4, <1>5, <1>7 DEF SourcesMove, SourcesSent

LEMMA DisconnectMove ==
    ASSUME Shape, AtMostOne, Disconnect
    PROVE  \E p : SourcesMove(p)
<1>1. ui.tab = "sources" /\ Clicked(ui, {}, <<Cmd("disconnect_source", Null, "pane")>>)
  BY DEF Disconnect, Connected, OnSources
<1>2. PICK c : c = Cmd("disconnect_source", Null, "pane")
  OBVIOUS
<1>3. c.cmd = "disconnect_source" /\ c.for = "pane" /\ c.state = "sent"
  BY <1>2, CmdFacts
<1>4. Turn({}, {c}, {}) /\ ui' = ui
  BY <1>1, <1>2, ClickOne
<1>5. SourcesShape(ui.pane) /\ PaneOnly(ui.pane)
  BY <1>1, <1>4 DEF Shape, UiShape, PaneOnly
<1> QED BY <1>1, <1>3, <1>4, <1>5 DEF SourcesMove, SourcesSent, SourcesKept

LEMMA ToastGoneMove ==
    ASSUME Shape, AtMostOne, ToastGone
    PROVE  \E p : SourcesMove(p)
<1>1. /\ ui.pane.view = "sources" /\ Show(inFlight, [ui EXCEPT !.pane.run = "idle"], {}, <<>>)
      /\ vault' = vault /\ spent' = spent
  BY DEF ToastGone
<1>2. ui.tab = "sources"
  BY <1>1 DEF Shape, UiShape, Tabs, SettingsTabs, DashboardShape, DashboardPane, QueueShape,
              QueuePane, PersonaShape, PersonaPane, SharingShape, SharingPane, UnlockShape,
              UnlockPane, NoView
<1>3. PICK tab, panel, home, status, run, error :
         ui = View(tab, SourcesPane(status, run, error), panel, home)
  BY <1>2, SourcesUi
<1>4. spent' = [clicks |-> spent'.clicks, opens |-> spent'.opens, faults |-> spent.faults]
  BY <1>1 DEF Shape, SeenShape
<1>5. Turn({}, {}, {}) /\ ui' = [ui EXCEPT !.pane.run = "idle"]
  BY <1>1, <1>4, NoneSendable, ShowTurn, ZenonT(40)
<1>6. PICK p : p = SourcesPane(status, "idle", error)
  OBVIOUS
<1>7. SourcesShape(p) /\ PaneOnly(p) /\ SourcesKept(p)
  BY <1>3, <1>5, <1>6 DEF SourcesShape, PaneOnly, View, SourcesPane, SourcesKept
<1> QED BY <1>2, <1>5, <1>7 DEF SourcesMove, SourcesQuiet

LEMMA SourcesListedMove ==
    ASSUME Shape, AtMostOne, NEW i, SourcesListed(i)
    PROVE  \E p : SourcesMove(p)
<1>1. i \in DOMAIN inFlight /\ inFlight[i].cmd = "list_sources"
  BY DEF SourcesListed, Answers
<1>2. ui.tab = "sources"
  BY <1>1, CallFacts, RoutedFacts
<1>3. PICK tab, panel, home, status, run, error :
         ui = View(tab, SourcesPane(status, run, error), panel, home)
  BY <1>2, SourcesUi
<1>4. CASE Done(i)
  <2>1. Answered(i, [ui EXCEPT !.pane.status = Fetched(i), !.pane.error = FALSE], {}, <<>>)
    BY <1>4 DEF SourcesListed
  <2>2. /\ Turn({}, {}, {inFlight[i]})
        /\ ui' = [ui EXCEPT !.pane.status = Fetched(i), !.pane.error = FALSE]
    BY <1>1, <2>1, AnswerNone
  <2>3. PICK p : p = SourcesPane(Fetched(i), run, FALSE)
    OBVIOUS
  <2>4. SourcesShape(p) /\ PaneOnly(p) /\ p.status = Fetched(i)
    BY <1>3, <2>2, <2>3 DEF SourcesShape, PaneOnly, View, SourcesPane
  <2>5. Fetched(i) = Ready(inFlight[i].answer)
    BY <1>4 DEF Fetched
  <2> QED BY <1>1, <1>2, <1>4, <2>2, <2>4, <2>5 DEF SourcesMove, SourcesShown
<1>5. CASE ~Done(i)
  <2>1. Answered(i, [ui EXCEPT !.pane.error = TRUE], {}, <<>>)
    BY <1>5 DEF SourcesListed
  <2>2. Turn({}, {}, {inFlight[i]}) /\ ui' = [ui EXCEPT !.pane.error = TRUE]
    BY <1>1, <2>1, AnswerNone
  <2>3. PICK p : p = SourcesPane(status, run, TRUE)
    OBVIOUS
  <2>4. SourcesShape(p) /\ PaneOnly(p) /\ p.error = TRUE
    BY <1>3, <2>2, <2>3 DEF SourcesShape, PaneOnly, View, SourcesPane
  <2> QED BY <1>1, <1>2, <1>5, <2>2, <2>4 DEF SourcesMove, SourcesShown
<1> QED BY <1>4, <1>5

LEMMA SyncEndedMove ==
    ASSUME Shape, AtMostOne, NEW i, SyncEnded(i), inFlight[i].for = "pane"
    PROVE  \E p : SourcesMove(p)
<1>1. i \in DOMAIN inFlight /\ inFlight[i].cmd = "trigger_ingest"
  BY DEF SyncEnded, Answers
<1>2. ui.tab = "sources"
  BY <1>1, CallFacts, RoutedFacts
<1>3. PICK tab, panel, home, status, run, error :
         ui = View(tab, SourcesPane(status, run, error), panel, home)
  BY <1>2, SourcesUi
<1>4. PICK ended : /\ ended = IF Done(i) THEN "done" ELSE "error"
                   /\ Answered(i, [ui EXCEPT !.pane.run = ended], {},
                               IF Done(i) THEN <<TransfersRead>> ELSE <<>>)
  BY DEF SyncEnded, Asked, TransfersRead
<1>5. ui' = [ui EXCEPT !.pane.run = ended]
      /\ (Turn({}, {TransfersRead}, {inFlight[i]}) \/ Turn({}, {}, {inFlight[i]}))
  <2>1. CASE Done(i)
    <3>1. Answered(i, [ui EXCEPT !.pane.run = ended], {}, <<TransfersRead>>)
      BY <1>4, <2>1
    <3> QED BY <1>1, <3>1, AnswerOne DEF TransfersRead
  <2>2. CASE ~Done(i)
    <3>1. Answered(i, [ui EXCEPT !.pane.run = ended], {}, <<>>)
      BY <1>4, <2>2
    <3> QED BY <1>1, <3>1, AnswerNone
  <2> QED BY <2>1, <2>2
<1>6. PICK p : p = SourcesPane(status, ended, error)
  OBVIOUS
<1>7. SourcesShape(p) /\ PaneOnly(p) /\ SourcesKept(p)
  BY <1>3, <1>5, <1>6 DEF SourcesShape, PaneOnly, View, SourcesPane, SourcesKept
<1> QED BY <1>1, <1>2, <1>5, <1>7 DEF SourcesMove, SyncOver

LEMMA DisconnectedMove ==
    ASSUME Shape, AtMostOne, NEW i, Disconnected(i)
    PROVE  \E p : SourcesMove(p)
<1>1. i \in DOMAIN inFlight /\ inFlight[i].cmd = "disconnect_source" /\ inFlight[i].state # "sent"
  BY DEF Disconnected, Answers
<1>2. ui.tab = "sources"
  BY <1>1, CallFacts, RoutedFacts
<1>3. CASE Done(i)
  <2>1. Answered(i, ui, {}, <<SourcesRead>>)
    BY <1>3 DEF Disconnected, Asked, SourcesRead
  <2>2. Turn({}, {SourcesRead}, {inFlight[i]}) /\ ui' = ui
    BY <1>1, <2>1, AnswerOne DEF SourcesRead
  <2>3. SourcesShape(ui.pane) /\ PaneOnly(ui.pane)
    BY <1>2, <2>2 DEF Shape, UiShape, PaneOnly
  <2> QED BY <1>1, <1>2, <2>2, <2>3 DEF SourcesMove, SourceGone, SourcesKept
<1>4. CASE ~Done(i)
  <2>1. Answered(i, [ui EXCEPT !.pane.error = TRUE], {}, <<>>)
    BY <1>4 DEF Disconnected
  <2>2. Turn({}, {}, {inFlight[i]}) /\ ui' = [ui EXCEPT !.pane.error = TRUE]
    BY <1>1, <2>1, AnswerNone
  <2>3. PICK tab, panel, home, status, run, error :
           ui = View(tab, SourcesPane(status, run, error), panel, home)
    BY <1>2, SourcesUi
  <2>4. PICK p : p = SourcesPane(status, run, TRUE)
    OBVIOUS
  <2>5. SourcesShape(p) /\ PaneOnly(p) /\ p.error = TRUE
    BY <2>2, <2>3, <2>4 DEF SourcesShape, PaneOnly, View, SourcesPane
  <2> QED BY <1>1, <1>2, <2>2, <2>5 DEF SourcesMove, SourceGone
<1> QED BY <1>3, <1>4

LEMMA SourcesMoves ==
    ASSUME Shape, AtMostOne, SourcesStep
    PROVE  \E p : SourcesMove(p)
<1> QED BY SyncMove, DisconnectMove, ToastGoneMove, SourcesListedMove, SyncEndedMove,
           DisconnectedMove DEF SourcesStep

LEMMA SourcesFrame ==
    ASSUME Shape, AtMostOne, SourcesStep
    PROVE  PaneStep("sources", {"sources", "queue", "transfers"})
<1> PICK rs : rs = {"sources", "queue", "transfers"}
  OBVIOUS
<1>1. PICK p : SourcesMove(p)
  BY SourcesMoves
<1>2. ui.tab = "sources" /\ PaneOnly(p) /\ PaneFits(p) /\ ui.tab \in SettingsTabs
  BY <1>1 DEF SourcesMove, PaneFits, SettingsTabs
<1>3. \A c : c.cmd \in {"list_sources", "disconnect_source", "trigger_ingest", "list_transfers"} =>
               Touches(c) \subseteq rs
  BY TouchesFacts
<1>4. /\ SourcesRead.cmd = "list_sources" /\ SourcesRead.for = "pane"
      /\ TransfersRead.cmd = "list_transfers" /\ TransfersRead.for = "home"
  BY CmdFacts DEF SourcesRead, TransfersRead
<1>5. FromPane(SourcesRead) /\ FromPane(TransfersRead)
  BY <1>2, <1>4 DEF FromPane, Awaiters, PaneOfCmd, SharesCmds
<1>6. CASE SourcesSent(p)
  <2>1. PICK c : /\ c.cmd \in {"trigger_ingest", "disconnect_source"} /\ c.for = "pane"
                 /\ c.state = "sent" /\ Turn({}, {c}, {})
    BY <1>6 DEF SourcesSent
  <2>2. FromPane(c)
    BY <1>2, <2>1 DEF FromPane, Awaiters, PaneOfCmd, SharesCmds
  <2> QED BY <1>2, <1>3, <2>1, <2>2, PaneSends
<1>7. CASE SourcesQuiet(p)
  BY <1>2, <1>7, PaneQuiet DEF SourcesQuiet
<1>8. ASSUME NEW i \in DOMAIN inFlight, SourcesShown(p, i) PROVE PaneStep("sources", rs)
  BY <1>2, <1>3, <1>8, PaneTakes DEF SourcesShown
<1>9. ASSUME NEW i \in DOMAIN inFlight, SyncOver(p, i) PROVE PaneStep("sources", rs)
  <2>1. Touches(TransfersRead) \subseteq rs /\ Touches(inFlight[i]) \subseteq rs
    BY <1>3, <1>4, <1>9 DEF SyncOver
  <2>2. CASE Turn({}, {TransfersRead}, {inFlight[i]})
    BY <1>2, <1>5, <2>1, <2>2, PaneReplies
  <2>3. CASE Turn({}, {}, {inFlight[i]})
    BY <1>2, <2>1, <2>3, PaneTakes
  <2> QED BY <1>9, <2>2, <2>3 DEF SyncOver
<1>10. ASSUME NEW i \in DOMAIN inFlight, SourceGone(p, i) PROVE PaneStep("sources", rs)
  <2>1. Touches(SourcesRead) \subseteq rs /\ Touches(inFlight[i]) \subseteq rs
    BY <1>3, <1>4, <1>10 DEF SourceGone
  <2>2. CASE Turn({}, {SourcesRead}, {inFlight[i]})
    BY <1>2, <1>5, <2>1, <2>2, PaneReplies
  <2>3. CASE Turn({}, {}, {inFlight[i]})
    BY <1>2, <2>1, <2>3, PaneTakes
  <2> QED BY <1>10, <2>2, <2>3 DEF SourceGone
<1> QED BY <1>1, <1>6, <1>7, <1>8, <1>9, <1>10 DEF SourcesMove

\* The list of sources is read again after every change.
LEMMA SourcesOwn ==
    ASSUME Shape, AtMostOne, SourcesInv, SourcesStep
    PROVE  SourcesInv'
<1>1. SUFFICES ASSUME Alone("sources")' PROVE SourcesInv'
  BY DEF SourcesInv
<1>2. "sources" \notin seen'.overlapped /\ Alone("sources") /\ vault' = vault
  BY <1>1, SourcesFrame DEF PaneStep, Frame, Alone
<1>3. PICK p : SourcesMove(p)
  BY SourcesMoves
<1>4. ui.tab = "sources" /\ ui'.tab = "sources" /\ ui'.pane = p
  BY <1>3 DEF SourcesMove, PaneOnly, View
<1>5. /\ \A c : c.cmd \in {"list_sources", "disconnect_source"} => "sources" \in Touches(c)
      /\ \A c : c.cmd \in {"trigger_ingest", "list_transfers"} => "sources" \notin Touches(c)
  BY TouchesFacts
<1>6. /\ SourcesRead.cmd = "list_sources" /\ SourcesRead.for = "pane"
      /\ SourcesRead.state = "sent" /\ TransfersRead.cmd = "list_transfers"
  BY CmdFacts DEF SourcesRead, TransfersRead
<1>7. ASSUME On(inFlight', "sources") = On(inFlight, "sources"), SourcesKept(p)
      PROVE  SourcesInv'
  BY <1>2, <1>4, <1>7 DEF SourcesInv, SourcesKept
<1>8. CASE SourcesSent(p)
  <2>1. PICK c : /\ c.cmd \in {"trigger_ingest", "disconnect_source"} /\ c.for = "pane"
                 /\ c.state = "sent" /\ Turn({}, {c}, {})
    BY <1>8 DEF SourcesSent
  <2>2. CASE c.cmd = "trigger_ingest"
    <3>1. On(inFlight', "sources") = On(inFlight, "sources")
      BY <1>5, <2>1, <2>2, Untouched
    <3> QED BY <1>7, <1>8, <3>1 DEF SourcesSent
  <2>3. CASE c.cmd = "disconnect_source"
    <3>1. On(inFlight', "sources") = {c}
      BY <1>2, <1>5, <2>1, <2>3, TouchedNew
    <3>2. On(inFlight, "sources") \subseteq {c}
      BY <1>2, <1>5, <2>1, <2>3, TouchedBefore
    <3>3. SourcesKept(p)
      BY <1>8 DEF SourcesSent
    <3> QED BY <1>2, <1>4, <2>1, <2>3, <3>1, <3>2, <3>3 DEF SourcesInv, SourcesKept
  <2> QED BY <2>1, <2>2, <2>3
<1>9. CASE SourcesQuiet(p)
  <2>1. On(inFlight', "sources") = On(inFlight, "sources")
    BY <1>9, Untouched DEF SourcesQuiet
  <2> QED BY <1>7, <1>9, <2>1 DEF SourcesQuiet
<1>10. ASSUME NEW i \in DOMAIN inFlight, SourcesShown(p, i) PROVE SourcesInv'
  <2>1. inFlight[i].cmd = "list_sources" /\ Turn({}, {}, {inFlight[i]})
    BY <1>10 DEF SourcesShown
  <2>2. "sources" \in Touches(inFlight[i]) /\ inFlight[i] \in On(inFlight, "sources")
    BY <1>5, <2>1, CallFacts DEF On
  <2>3. On(inFlight', "sources") = {}
    BY <1>2, <2>1, <2>2, TouchedNew
  <2>4. CASE Done(i)
    <3>1. p.status = Ready(inFlight[i].answer) /\ inFlight[i].answer = vault.connected
      BY <1>2, <1>10, <2>1, <2>2, <2>4 DEF SourcesShown, SourcesInv, Done
    <3> QED BY <1>2, <1>4, <2>3, <3>1, StateFacts DEF SourcesInv
  <2>5. CASE ~Done(i)
    BY <1>4, <1>10, <2>3, <2>5 DEF SourcesShown, SourcesInv
  <2> QED BY <2>4, <2>5
<1>11. ASSUME NEW i \in DOMAIN inFlight, SyncOver(p, i) PROVE SourcesInv'
  <2>1. On(inFlight', "sources") = On(inFlight, "sources")
    <3>1. "sources" \notin Touches(inFlight[i]) /\ "sources" \notin Touches(TransfersRead)
      BY <1>5, <1>6, <1>11 DEF SyncOver
    <3>2. CASE Turn({}, {TransfersRead}, {inFlight[i]})
      BY <3>1, <3>2, Untouched
    <3>3. CASE Turn({}, {}, {inFlight[i]})
      BY <3>1, <3>3, Untouched
    <3> QED BY <1>11, <3>2, <3>3 DEF SyncOver
  <2> QED BY <1>7, <1>11, <2>1 DEF SyncOver
<1>12. ASSUME NEW i \in DOMAIN inFlight, SourceGone(p, i) PROVE SourcesInv'
  <2>1. "sources" \in Touches(inFlight[i])
    BY <1>5, <1>12 DEF SourceGone
  <2>2. CASE Turn({}, {SourcesRead}, {inFlight[i]})
    <3>1. On(inFlight', "sources") = {SourcesRead}
      BY <1>2, <1>5, <1>6, <2>1, <2>2, TouchedNew
    <3> QED BY <1>6, <3>1 DEF SourcesInv
  <2>3. CASE Turn({}, {}, {inFlight[i]}) /\ p.error = TRUE
    <3>1. On(inFlight', "sources") = {}
      BY <1>2, <2>1, <2>3, TouchedNew
    <3> QED BY <1>4, <2>3, <3>1 DEF SourcesInv
  <2> QED BY <1>12, <2>2, <2>3 DEF SourceGone
<1> QED BY <1>3, <1>8, <1>9, <1>10, <1>11, <1>12 DEF SourcesMove

\* A collection takes the queue, and no answer of the queue's own.
LEMMA SourcesQueue ==
    ASSUME Shape, AtMostOne, QueueInv, SourcesStep
    PROVE  QueueInv'
<1>1. SUFFICES ASSUME Alone("queue")' PROVE QueueInv'
  BY DEF QueueInv
<1>2. /\ "queue" \notin seen'.overlapped /\ Alone("queue") /\ vault' = vault
      /\ ui.tab = "sources" /\ ui'.tab = "sources"
  BY <1>1, SourcesFrame DEF PaneStep, Frame, Alone
<1>3. PICK p : SourcesMove(p)
  BY SourcesMoves
<1>4. /\ \A c : c.cmd \in {"list_sources", "disconnect_source", "list_transfers"} =>
                   "queue" \notin Touches(c)
      /\ \A c : c.cmd = "trigger_ingest" => "queue" \in Touches(c)
  BY TouchesFacts
<1>5. SourcesRead.cmd = "list_sources" /\ TransfersRead.cmd = "list_transfers"
  BY CmdFacts DEF SourcesRead, TransfersRead
<1>6. ASSUME On(inFlight', "queue") = On(inFlight, "queue") PROVE QueueInv'
  BY <1>2, <1>6 DEF QueueInv
<1>7. CASE SourcesSent(p)
  <2>1. PICK c : /\ c.cmd \in {"trigger_ingest", "disconnect_source"} /\ c.for = "pane"
                 /\ c.state = "sent" /\ Turn({}, {c}, {})
    BY <1>7 DEF SourcesSent
  <2>2. CASE c.cmd = "trigger_ingest"
    <3>1. On(inFlight', "queue") = {c}
      BY <1>2, <1>4, <2>1, <2>2, TouchedNew
    <3> QED BY <1>2, <2>2, <3>1 DEF QueueInv
  <2>3. CASE c.cmd = "disconnect_source"
    <3>1. On(inFlight', "queue") = On(inFlight, "queue")
      BY <1>4, <2>1, <2>3, Untouched
    <3> QED BY <1>6, <3>1
  <2> QED BY <2>1, <2>2, <2>3
<1>8. CASE SourcesQuiet(p)
  <2>1. On(inFlight', "queue") = On(inFlight, "queue")
    BY <1>8, Untouched DEF SourcesQuiet
  <2> QED BY <1>6, <2>1
<1>9. ASSUME NEW i \in DOMAIN inFlight, SourcesShown(p, i) PROVE QueueInv'
  <2>1. On(inFlight', "queue") = On(inFlight, "queue")
    BY <1>4, <1>9, Untouched DEF SourcesShown
  <2> QED BY <1>6, <2>1
<1>10. ASSUME NEW i \in DOMAIN inFlight, SyncOver(p, i) PROVE QueueInv'
  <2>1. "queue" \in Touches(inFlight[i]) /\ "queue" \notin Touches(TransfersRead)
    BY <1>4, <1>5, <1>10 DEF SyncOver
  <2>2. CASE Turn({}, {TransfersRead}, {inFlight[i]})
    <3>1. On(inFlight', "queue") = {}
      BY <1>2, <2>1, <2>2, TouchedNew
    <3> QED BY <1>2, <3>1 DEF QueueInv
  <2>3. CASE Turn({}, {}, {inFlight[i]})
    <3>1. On(inFlight', "queue") = {}
      BY <1>2, <2>1, <2>3, TouchedNew
    <3> QED BY <1>2, <3>1 DEF QueueInv
  <2> QED BY <1>10, <2>2, <2>3 DEF SyncOver
<1>11. ASSUME NEW i \in DOMAIN inFlight, SourceGone(p, i) PROVE QueueInv'
  <2>1. "queue" \notin Touches(inFlight[i]) /\ "queue" \notin Touches(SourcesRead)
    BY <1>4, <1>5, <1>11 DEF SourceGone
  <2>2. On(inFlight', "queue") = On(inFlight, "queue")
    <3>1. CASE Turn({}, {SourcesRead}, {inFlight[i]})
      BY <2>1, <3>1, Untouched
    <3>2. CASE Turn({}, {}, {inFlight[i]})
      BY <2>1, <3>2, Untouched
    <3> QED BY <1>11, <3>1, <3>2 DEF SourceGone
  <2> QED BY <1>6, <2>2
<1> QED BY <1>3, <1>7, <1>8, <1>9, <1>10, <1>11 DEF SourcesMove

-----------------------------------------------------------------------------
(* What a step keeps: an invariant about a resource holds after a step that *)
(* leaves its calls, its stored state and its views alone.                 *)

SameOn(r) == On(inFlight', r) = On(inFlight, r) /\ seen.overlapped \subseteq seen'.overlapped

\* One lemma per part of the invariant.
LEMMA QueueKept ==
    ASSUME QueueInv, SameOn("queue"), vault'.pending = vault.pending,
           ui'.tab = "queue" => ui.tab = "queue" /\ ui'.pane = ui.pane
    PROVE  QueueInv'
<1> QED BY DEF QueueInv, Alone, SameOn

LEMMA SharesAsBefore ==
    ASSUME SharesInv, SameOn("shares"), vault'.shares = vault.shares,
           ui'.tab = "sharing" => ui.tab = "sharing" /\ ui'.pane = ui.pane
    PROVE  SharesInv'
<1> QED BY DEF SharesInv, Alone, SameOn

LEMMA SourcesAsBefore ==
    ASSUME SourcesInv, SameOn("sources"), vault'.connected = vault.connected,
           ui'.tab = "sources" => ui.tab = "sources" /\ ui'.pane = ui.pane
    PROVE  SourcesInv'
<1> QED BY DEF SourcesInv, Alone, SameOn

LEMMA TransfersAsBefore ==
    ASSUME TransfersInv, SameOn("transfers"), vault'.sent = vault.sent,
           ui'.tab = "transfers" => ui.tab = "transfers" /\ ui'.home.transfers = ui.home.transfers
    PROVE  TransfersInv'
<1> QED BY DEF TransfersInv, Alone, SameOn

LEMMA GraphAsBefore ==
    ASSUME GraphInv, SameOn("graph"), On(inFlight, "graph") # {} => ui.tab = "dashboard",
           ui.tab = "dashboard" => ui'.pane.scope = ui.pane.scope,
           ui'.tab = "dashboard" => ui.tab = "dashboard" /\ ui'.pane.graph = ui.pane.graph
    PROVE  GraphInv'
<1> QED BY DEF GraphInv, Alone, SameOn

LEMMA LockAsBefore ==
    ASSUME LockInv, SameOn("lock"), vault'.open = vault.open, ui'.tab = "unlock" <=> ui.tab = "unlock"
    PROVE  LockInv'
<1> QED BY DEF LockInv, Alone, SameOn

LEMMA ConfigAsBefore ==
    ASSUME ConfigInv, SameOn("config"), vault'.config = vault.config,
           ui'.tab \in SettingsTabs => ui.tab \in SettingsTabs /\ ui'.home.typed = ui.home.typed
             /\ ui'.home.saved = ui.home.saved /\ ui'.home.model = ui.home.model
             /\ ui'.home.config = ui.home.config
    PROVE  ConfigInv'
<1>1. InSettings' => InSettings
  BY DEF InSettings
<1>2. Alone("config")' => Alone("config")
  BY DEF Alone, SameOn
<1>3. ASSUME Alone("config")' PROVE ConfigInv'
  <2> PICK C : C = On(inFlight, "config")
    OBVIOUS
  <2> QED BY <1>1, <1>2, <1>3 DEF ConfigInv, SameOn, InSettings
<1> QED BY <1>3 DEF ConfigInv

LEMMA HomeAsBefore ==
    ASSUME HomeInv, SameOn("config"), SameOn("lock"), vault'.config = vault.config,
           ui'.tab \in SettingsTabs => ui.tab \in SettingsTabs
             /\ ui'.home.config = ui.home.config /\ (ui'.home.error \/ ~ui.home.error)
    PROVE  HomeInv'
<1> QED BY DEF HomeInv, Alone, SameOn, InSettings

LEMMA ScopeAsBefore ==
    ASSUME ScopeInv, SameOn("scope"), vault'.scope = vault.scope,
           ui'.panel.view = "scope" => ui'.panel = ui.panel
    PROVE  ScopeInv'
<1> QED BY DEF ScopeInv, Alone, SameOn

LEMMA ThreadAsBefore ==
    ASSUME ThreadInv, SameOn("thread"), vault'.thread = vault.thread,
           ui'.tab = "persona" => ui.tab = "persona" /\ ui'.pane = ui.pane
    PROVE  ThreadInv'
<1> PICK C : C = On(inFlight, "thread")
  OBVIOUS
<1>1. ThreadShape'
  BY DEF ThreadInv, ThreadShape, SameOn
<1>2. ThreadKept'
  BY DEF ThreadInv, ThreadKept, Alone, SameOn
<1> QED BY <1>1, <1>2 DEF ThreadInv

LEMMA PersonaAsBefore ==
    ASSUME PersonaInv, SameOn("thread"), SameOn("lock"),
           vault'.thread = vault.thread, vault'.open = vault.open,
           spent'.faults = 0 => spent.faults = 0,
           ui'.tab = "persona" => ui.tab = "persona" /\ ui'.pane = ui.pane
    PROVE  PersonaInv'
<1> QED BY DEF PersonaInv, Alone, SameOn

\* The commands about pages.
LEMMA PageCalls ==
    ASSUME Shape
    PROVE  \A c \in All(inFlight) :
             c.cmd \in {"get_fact", "set_fact_sharing"} =>
               c.arg.fact \in Facts /\ c \in On(inFlight, c.arg.fact)
<1>1. ASSUME NEW c \in All(inFlight), c.cmd \in {"get_fact", "set_fact_sharing"}
      PROVE  c.arg.fact \in Facts /\ c \in On(inFlight, c.arg.fact)
  <2>1. Named(c)
    BY DEF Shape, Routing, Routed
  <2>2. Touches(c) = {c.arg.fact}
    BY <1>1, TouchesFacts
  <2> QED BY <1>1, <2>1, <2>2 DEF On, Named
<1> QED BY <1>1

LEMMA ControlAsBefore ==
    ASSUME Shape, Shape', ControlInv, \A f \in Facts : SameOn(f), OneSave(inFlight'),
           ui'.panel.view = "control" => ui'.panel = ui.panel
    PROVE  ControlInv'
<1>1. ASSUME NEW c \in All(inFlight'), Saving(c) PROVE ui'.panel.busy /\ ~ui'.panel.saved
  <2>1. Routed(c, ui')
    BY DEF Shape, Routing
  <2>2. c.arg.fact \in Facts /\ ui'.panel.view = "control"
    BY <1>1, <2>1, RoutedFacts DEF Saving
  <2>3. Touches(c) = {c.arg.fact}
    BY <1>1, TouchesFacts DEF Saving
  <2>4. c \in All(inFlight)
    BY <2>2, <2>3 DEF SameOn, On
  <2> QED BY <1>1, <2>2, <2>4 DEF ControlInv
<1> QED BY <1>1 DEF ControlInv

LEMMA FactAsBefore ==
    ASSUME Shape, Shape', FactInv, \A f \in Facts : SameOn(f), vault'.sharing = vault.sharing,
           ui'.panel.view = "control" =>
             ui'.panel = ui.panel /\ ui'.pane.selected = ui.pane.selected
    PROVE  FactInv'
<1> SUFFICES ASSUME NEW f \in Facts, Alone(f)'
             PROVE  /\ FactCalls(f)'
                    /\ ui'.panel.view = "control" /\ ui'.pane.selected = f =>
                         /\ FactSent(f)'
                         /\ Shows(ui'.panel.fact) => FactShown(f)'
  BY DEF FactInv
<1>1. Alone(f) /\ On(inFlight', f) = On(inFlight, f)
  BY DEF SameOn, Alone
<1>2. FactCalls(f)'
  <2>1. FactCalls(f)
    BY <1>1 DEF FactInv
  <2>2. ASSUME NEW c \in On(inFlight', f)
        PROVE  /\ c.cmd = "get_fact" /\ c.state = "done" => c.answer = vault'.sharing[f]
               /\ c.cmd = "set_fact_sharing" /\ c.state = "sent" => KeptBut(f, c.arg)'
               /\ c.cmd = "set_fact_sharing" /\ c.state = "done" => Stored(f, c.arg)'
    BY <1>1, <2>1, <2>2 DEF FactCalls, KeptBut, Stored
  <2> QED BY <2>2 DEF FactCalls
<1>3. Elsewhere(f)' => Elsewhere(f)
  <2> SUFFICES ASSUME NEW c \in All(inFlight'), Saving(c), c.arg.fact # f
               PROVE  c \in All(inFlight)
    BY DEF Elsewhere
  <2>1. Routed(c, ui')
    BY DEF Shape, Routing
  <2>2. c.arg.fact \in Facts /\ Touches(c) = {c.arg.fact}
    BY <2>1, RoutedFacts, TouchesFacts DEF Saving
  <2> QED BY <2>2 DEF SameOn, On
<1>4. ASSUME ui'.panel.view = "control", ui'.pane.selected = f
      PROVE  FactSent(f)' /\ (Shows(ui'.panel.fact) => FactShown(f)')
  <2>1. ui'.panel = ui.panel /\ ui.pane.selected = f
    BY <1>4
  <2>2. FactSent(f) /\ (Shows(ui.panel.fact) => FactShown(f))
    BY <1>1, <2>1, <1>4 DEF FactInv
  <2>3. FactSent(f)'
    BY <1>1, <2>1, <2>2 DEF FactSent
  <2>4. ASSUME Shows(ui'.panel.fact) PROVE FactShown(f)'
    BY <1>3, <2>1, <2>2, <2>4 DEF FactShown, KeptBut, Stored
  <2> QED BY <2>3, <2>4
<1> QED BY <1>2, <1>4

LEMMA DashboardAsBefore ==
    ASSUME DashboardInv, SameOn("dashboard"), SameOn("queue"), vault'.facts = vault.facts,
           vault'.pending = vault.pending, spent'.faults = 0 => spent.faults = 0,
           ui'.tab = "dashboard" => ui.tab = "dashboard" /\ ui'.pane.stats = ui.pane.stats
    PROVE  DashboardInv'
<1> SUFFICES ASSUME spent'.faults = 0, ui'.tab = "dashboard",
                    ~(\E c \in All(inFlight') : Bumps(c))
             PROVE  /\ Shows(ui'.pane.stats) => ui'.pane.stats.data = Now'
                    /\ \A c \in All(inFlight') :
                         c.cmd = "get_dashboard" /\ c.state = "done" => c.answer = Now'
  BY DEF DashboardInv
<1>1. \A c : (c.cmd = "get_dashboard" => "dashboard" \in Touches(c))
             /\ (Bumps(c) => "queue" \in Touches(c))
  BY TouchesFacts DEF Bumps
<1>2. ~(\E c \in All(inFlight) : Bumps(c))
  BY <1>1 DEF SameOn, On
<1>3. Now' = Now
  BY DEF Now
<1>4. \A c \in All(inFlight') : c.cmd = "get_dashboard" => c \in All(inFlight)
  BY <1>1 DEF SameOn, On
<1> QED BY <1>2, <1>3, <1>4 DEF DashboardInv

-----------------------------------------------------------------------------
(* The inductive invariant, and what a handler keeps of it beside its own. *)

ViewsIInv ==
    /\ Shape /\ AtMostOne
    /\ MintedInv /\ SharesInv /\ SourcesInv /\ TransfersInv /\ QueueInv
    /\ GraphInv /\ DashboardInv /\ LockInv /\ ConfigInv /\ HomeInv
    /\ ScopeInv /\ ControlInv /\ FactInv /\ ThreadInv /\ PersonaInv

LEMMA FrameKeeps ==
    ASSUME ViewsIInv, Shape', NEW rs, Frame(rs)
    PROVE  /\ "shares" \notin rs => MintedInv'
           /\ "shares" \notin rs /\ (ui.tab = "sharing" => ui'.pane = ui.pane) => SharesInv'
           /\ "sources" \notin rs /\ (ui.tab = "sources" => ui'.pane = ui.pane) => SourcesInv'
           /\ \/ ui.tab # "transfers"
              \/ "transfers" \notin rs /\ ui'.home.transfers = ui.home.transfers
              => TransfersInv'
           /\ "queue" \notin rs /\ (ui.tab = "queue" => ui'.pane = ui.pane) => QueueInv'
           /\ "graph" \notin rs /\ (ui.tab = "dashboard" => ui'.pane.scope = ui.pane.scope
                                                          /\ ui'.pane.graph = ui.pane.graph)
              => GraphInv'
           /\ \/ ui.tab # "dashboard"
              \/ rs \cap {"dashboard", "queue"} = {} /\ ui'.pane.stats = ui.pane.stats
              => DashboardInv'
           /\ "lock" \notin rs => LockInv'
           /\ "config" \notin rs
              /\ (InSettings => ui'.home.typed = ui.home.typed /\ ui'.home.saved = ui.home.saved
                    /\ ui'.home.model = ui.home.model /\ ui'.home.config = ui.home.config)
              => ConfigInv'
           /\ rs \cap {"config", "lock"} = {}
              /\ (InSettings => ui'.home.config = ui.home.config
                    /\ (ui'.home.error \/ ~ui.home.error))
              => HomeInv'
           /\ "scope" \notin rs /\ (ui'.panel.view = "scope" => ui'.panel = ui.panel) => ScopeInv'
           /\ Facts \cap rs = {} /\ (ui'.panel.view = "control" => ui'.panel = ui.panel)
              => ControlInv'
           /\ Facts \cap rs = {}
              /\ (ui'.panel.view = "control" =>
                    ui'.panel = ui.panel /\ ui'.pane.selected = ui.pane.selected)
              => FactInv'
           /\ "thread" \notin rs /\ (ui.tab = "persona" => ui'.pane = ui.pane) => ThreadInv'
           /\ rs \cap {"thread", "lock"} = {} /\ (ui.tab = "persona" => ui'.pane = ui.pane)
              => PersonaInv'
<1>1. \A r : r \notin rs => SameOn(r)
  BY DEF Frame, SameOn
<1>2. vault' = vault /\ spent'.faults = spent.faults /\ ui'.tab = ui.tab
  BY DEF Frame
<1>3. "shares" \notin rs => MintedInv'
  BY FrameMinted DEF ViewsIInv
<1>4. "shares" \notin rs /\ (ui.tab = "sharing" => ui'.pane = ui.pane) => SharesInv'
  BY <1>1, <1>2, SharesAsBefore DEF ViewsIInv
<1>5. "sources" \notin rs /\ (ui.tab = "sources" => ui'.pane = ui.pane) => SourcesInv'
  BY <1>1, <1>2, SourcesAsBefore DEF ViewsIInv
<1>6. ASSUME \/ ui.tab # "transfers"
             \/ "transfers" \notin rs /\ ui'.home.transfers = ui.home.transfers
      PROVE  TransfersInv'
  <2>1. CASE ui.tab # "transfers"
    BY <1>2, <2>1 DEF TransfersInv
  <2>2. CASE "transfers" \notin rs /\ ui'.home.transfers = ui.home.transfers
    BY <1>1, <1>2, <2>2, TransfersAsBefore DEF ViewsIInv
  <2> QED BY <1>6, <2>1, <2>2
<1>7. "queue" \notin rs /\ (ui.tab = "queue" => ui'.pane = ui.pane) => QueueInv'
  BY <1>1, <1>2, QueueKept DEF ViewsIInv
<1>8. ASSUME "graph" \notin rs, ui.tab = "dashboard" => ui'.pane.scope = ui.pane.scope
                                                    /\ ui'.pane.graph = ui.pane.graph
      PROVE  GraphInv'
  <2>1. On(inFlight, "graph") # {} => ui.tab = "dashboard"
    <3> SUFFICES ASSUME NEW c \in All(inFlight), "graph" \in Touches(c) PROVE ui.tab = "dashboard"
      BY DEF On
    <3>1. Routed(c, ui)
      BY DEF ViewsIInv, Shape, Routing
    <3>2. c.cmd = "get_graph"
      BY <3>1, Touched DEF Routed
    <3> QED BY <3>1, <3>2, RoutedFacts
  <2> QED BY <1>1, <1>2, <1>8, <2>1, GraphAsBefore DEF ViewsIInv
<1>9. ASSUME \/ ui.tab # "dashboard"
             \/ rs \cap {"dashboard", "queue"} = {} /\ ui'.pane.stats = ui.pane.stats
      PROVE  DashboardInv'
  <2>1. CASE ui.tab # "dashboard"
    BY <1>2, <2>1 DEF DashboardInv
  <2>2. CASE rs \cap {"dashboard", "queue"} = {} /\ ui'.pane.stats = ui.pane.stats
    <3>1. "dashboard" \notin rs /\ "queue" \notin rs
      BY <2>2
    <3> QED BY <1>1, <1>2, <2>2, <3>1, DashboardAsBefore DEF ViewsIInv
  <2> QED BY <1>9, <2>1, <2>2
<1>10. "lock" \notin rs => LockInv'
  BY <1>1, <1>2, LockAsBefore DEF ViewsIInv
<1>11. ASSUME "config" \notin rs,
              InSettings => ui'.home.typed = ui.home.typed /\ ui'.home.saved = ui.home.saved
                    /\ ui'.home.model = ui.home.model /\ ui'.home.config = ui.home.config
       PROVE  ConfigInv'
  BY <1>1, <1>2, <1>11, ConfigAsBefore DEF ViewsIInv, InSettings
<1>12. ASSUME rs \cap {"config", "lock"} = {},
              InSettings => ui'.home.config = ui.home.config /\ (ui'.home.error \/ ~ui.home.error)
       PROVE  HomeInv'
  <2>1. "config" \notin rs /\ "lock" \notin rs
    BY <1>12
  <2> QED BY <1>1, <1>2, <1>12, <2>1, HomeAsBefore DEF ViewsIInv, InSettings
<1>13. "scope" \notin rs /\ (ui'.panel.view = "scope" => ui'.panel = ui.panel) => ScopeInv'
  BY <1>1, <1>2, ScopeAsBefore DEF ViewsIInv
<1>14. ASSUME Facts \cap rs = {}, ui'.panel.view = "control" => ui'.panel = ui.panel
       PROVE  ControlInv'
  <2>1. \A f \in Facts : SameOn(f)
    BY <1>1, <1>14
  <2>2. OneSave(inFlight')
    BY DEF ViewsIInv, ControlInv, Frame
  <2> QED BY <1>14, <2>1, <2>2, ControlAsBefore DEF ViewsIInv
<1>15. ASSUME Facts \cap rs = {}, ui'.panel.view = "control" =>
                ui'.panel = ui.panel /\ ui'.pane.selected = ui.pane.selected
       PROVE  FactInv'
  <2>1. \A f \in Facts : SameOn(f)
    BY <1>1, <1>15
  <2> QED BY <1>2, <1>15, <2>1, FactAsBefore DEF ViewsIInv
<1>16. "thread" \notin rs /\ (ui.tab = "persona" => ui'.pane = ui.pane) => ThreadInv'
  BY <1>1, <1>2, ThreadAsBefore DEF ViewsIInv
<1>17. ASSUME rs \cap {"thread", "lock"} = {}, ui.tab = "persona" => ui'.pane = ui.pane
       PROVE  PersonaInv'
  <2>1. "thread" \notin rs /\ "lock" \notin rs
    BY <1>17
  <2> QED BY <1>1, <1>2, <1>17, <2>1, PersonaAsBefore DEF ViewsIInv
<1> QED BY <1>3, <1>4, <1>5, <1>6, <1>7, <1>8, <1>9, <1>10, <1>11, <1>12, <1>13, <1>14, <1>15,
           <1>16, <1>17

\* A handler of a pane other than the dashboard keeps what is not its own.
LEMMA PaneKeeps ==
    ASSUME ViewsIInv, NEW tab, NEW rs, PaneStep(tab, rs), Facts \cap rs = {},
           tab \notin {"dashboard", "transfers"}, rs \cap {"graph", "config", "lock"} = {}
    PROVE  /\ Shape' /\ AtMostOne'
           /\ TransfersInv' /\ GraphInv' /\ DashboardInv' /\ LockInv' /\ ConfigInv' /\ HomeInv'
           /\ ControlInv' /\ FactInv'
           /\ "scope" \notin rs => ScopeInv'
           /\ "shares" \notin rs => MintedInv'
           /\ "shares" \notin rs /\ tab # "sharing" => SharesInv'
           /\ "sources" \notin rs /\ tab # "sources" => SourcesInv'
           /\ "queue" \notin rs /\ tab # "queue" => QueueInv'
           /\ "thread" \notin rs /\ tab # "persona" => ThreadInv' /\ PersonaInv'
<1>1. /\ Shape' /\ AtMostOne' /\ Frame(rs) /\ ui.tab = tab
      /\ ui'.panel = ui.panel /\ ui'.home = ui.home
  BY DEF PaneStep
<1>2. "graph" \notin rs /\ "config" \notin rs /\ "lock" \notin rs
  OBVIOUS
<1>3. ui.panel.view # "control"
  <2>1. UiShape /\ NoView.view = "none"
    BY DEF ViewsIInv, Shape, NoView
  <2> QED BY <1>1, <2>1 DEF UiShape
<1>4. TransfersInv' /\ GraphInv' /\ DashboardInv' /\ LockInv'
  BY <1>1, <1>2, FrameKeeps
<1>5. ConfigInv' /\ HomeInv'
  <2>1. rs \cap {"config", "lock"} = {}
    BY <1>2
  <2> QED BY <1>1, <1>2, <2>1, FrameKeeps
<1>6. ControlInv' /\ FactInv'
  BY <1>1, <1>3, FrameKeeps
<1>7. /\ "scope" \notin rs => ScopeInv'
      /\ "shares" \notin rs => MintedInv'
      /\ "shares" \notin rs /\ tab # "sharing" => SharesInv'
      /\ "sources" \notin rs /\ tab # "sources" => SourcesInv'
      /\ "queue" \notin rs /\ tab # "queue" => QueueInv'
      /\ "thread" \notin rs /\ tab # "persona" => ThreadInv'
  BY <1>1, FrameKeeps
<1>8. ASSUME "thread" \notin rs, tab # "persona" PROVE PersonaInv'
  <2>1. rs \cap {"thread", "lock"} = {}
    BY <1>2, <1>8
  <2> QED BY <1>1, <1>8, <2>1, FrameKeeps
<1> QED BY <1>1, <1>4, <1>5, <1>6, <1>7, <1>8

LEMMA PageNames == \A f \in Facts : f \notin Resources
<1> QED BY ViewsAssumption DEF ViewsAssumption

LEMMA QueueKeeps ==
    ASSUME ViewsIInv, QueueStep
    PROVE  ViewsIInv'
<1> PICK rs : rs = {"queue"}
  OBVIOUS
<1>1. PaneStep("queue", rs) /\ QueueInv'
  BY QueueFrame, QueueOwn DEF ViewsIInv
<1>2. Facts \cap rs = {}
  BY PageNames DEF Resources
<1>3. /\ rs \cap {"graph", "config", "lock"} = {}
      /\ rs \cap {"scope", "shares", "sources", "thread"} = {}
  OBVIOUS
<1> QED BY <1>1, <1>2, <1>3, PaneKeeps DEF ViewsIInv

LEMMA SharingKeeps ==
    ASSUME ViewsIInv, SharingStep
    PROVE  ViewsIInv'
<1> PICK rs : rs = {"shares"}
  OBVIOUS
<1>1. PaneStep("sharing", rs) /\ SharesInv' /\ MintedInv'
  BY SharingFrame, SharesOwn, SharingMinted DEF ViewsIInv
<1>2. Facts \cap rs = {}
  BY PageNames DEF Resources
<1>3. rs \cap {"graph", "config", "lock"} = {} /\ rs \cap {"scope", "queue", "sources", "thread"} = {}
  OBVIOUS
<1> QED BY <1>1, <1>2, <1>3, PaneKeeps DEF ViewsIInv

LEMMA SourcesKeeps ==
    ASSUME ViewsIInv, SourcesStep
    PROVE  ViewsIInv'
<1> PICK rs : rs = {"sources", "queue", "transfers"}
  OBVIOUS
<1>1. PaneStep("sources", rs) /\ SourcesInv' /\ QueueInv'
  BY SourcesFrame, SourcesOwn, SourcesQueue DEF ViewsIInv
<1>2. Facts \cap rs = {}
  BY PageNames DEF Resources
<1>3. rs \cap {"graph", "config", "lock"} = {} /\ rs \cap {"scope", "shares", "thread"} = {}
  OBVIOUS
<1> QED BY <1>1, <1>2, <1>3, PaneKeeps DEF ViewsIInv

-----------------------------------------------------------------------------
(* The dialogs of the sources tab.                                         *)

\* Calls on one resource before and after a handler.
LEMMA OnMoved ==
    ASSUME Shape, NEW gone, NEW new, NEW out, Turn(gone, new, out), NEW r
    PROVE  /\ \A c \in On(inFlight', r) :
                c \in new
                \/ \E d \in On(inFlight, r) :
                     /\ c = Moved(d, gone) /\ Matters(c)
                     /\ c.cmd = d.cmd /\ c.arg = d.arg /\ c.state = d.state /\ c.answer = d.answer
                     /\ c.for = Heir(d, gone)
           /\ \A d \in On(inFlight, r) \ out :
                Matters(Moved(d, gone)) => Moved(d, gone) \in On(inFlight', r)
           /\ \A d \in On(inFlight, r) \ out : d.for \notin gone => d \in On(inFlight', r)
<1>1. \A d \in All(inFlight) : CallShape(d)
  BY ShapedCalls DEF Shape
<1>2. \A d \in All(inFlight) :
         /\ Moved(d, gone).cmd = d.cmd /\ Moved(d, gone).arg = d.arg
         /\ Moved(d, gone).state = d.state /\ Moved(d, gone).answer = d.answer
         /\ Moved(d, gone).for = Heir(d, gone) /\ Touches(Moved(d, gone)) = Touches(d)
  BY <1>1, MovedFacts
<1>3. ASSUME NEW c \in On(inFlight', r), c \notin new
      PROVE  \E d \in On(inFlight, r) :
                     /\ c = Moved(d, gone) /\ Matters(c)
                     /\ c.cmd = d.cmd /\ c.arg = d.arg /\ c.state = d.state /\ c.answer = d.answer
                     /\ c.for = Heir(d, gone)
  <2>1. PICK d \in All(inFlight) : c = Moved(d, gone) /\ Matters(c)
    BY <1>3 DEF On, Turn, Traffic
  <2>2. d \in On(inFlight, r)
    BY <1>2, <2>1 DEF On
  <2> QED BY <1>2, <2>1, <2>2
<1>4. \A d \in On(inFlight, r) \ out :
         Matters(Moved(d, gone)) => Moved(d, gone) \in On(inFlight', r)
  BY <1>2 DEF On, Turn, Traffic
<1>5. ASSUME NEW d \in On(inFlight, r) \ out, d.for \notin gone PROVE d \in On(inFlight', r)
  <2>1. d \in All(inFlight)
    BY DEF On
  <2>2. Moved(d, gone) = d /\ Matters(d)
    BY <1>5, <2>1, StaysSame
  <2> QED BY <1>4, <2>2
<1> QED BY <1>3, <1>4, <1>5

PanelOnly(p) == ui' = View(ui.tab, ui.pane, p, ui.home)
DialogFits(p) ==
    \/ p = NoView
    \/ p.view = "scope" /\ ScopeShape(p)
    \/ p.view = "connect" /\ ConnectShape(p)

\* The commands a handler of a dialog sends.
FromDialog(c, p) ==
    /\ c.for \in Awaiters(c.cmd)
    /\ \/ c.for = "panel" /\ PanelOfCmd(c.cmd) = p.view
       \/ c.for = "pane" /\ PaneOfCmd(c.cmd) = "sources"
    /\ Touches(c) \subseteq {"sources", "scope"}
    /\ c.cmd \notin {"get_fact", "set_fact_sharing"}

\* One handler of a dialog: it leaves the dialog p, if any.
DialogTurn(p, gone, new, out) ==
    /\ ui.tab = "sources" /\ PanelOnly(p) /\ DialogFits(p) /\ Turn(gone, new, out)
    /\ \/ gone = {} /\ (ui.panel.view = "none" \/ p.view = ui.panel.view)
       \/ gone = {"panel"}
    /\ \A c \in new : FromDialog(c, p)
    /\ \A c \in out : Touches(c) \subseteq {"sources", "scope"}

LEMMA DialogFrame ==
    ASSUME Shape, AtMostOne, NEW p, NEW gone, NEW new, NEW out, DialogTurn(p, gone, new, out)
    PROVE  /\ Shape' /\ AtMostOne' /\ Frame({"sources", "scope"})
           /\ ui'.pane = ui.pane /\ ui'.panel = p /\ ui'.home = ui.home
<1>1. /\ ui'.tab = ui.tab /\ ui'.pane = ui.pane /\ ui'.panel = p /\ ui'.home = ui.home
      /\ ui' = View(ui'.tab, ui'.pane, ui'.panel, ui'.home) /\ Turn(gone, new, out)
  BY DEF DialogTurn, PanelOnly, View
<1>2. UiShape /\ ui.tab = "sources" /\ ui.tab # "dashboard" /\ DialogFits(p)
  BY DEF Shape, DialogTurn
<1>3. ui.panel.view # "control"
  <2>1. NoView.view = "none"
    BY DEF NoView
  <2> QED BY <1>2, <2>1 DEF UiShape
<1>4. UiShape'
  BY <1>1, <1>2 DEF UiShape, DialogFits, InSettings, SettingsTabs
<1>5. MountsStay(gone, ui, ui')
  BY <1>1, <1>2, <1>3 DEF MountsStay, DialogTurn
<1>6. \A c \in new : Routed(c, ui')
  BY <1>1, <1>2 DEF Routed, Named, FromDialog, DialogTurn
<1>7. Shape' /\ AtMostOne'
  BY <1>1, <1>4, <1>5, <1>6, TurnShape
<1>8. ASSUME NEW c \in All(inFlight), c.for \in gone
      PROVE  Touches(c) \subseteq {"sources", "scope"}
  <2>1. c.for = "panel" /\ Routed(c, ui)
    BY <1>8 DEF DialogTurn, Shape, Routing
  <2>2. c.cmd \in {"get_session_scope", "connect_source", "set_session_scope"}
    <3>1. c.cmd \in {"set_fact_sharing", "get_session_scope", "connect_source", "set_session_scope"}
      BY <2>1 DEF Routed, Awaiters
    <3>2. c.cmd # "set_fact_sharing"
      BY <1>3, <2>1 DEF Routed, PanelOfCmd
    <3> QED BY <3>1, <3>2
  <2> QED BY <2>2, TouchesFacts
<1>9. \A r : r \notin {"sources", "scope"} => On(inFlight', r) = On(inFlight, r)
  <2> SUFFICES ASSUME NEW r, r \notin {"sources", "scope"} PROVE On(inFlight', r) = On(inFlight, r)
    OBVIOUS
  <2>1. \A c \in new \cup out : r \notin Touches(c)
    BY DEF DialogTurn, FromDialog
  <2>2. \A c \in All(inFlight) : c.for \in gone => r \notin Touches(c)
    BY <1>8
  <2> QED BY <1>1, <2>1, <2>2, Untouched
<1>10. Frame({"sources", "scope"})
  <2>1. \A c \in new : ~Saving(c)
    BY DEF DialogTurn, FromDialog, Saving
  <2> QED BY <1>1, <1>9, <2>1 DEF Frame, Turn, Traffic, Watched, SavesKept
<1> QED BY <1>1, <1>7, <1>10

DialogStep ==
    \/ Connect \/ CloseDialog \/ SaveScope
    \/ \E d \in {ScopeDialog, ConnectDialog} : OpenDialog(d)
    \/ \E x \in Projects : ToggleProject(x)
    \/ \E i \in DOMAIN inFlight : ConnectAnswered(i) \/ ScopeRead(i) \/ ScopeSaved(i)

\* What the handlers of the dialogs do.
ScopeAsked == Cmd("get_session_scope", Null, "panel")
ScopeSame(p) ==
    /\ ui.panel.view = "scope" /\ p.view = "scope" /\ p.shown = ui.panel.shown
    /\ p.selected = ui.panel.selected /\ p.toggled = ui.panel.toggled
DialogClosed(p, gone, new, out) ==
    /\ p = NoView /\ gone = {"panel"} /\ new = {}
    /\ \/ out = {}
       \/ \E i \in DOMAIN inFlight :
             inFlight[i].cmd = "set_session_scope" /\ out = {inFlight[i]}
DialogOpened(p, gone, new, out) ==
    /\ gone = {} /\ out = {}
    /\ \/ p.view = "connect" /\ new = {}
       \/ p.view = "scope" /\ ~p.shown /\ new = {ScopeAsked}
ConnectSent(p, gone, new, out) ==
    /\ gone = {} /\ out = {} /\ p.view = "connect"
    /\ \E c : /\ new = {c} /\ c.cmd = "connect_source" /\ c.for = "panel" /\ c.state = "sent"
ConnectOver(p, gone, new, out) ==
    /\ gone = {} /\ (p = ui.panel \/ p.view = "connect")
    /\ \E i \in DOMAIN inFlight :
          /\ inFlight[i].cmd = "connect_source" /\ out = {inFlight[i]}
          /\ new = {SourcesRead} \/ (new = {} /\ inFlight[i].state = "failed")
ScopeShown(p, gone, new, out) ==
    /\ gone = {} /\ new = {} /\ ui.panel.view = "scope" /\ p.view = "scope"
    /\ p.toggled = ui.panel.toggled
    /\ \E i \in DOMAIN inFlight :
          /\ inFlight[i].cmd = "get_session_scope" /\ out = {inFlight[i]}
          /\ IF inFlight[i].state = "done" THEN p.selected = inFlight[i].answer ELSE ScopeSame(p)
ScopeTicked(p, gone, new, out) ==
    /\ gone = {} /\ new = {} /\ out = {} /\ ui.panel.view = "scope" /\ ui.panel.shown
    /\ \E x : /\ p.selected = SymDiff(ui.panel.selected, {x})
              /\ p.toggled = ui.panel.toggled \cup {x}
ScopeSent(p, gone, new, out) ==
    /\ gone = {} /\ out = {} /\ ScopeSame(p) /\ ui.panel.shown
    /\ \E c : /\ new = {c} /\ c.cmd = "set_session_scope" /\ c.for = "panel" /\ c.state = "sent"
              /\ c.arg.roots = ui.panel.selected /\ c.arg.toggled = ui.panel.toggled
ScopeKept(p, gone, new, out) ==
    /\ gone = {} /\ new = {} /\ (p = ui.panel \/ ScopeSame(p))
    /\ \E i \in DOMAIN inFlight :
          inFlight[i].cmd = "set_session_scope" /\ out = {inFlight[i]}
DialogMove(p, gone, new, out) ==
    /\ DialogTurn(p, gone, new, out)
    /\ \/ DialogClosed(p, gone, new, out) \/ DialogOpened(p, gone, new, out)
       \/ ConnectSent(p, gone, new, out) \/ ConnectOver(p, gone, new, out)
       \/ ScopeShown(p, gone, new, out) \/ ScopeTicked(p, gone, new, out)
       \/ ScopeSent(p, gone, new, out) \/ ScopeKept(p, gone, new, out)
DialogMoves == \E p, gone, new, out : DialogMove(p, gone, new, out)

LEMMA InDialogFacts ==
    ASSUME Shape
    PROVE  /\ ui.panel.view \in {"scope", "connect"} => ui.tab = "sources"
           /\ ui.tab = "sources" => DialogFits(ui.panel)
           /\ ui.tab = "sources" /\ ~InDialog => ui.panel.view = "none"
<1>1. NoView.view = "none"
  BY DEF NoView
<1> QED BY <1>1 DEF Shape, UiShape, InDialog, DialogFits

LEMMA DialogCalls ==
    /\ \A c : c.cmd \in {"connect_source", "list_sources"} => Touches(c) = {"sources"}
    /\ \A c : c.cmd \in {"set_session_scope", "get_session_scope"} => Touches(c) = {"scope"}
<1> QED BY TouchesFacts

LEMMA CloseDialogMove ==
    ASSUME Shape, AtMostOne, CloseDialog
    PROVE  DialogMoves
<1>1. InDialog /\ Clicked(Closed, {"panel"}, <<>>)
  BY DEF CloseDialog
<1>2. ui.tab = "sources"
  BY <1>1, InDialogFacts DEF InDialog
<1>3. PICK tab, pane, panel, home : ui = View(tab, pane, panel, home)
  BY DEF Shape, UiShape
<1>4. Turn({"panel"}, {}, {}) /\ ui' = Closed
  BY <1>1, ClickNone
<1>5. PanelOnly(NoView)
  BY <1>3, <1>4 DEF PanelOnly, View, Closed
<1>6. DialogTurn(NoView, {"panel"}, {}, {})
  BY <1>2, <1>4, <1>5 DEF DialogTurn, DialogFits
<1>7. DialogClosed(NoView, {"panel"}, {}, {})
  BY DEF DialogClosed
<1> QED BY <1>6, <1>7 DEF DialogMoves, DialogMove

LEMMA OpenDialogMove ==
    ASSUME Shape, AtMostOne, NEW d \in {ScopeDialog, ConnectDialog}, OpenDialog(d)
    PROVE  DialogMoves
<1>1. ui.tab = "sources" /\ ui.panel.view = "none"
  BY InDialogFacts DEF OpenDialog, OnSources
<1>2. PICK tab, pane, panel, home : ui = View(tab, pane, panel, home)
  BY DEF Shape, UiShape
<1>3. /\ ScopeDialog.view = "scope" /\ ScopeShape(ScopeDialog) /\ ScopeDialog.shown = FALSE
      /\ ConnectDialog.view = "connect" /\ ConnectShape(ConnectDialog)
      /\ ScopeDialog # ConnectDialog
  BY DEF ScopeDialog, ConnectDialog, ScopeShape, ScopePanel, ConnectShape, ConnectPanel
<1>4. CASE d = ScopeDialog
  <2>1. Turn({}, {ScopeAsked}, {}) /\ ui' = [ui EXCEPT !.panel = d]
    BY <1>4, ClickOne DEF OpenDialog, ScopeAsked
  <2>2. PanelOnly(d)
    BY <1>2, <2>1 DEF PanelOnly, View
  <2>3. FromDialog(ScopeAsked, d)
    <3>1. ScopeAsked.cmd = "get_session_scope" /\ ScopeAsked.for = "panel"
      BY CmdFacts DEF ScopeAsked
    <3> QED BY <1>3, <1>4, <3>1, DialogCalls DEF FromDialog, Awaiters, PanelOfCmd
  <2>4. DialogTurn(d, {}, {ScopeAsked}, {})
    BY <1>1, <1>3, <1>4, <2>1, <2>2, <2>3 DEF DialogTurn, DialogFits
  <2>5. DialogOpened(d, {}, {ScopeAsked}, {})
    BY <1>3, <1>4 DEF DialogOpened
  <2> QED BY <2>4, <2>5 DEF DialogMoves, DialogMove
<1>5. CASE d = ConnectDialog
  <2>1. Clicked([ui EXCEPT !.panel = d], {}, <<>>)
    BY <1>3, <1>5 DEF OpenDialog
  <2>2. Turn({}, {}, {}) /\ ui' = [ui EXCEPT !.panel = d]
    BY <2>1, ClickNone
  <2>3. PanelOnly(d)
    BY <1>2, <2>2 DEF PanelOnly, View
  <2>4. DialogTurn(d, {}, {}, {})
    BY <1>1, <1>3, <1>5, <2>2, <2>3 DEF DialogTurn, DialogFits
  <2>5. DialogOpened(d, {}, {}, {})
    BY <1>3, <1>5 DEF DialogOpened
  <2> QED BY <2>4, <2>5 DEF DialogMoves, DialogMove
<1> QED BY <1>4, <1>5

LEMMA ConnectMove ==
    ASSUME Shape, AtMostOne, Connect
    PROVE  DialogMoves
<1>1. /\ ui.panel.view = "connect" /\ ui.tab = "sources"
      /\ Clicked([ui EXCEPT !.panel.saving = TRUE, !.panel.error = FALSE], {},
                 <<Cmd("connect_source", Null, "panel")>>)
  BY InDialogFacts DEF Connect
<1>2. PICK tab, pane, home, saving, note, error :
         ui = View(tab, pane, ConnectPanel(saving, note, error), home)
  BY <1>1, ConnectUi
<1>3. PICK c : c = Cmd("connect_source", Null, "panel")
  OBVIOUS
<1>4. c.cmd = "connect_source" /\ c.for = "panel" /\ c.state = "sent"
  BY <1>3, CmdFacts
<1>5. Turn({}, {c}, {}) /\ ui' = [ui EXCEPT !.panel.saving = TRUE, !.panel.error = FALSE]
  BY <1>1, <1>3, ClickOne
<1>6. PICK p : p = ConnectPanel(TRUE, note, FALSE)
  OBVIOUS
<1>7. ConnectShape(p) /\ PanelOnly(p) /\ p.view = "connect"
  BY <1>2, <1>5, <1>6 DEF ConnectShape, PanelOnly, View, ConnectPanel
<1>8. FromDialog(c, p)
  BY <1>4, <1>7, DialogCalls DEF FromDialog, Awaiters, PanelOfCmd
<1>9. DialogTurn(p, {}, {c}, {})
  BY <1>1, <1>5, <1>7, <1>8 DEF DialogTurn, DialogFits
<1>10. ConnectSent(p, {}, {c}, {})
  BY <1>4, <1>7 DEF ConnectSent
<1> QED BY <1>9, <1>10 DEF DialogMoves, DialogMove

LEMMA SaveScopeMove ==
    ASSUME Shape, AtMostOne, SaveScope
    PROVE  DialogMoves
<1> PICK arg : arg = [roots |-> ui.panel.selected, toggled |-> ui.panel.toggled]
  OBVIOUS
<1>1. /\ ui.panel.view = "scope" /\ ui.tab = "sources" /\ ui.panel.shown
      /\ Clicked([ui EXCEPT !.panel.saving = TRUE], {}, <<Cmd("set_session_scope", arg, "panel")>>)
  BY InDialogFacts DEF SaveScope
<1>2. PICK tab, pane, home, shown, selected, toggled, saving, error :
         ui = View(tab, pane, ScopePanel(shown, selected, toggled, saving, error), home)
  BY <1>1, ScopeUi
<1>3. PICK c : c = Cmd("set_session_scope", arg, "panel")
  OBVIOUS
<1>4. /\ c.cmd = "set_session_scope" /\ c.for = "panel" /\ c.state = "sent"
      /\ c.arg.roots = ui.panel.selected /\ c.arg.toggled = ui.panel.toggled
  BY <1>3, CmdFacts
<1>5. Turn({}, {c}, {}) /\ ui' = [ui EXCEPT !.panel.saving = TRUE]
  BY <1>1, <1>3, ClickOne
<1>6. PICK p : p = ScopePanel(shown, selected, toggled, TRUE, error)
  OBVIOUS
<1>7. ScopeShape(p) /\ PanelOnly(p) /\ ScopeSame(p)
  BY <1>2, <1>5, <1>6 DEF ScopeShape, PanelOnly, View, ScopePanel, ScopeSame
<1>8. FromDialog(c, p)
  BY <1>4, <1>7, DialogCalls DEF FromDialog, Awaiters, PanelOfCmd, ScopeSame
<1>9. DialogTurn(p, {}, {c}, {})
  BY <1>1, <1>5, <1>7, <1>8 DEF DialogTurn, DialogFits, ScopeSame
<1>10. ScopeSent(p, {}, {c}, {})
  BY <1>1, <1>4, <1>7 DEF ScopeSent
<1> QED BY <1>9, <1>10 DEF DialogMoves, DialogMove

LEMMA ToggleProjectMove ==
    ASSUME Shape, AtMostOne, NEW x, ToggleProject(x)
    PROVE  DialogMoves
<1>1. PICK to : to = SymDiff(ui.panel.selected, {x})
  OBVIOUS
<1>2. /\ ui.panel.view = "scope" /\ ui.tab = "sources" /\ ui.panel.shown
      /\ Clicked([ui EXCEPT !.panel.selected = to, !.panel.toggled = ui.panel.toggled \cup {x}],
                 {}, <<>>)
  <2>1. ui.panel.view = "scope" /\ ui.tab = "sources" /\ ui.panel.shown
    BY InDialogFacts DEF ToggleProject
  <2>2. Clicked([ui EXCEPT !.panel.selected = SymDiff(@, {x}),
                           !.panel.toggled = @ \cup {x}], {}, <<>>)
    BY DEF ToggleProject
  <2>3. PICK tab, pane, home, shown, selected, toggled, saving, error :
           ui = View(tab, pane, ScopePanel(shown, selected, toggled, saving, error), home)
    BY <2>1, ScopeUi
  <2>4. [ui EXCEPT !.panel.selected = SymDiff(@, {x}), !.panel.toggled = @ \cup {x}]
          = [ui EXCEPT !.panel.selected = to, !.panel.toggled = ui.panel.toggled \cup {x}]
    BY <1>1, <2>3 DEF View, ScopePanel
  <2> QED BY <2>1, <2>2, <2>4
<1>3. PICK tab, pane, home, shown, selected, toggled, saving, error :
         ui = View(tab, pane, ScopePanel(shown, selected, toggled, saving, error), home)
  BY <1>2, ScopeUi
<1>4. PICK tg : tg = ui.panel.toggled \cup {x}
  OBVIOUS
<1>5. Turn({}, {}, {}) /\ ui' = [ui EXCEPT !.panel.selected = to, !.panel.toggled = tg]
  BY <1>2, <1>4, ClickNone
<1>6. PICK p : p = ScopePanel(shown, to, tg, saving, error)
  OBVIOUS
<1>7. ScopeShape(p) /\ PanelOnly(p) /\ p.view = "scope" /\ p.selected = to /\ p.toggled = tg
  BY <1>3, <1>5, <1>6 DEF ScopeShape, PanelOnly, View, ScopePanel
<1>8. DialogTurn(p, {}, {}, {})
  BY <1>2, <1>5, <1>7 DEF DialogTurn, DialogFits
<1>9. ScopeTicked(p, {}, {}, {})
  BY <1>1, <1>2, <1>4, <1>7 DEF ScopeTicked
<1> QED BY <1>8, <1>9 DEF DialogMoves, DialogMove

LEMMA ConnectAnsweredMove ==
    ASSUME Shape, AtMostOne, NEW i, ConnectAnswered(i)
    PROVE  DialogMoves
<1>1. i \in DOMAIN inFlight /\ inFlight[i].cmd = "connect_source" /\ inFlight[i].state # "sent"
  BY DEF ConnectAnswered, Answers
<1>2. inFlight[i].for \in {"pane", "panel"}
  BY <1>1, CallFacts, RoutedFacts
<1>3. /\ ui.tab = "sources" \/ (inFlight[i].for = "panel" /\ ui.panel.view = "connect")
      /\ inFlight[i].for = "panel" => ui.panel.view = "connect"
  BY <1>1, <1>2, CallFacts, RoutedFacts DEF Routed, PanelOfCmd
<1>4. ui.tab = "sources"
  BY <1>3, InDialogFacts
<1>5. PICK note, fails : note = Done(i) /\ fails = ~Done(i)
  OBVIOUS
<1>6. PICK q : /\ q = IF inFlight[i].for # "panel" THEN ui.panel
                      ELSE [ui.panel EXCEPT !.saving = FALSE, !.note = note, !.error = fails]
               /\ Answered(i, [ui EXCEPT !.panel = q], {},
                           IF Done(i) THEN <<SourcesRead>> ELSE <<>>)
  BY <1>5 DEF ConnectAnswered, Asked, SourcesRead
<1>7. DialogFits(q) /\ (q = ui.panel \/ q.view = "connect")
      /\ (ui.panel.view = "none" \/ q.view = ui.panel.view)
  <2>1. CASE inFlight[i].for # "panel"
    BY <1>4, <1>6, <2>1, InDialogFacts
  <2>2. CASE inFlight[i].for = "panel"
    <3>1. PICK tab, pane, home, saving, nt, error :
             ui = View(tab, pane, ConnectPanel(saving, nt, error), home)
      BY <1>3, <2>2, ConnectUi
    <3>2. q = ConnectPanel(FALSE, note, fails)
      BY <1>6, <2>2, <3>1 DEF View, ConnectPanel
    <3> QED BY <1>3, <2>2, <3>2 DEF DialogFits, ConnectShape, ConnectPanel
  <2> QED BY <2>1, <2>2
<1>8. PICK tab, pane, panel, home : ui = View(tab, pane, panel, home)
  BY DEF Shape, UiShape
<1>9. CASE Done(i)
  <2>1. Answered(i, [ui EXCEPT !.panel = q], {}, <<SourcesRead>>)
    BY <1>6, <1>9
  <2>2. Turn({}, {SourcesRead}, {inFlight[i]}) /\ ui' = [ui EXCEPT !.panel = q]
    BY <1>1, <2>1, AnswerOne DEF SourcesRead
  <2>3. PanelOnly(q)
    BY <1>8, <2>2 DEF PanelOnly, View
  <2>4. FromDialog(SourcesRead, q)
    <3>1. SourcesRead.cmd = "list_sources" /\ SourcesRead.for = "pane"
      BY CmdFacts DEF SourcesRead
    <3> QED BY <3>1, DialogCalls DEF FromDialog, Awaiters, PaneOfCmd, SharesCmds
  <2>5. DialogTurn(q, {}, {SourcesRead}, {inFlight[i]})
    BY <1>1, <1>4, <1>7, <2>2, <2>3, <2>4, DialogCalls DEF DialogTurn
  <2>6. ConnectOver(q, {}, {SourcesRead}, {inFlight[i]})
    BY <1>1, <1>7 DEF ConnectOver
  <2> QED BY <2>5, <2>6 DEF DialogMoves, DialogMove
<1>10. CASE ~Done(i)
  <2>1. Answered(i, [ui EXCEPT !.panel = q], {}, <<>>)
    BY <1>6, <1>10
  <2>2. Turn({}, {}, {inFlight[i]}) /\ ui' = [ui EXCEPT !.panel = q]
    BY <1>1, <2>1, AnswerNone
  <2>3. PanelOnly(q)
    BY <1>8, <2>2 DEF PanelOnly, View
  <2>4. DialogTurn(q, {}, {}, {inFlight[i]})
    BY <1>1, <1>4, <1>7, <2>2, <2>3, DialogCalls DEF DialogTurn
  <2>5. inFlight[i].state = "failed"
    BY <1>1, <1>10, CallFacts DEF Done, CallShape
  <2>6. ConnectOver(q, {}, {}, {inFlight[i]})
    BY <1>1, <1>7, <2>5 DEF ConnectOver
  <2> QED BY <2>4, <2>6 DEF DialogMoves, DialogMove
<1> QED BY <1>9, <1>10

LEMMA ScopeReadMove ==
    ASSUME Shape, AtMostOne, NEW i, ScopeRead(i)
    PROVE  DialogMoves
<1>1. i \in DOMAIN inFlight /\ inFlight[i].cmd = "get_session_scope" /\ inFlight[i].state # "sent"
  BY DEF ScopeRead, Answers
<1>2. ui.panel.view = "scope" /\ ui.tab = "sources"
  BY <1>1, CallFacts, RoutedFacts, InDialogFacts
<1>3. PICK tab, pane, home, shown, selected, toggled, saving, error :
         ui = View(tab, pane, ScopePanel(shown, selected, toggled, saving, error), home)
  BY <1>2, ScopeUi
<1>4. PICK read : read = inFlight[i].answer
  OBVIOUS
<1>5. CASE Done(i)
  <2>1. Answered(i, [ui EXCEPT !.panel.shown = TRUE, !.panel.selected = read], {}, <<>>)
    BY <1>4, <1>5 DEF ScopeRead
  <2>2. /\ Turn({}, {}, {inFlight[i]})
        /\ ui' = [ui EXCEPT !.panel.shown = TRUE, !.panel.selected = read]
    BY <1>1, <2>1, AnswerNone
  <2>3. PICK p : p = ScopePanel(TRUE, read, toggled, saving, error)
    OBVIOUS
  <2>4. /\ ScopeShape(p) /\ PanelOnly(p) /\ p.view = "scope" /\ p.selected = read
        /\ p.toggled = ui.panel.toggled
    BY <1>3, <2>2, <2>3 DEF ScopeShape, PanelOnly, View, ScopePanel
  <2>5. DialogTurn(p, {}, {}, {inFlight[i]})
    BY <1>1, <1>2, <2>2, <2>4, DialogCalls DEF DialogTurn, DialogFits
  <2>6. ScopeShown(p, {}, {}, {inFlight[i]})
    BY <1>1, <1>2, <1>4, <1>5, <2>4 DEF ScopeShown, Done
  <2> QED BY <2>5, <2>6 DEF DialogMoves, DialogMove
<1>6. CASE ~Done(i)
  <2>1. Answered(i, [ui EXCEPT !.panel.error = TRUE], {}, <<>>)
    BY <1>6 DEF ScopeRead
  <2>2. Turn({}, {}, {inFlight[i]}) /\ ui' = [ui EXCEPT !.panel.error = TRUE]
    BY <1>1, <2>1, AnswerNone
  <2>3. PICK p : p = ScopePanel(shown, selected, toggled, saving, TRUE)
    OBVIOUS
  <2>4. ScopeShape(p) /\ PanelOnly(p) /\ ScopeSame(p)
    BY <1>2, <1>3, <2>2, <2>3 DEF ScopeShape, PanelOnly, View, ScopePanel, ScopeSame
  <2>5. DialogTurn(p, {}, {}, {inFlight[i]})
    BY <1>1, <1>2, <2>2, <2>4, DialogCalls DEF DialogTurn, DialogFits, ScopeSame
  <2>6. ScopeShown(p, {}, {}, {inFlight[i]})
    BY <1>1, <1>2, <1>6, <2>4 DEF ScopeShown, Done, ScopeSame
  <2> QED BY <2>5, <2>6 DEF DialogMoves, DialogMove
<1> QED BY <1>5, <1>6

LEMMA ScopeSavedMove ==
    ASSUME Shape, AtMostOne, NEW i, ScopeSaved(i)
    PROVE  DialogMoves
<1>1. i \in DOMAIN inFlight /\ inFlight[i].cmd = "set_session_scope" /\ inFlight[i].state # "sent"
  BY DEF ScopeSaved, Answers
<1>2. /\ inFlight[i].for \in {"pane", "panel"}
      /\ inFlight[i].for = "panel" => ui.panel.view = "scope"
      /\ ui.tab = "sources"
  BY <1>1, CallFacts, RoutedFacts, InDialogFacts
<1>3. PICK tab, pane, panel, home : ui = View(tab, pane, panel, home)
  BY DEF Shape, UiShape
<1>4. CASE Done(i) /\ ui.panel.view = "scope"
  <2>1. Answered(i, Closed, {"panel"}, <<>>)
    BY <1>4 DEF ScopeSaved
  <2>2. Turn({"panel"}, {}, {inFlight[i]}) /\ ui' = Closed
    BY <1>1, <2>1, AnswerNone
  <2>3. PanelOnly(NoView)
    BY <1>3, <2>2 DEF PanelOnly, View, Closed
  <2>4. DialogTurn(NoView, {"panel"}, {}, {inFlight[i]})
    BY <1>1, <1>2, <2>2, <2>3, DialogCalls DEF DialogTurn, DialogFits
  <2>5. DialogClosed(NoView, {"panel"}, {}, {inFlight[i]})
    BY <1>1 DEF DialogClosed
  <2> QED BY <2>4, <2>5 DEF DialogMoves, DialogMove
<1>5. CASE ~(Done(i) /\ ui.panel.view = "scope") /\ ~Done(i) /\ inFlight[i].for = "panel"
  <2>1. Answered(i, [ui EXCEPT !.panel.saving = FALSE, !.panel.error = TRUE], {}, <<>>)
    BY <1>5 DEF ScopeSaved
  <2>2. /\ Turn({}, {}, {inFlight[i]})
        /\ ui' = [ui EXCEPT !.panel.saving = FALSE, !.panel.error = TRUE]
    BY <1>1, <2>1, AnswerNone
  <2>3. PICK tb, pn, hm, shown, selected, toggled, saving, error :
           ui = View(tb, pn, ScopePanel(shown, selected, toggled, saving, error), hm)
    BY <1>2, <1>5, ScopeUi
  <2>4. PICK p : p = ScopePanel(shown, selected, toggled, FALSE, TRUE)
    OBVIOUS
  <2>5. ScopeShape(p) /\ PanelOnly(p) /\ ScopeSame(p)
    BY <1>2, <2>2, <2>3, <2>4 DEF ScopeShape, PanelOnly, View, ScopePanel, ScopeSame
  <2>6. DialogTurn(p, {}, {}, {inFlight[i]})
    BY <1>1, <1>2, <2>2, <2>5, DialogCalls DEF DialogTurn, DialogFits, ScopeSame
  <2>7. ScopeKept(p, {}, {}, {inFlight[i]})
    BY <1>1, <2>5 DEF ScopeKept
  <2> QED BY <2>6, <2>7 DEF DialogMoves, DialogMove
<1>6. CASE ~(Done(i) /\ ui.panel.view = "scope") /\ ~(~Done(i) /\ inFlight[i].for = "panel")
  <2>1. Answered(i, ui, {}, <<>>)
    BY <1>6 DEF ScopeSaved
  <2>2. Turn({}, {}, {inFlight[i]}) /\ ui' = ui
    BY <1>1, <2>1, AnswerNone
  <2>3. PanelOnly(ui.panel)
    BY <1>3, <2>2 DEF PanelOnly, View
  <2>4. DialogTurn(ui.panel, {}, {}, {inFlight[i]})
    BY <1>1, <1>2, <2>2, <2>3, DialogCalls, InDialogFacts DEF DialogTurn
  <2>5. ScopeKept(ui.panel, {}, {}, {inFlight[i]})
    BY <1>1 DEF ScopeKept
  <2> QED BY <2>4, <2>5 DEF DialogMoves, DialogMove
<1> QED BY <1>4, <1>5, <1>6

LEMMA DialogStepMoves ==
    ASSUME Shape, AtMostOne, DialogStep
    PROVE  DialogMoves
<1> QED BY CloseDialogMove, OpenDialogMove, ConnectMove, SaveScopeMove, ToggleProjectMove,
           ConnectAnsweredMove, ScopeReadMove, ScopeSavedMove DEF DialogStep

\* A dialog keeps what differs from the stored scope to the projects that were ticked.
LEMMA ScopeOwn ==
    ASSUME Shape, AtMostOne, ScopeInv, DialogMoves
    PROVE  ScopeInv'
<1>1. SUFFICES ASSUME Alone("scope")' PROVE ScopeInv'
  BY DEF ScopeInv
<1>2. PICK p, gone, new, out : DialogMove(p, gone, new, out)
  BY DEF DialogMoves
<1>3. /\ DialogTurn(p, gone, new, out) /\ Turn(gone, new, out) /\ ui'.panel = p
      /\ Frame({"sources", "scope"})
  BY <1>2, DialogFrame DEF DialogMove, DialogTurn
<1>4. "scope" \notin seen'.overlapped /\ Alone("scope") /\ vault' = vault
  BY <1>1, <1>3 DEF Frame, Alone
<1> PICK C : C = On(inFlight, "scope")
  OBVIOUS
<1>5. /\ \A c \in C : c.cmd = "get_session_scope" /\ c.state = "done" => c.answer = vault.scope
      /\ \A c \in C : c.cmd = "set_session_scope" /\ c.state = "sent" =>
           SymDiff(c.arg.roots, vault.scope) \subseteq c.arg.toggled
      /\ ui.panel.view = "scope" /\ ui.panel.shown =>
           /\ SymDiff(ui.panel.selected, vault.scope) \subseteq ui.panel.toggled
           /\ \A c \in C : c.cmd = "set_session_scope" =>
                SymDiff(ui.panel.selected, c.arg.roots) \subseteq ui.panel.toggled
  BY <1>4 DEF ScopeInv
<1>6. ASSUME gone = {}, \A c \in new \cup out : "scope" \notin Touches(c) PROVE SameOn("scope")
  BY <1>3, <1>6, Untouched DEF SameOn, Frame
<1>7. NoView.view = "none"
  BY DEF NoView
<1>8. ScopeAsked.cmd = "get_session_scope" /\ ScopeAsked.state = "sent"
  BY CmdFacts DEF ScopeAsked
<1>9. \A S, T : SymDiff(S, S) \subseteq T
  BY DEF SymDiff
<1>10. CASE DialogClosed(p, gone, new, out)
  <2>1. \A c \in On(inFlight', "scope") :
           \E d \in C : c.cmd = d.cmd /\ c.arg = d.arg /\ c.state = d.state /\ c.answer = d.answer
    BY <1>3, <1>10, OnMoved DEF DialogClosed
  <2> QED BY <1>3, <1>4, <1>5, <1>7, <1>10, <2>1 DEF ScopeInv, DialogClosed
<1>11. CASE DialogOpened(p, gone, new, out)
  <2>1. CASE p.view = "connect" /\ new = {}
    <3>1. SameOn("scope")
      BY <1>6, <1>11, <2>1 DEF DialogOpened
    <3> QED BY <1>3, <1>4, <2>1, <3>1, ScopeAsBefore
  <2>2. CASE p.view = "scope" /\ ~p.shown /\ new = {ScopeAsked}
    <3>1. On(inFlight', "scope") = {ScopeAsked}
      BY <1>3, <1>4, <1>8, <2>2, DialogCalls, TouchedNew
    <3> QED BY <1>3, <1>8, <2>2, <3>1 DEF ScopeInv
  <2> QED BY <1>11, <2>1, <2>2 DEF DialogOpened
<1>12. CASE ConnectSent(p, gone, new, out)
  <2>1. SameOn("scope")
    BY <1>6, <1>12, DialogCalls DEF ConnectSent
  <2> QED BY <1>3, <1>4, <1>12, <2>1, ScopeAsBefore DEF ConnectSent
<1>13. CASE ConnectOver(p, gone, new, out)
  <2>1. SourcesRead.cmd = "list_sources"
    BY CmdFacts DEF SourcesRead
  <2>2. PICK d : /\ d.cmd = "connect_source" /\ out = {d}
                 /\ new = {SourcesRead} \/ (new = {} /\ d.state = "failed")
    BY <1>13 DEF ConnectOver
  <2>3. SameOn("scope")
    BY <1>6, <1>13, <2>1, <2>2, DialogCalls DEF ConnectOver
  <2> QED BY <1>3, <1>4, <1>13, <2>3, ScopeAsBefore DEF ConnectOver
<1>14. CASE ScopeShown(p, gone, new, out)
  <2>1. PICK i \in DOMAIN inFlight :
           /\ inFlight[i].cmd = "get_session_scope" /\ out = {inFlight[i]}
           /\ IF inFlight[i].state = "done" THEN p.selected = inFlight[i].answer ELSE ScopeSame(p)
    BY <1>14 DEF ScopeShown
  <2>2. inFlight[i] \in C /\ "scope" \in Touches(inFlight[i])
    BY <2>1, DialogCalls DEF On, All
  <2>3. On(inFlight', "scope") = {}
    BY <1>3, <1>4, <1>14, <2>1, <2>2, TouchedNew DEF ScopeShown
  <2>4. CASE inFlight[i].state = "done"
    <3>1. p.selected = vault.scope
      BY <1>5, <2>1, <2>2, <2>4
    <3> QED BY <1>3, <1>4, <1>9, <2>3, <3>1 DEF ScopeInv
  <2>5. CASE inFlight[i].state # "done"
    BY <1>3, <1>4, <1>5, <2>1, <2>3, <2>5 DEF ScopeInv, ScopeSame
  <2> QED BY <2>4, <2>5
<1>15. CASE ScopeTicked(p, gone, new, out)
  <2>1. PICK x : p.selected = SymDiff(ui.panel.selected, {x}) /\ p.toggled = ui.panel.toggled \cup {x}
    BY <1>15 DEF ScopeTicked
  <2>2. On(inFlight', "scope") = C /\ ui.panel.view = "scope" /\ ui.panel.shown
    BY <1>6, <1>15 DEF ScopeTicked, SameOn
  <2>5. \A R : SymDiff(ui.panel.selected, R) \subseteq ui.panel.toggled =>
                 SymDiff(p.selected, R) \subseteq p.toggled
    BY <2>1 DEF SymDiff
  <2>3. SymDiff(p.selected, vault.scope) \subseteq p.toggled
    BY <1>5, <2>2, <2>5
  <2>4. \A c \in C : c.cmd = "set_session_scope" =>
           SymDiff(p.selected, c.arg.roots) \subseteq p.toggled
    BY <1>5, <2>2, <2>5
  <2> QED BY <1>3, <1>4, <1>5, <2>2, <2>3, <2>4 DEF ScopeInv
<1>16. CASE ScopeSent(p, gone, new, out)
  <2>1. PICK c : /\ new = {c} /\ c.cmd = "set_session_scope" /\ c.for = "panel" /\ c.state = "sent"
                 /\ c.arg.roots = ui.panel.selected /\ c.arg.toggled = ui.panel.toggled
    BY <1>16 DEF ScopeSent
  <2>2. On(inFlight', "scope") = {c}
    BY <1>3, <1>4, <2>1, DialogCalls, TouchedNew
  <2>3. /\ ScopeSame(p) /\ ui.panel.view = "scope" /\ ui.panel.shown
    BY <1>16 DEF ScopeSent, ScopeSame
  <2>4. SymDiff(ui.panel.selected, vault.scope) \subseteq ui.panel.toggled
    BY <1>5, <2>3
  <2> QED BY <1>3, <1>4, <1>9, <2>1, <2>2, <2>3, <2>4 DEF ScopeInv, ScopeSame
<1>17. CASE ScopeKept(p, gone, new, out)
  <2>1. PICK i \in DOMAIN inFlight : inFlight[i].cmd = "set_session_scope" /\ out = {inFlight[i]}
    BY <1>17 DEF ScopeKept
  <2>2. On(inFlight', "scope") = {}
    BY <1>3, <1>4, <1>17, <2>1, DialogCalls, TouchedNew DEF ScopeKept
  <2> QED BY <1>3, <1>4, <1>5, <1>17, <2>2 DEF ScopeInv, ScopeSame, ScopeKept
<1> QED BY <1>2, <1>10, <1>11, <1>12, <1>13, <1>14, <1>15, <1>16, <1>17 DEF DialogMove

\* The sources are read again whichever dialog is open by then, or none.
LEMMA SourcesBehind ==
    ASSUME Shape, AtMostOne, SourcesInv, DialogMoves
    PROVE  SourcesInv'
<1>1. SUFFICES ASSUME Alone("sources")' PROVE SourcesInv'
  BY DEF SourcesInv
<1>2. PICK p, gone, new, out : DialogMove(p, gone, new, out)
  BY DEF DialogMoves
<1>3. /\ DialogTurn(p, gone, new, out) /\ Turn(gone, new, out) /\ ui.tab = "sources"
      /\ ui'.pane = ui.pane /\ ui'.tab = ui.tab /\ Frame({"sources", "scope"})
  BY <1>2, DialogFrame DEF DialogMove, DialogTurn, Frame
<1>4. "sources" \notin seen'.overlapped /\ Alone("sources") /\ vault' = vault
  BY <1>1, <1>3 DEF Frame, Alone
<1> PICK C : C = On(inFlight, "sources")
  OBVIOUS
<1> PICK D : D = On(inFlight', "sources")
  OBVIOUS
<1>5. /\ \A c \in C : c.cmd = "list_sources" /\ c.state = "done" => c.answer = vault.connected
      /\ \A c \in C : c.for # "nobody"
      /\ /\ \A c \in C : c.cmd # "list_sources" /\ c.state # "done"
         /\ Shows(ui.pane.status) /\ ~ui.pane.error
         => ui.pane.status.data = vault.connected
  BY <1>3, <1>4 DEF SourcesInv
<1>6. ASSUME /\ \A c \in D : c.cmd = "list_sources" /\ c.state = "done" => c.answer = vault.connected
             /\ \A c \in D : c.for # "nobody"
             /\ (\A c \in D : c.cmd # "list_sources" /\ c.state # "done") =>
                   \A c \in C : c.cmd # "list_sources" /\ c.state # "done"
      PROVE  SourcesInv'
  BY <1>3, <1>4, <1>5, <1>6 DEF SourcesInv
<1>7. ASSUME gone = {}, \A c \in new \cup out : "sources" \notin Touches(c) PROVE SourcesInv'
  <2>1. SameOn("sources")
    BY <1>3, <1>7, Untouched DEF SameOn, Frame
  <2> QED BY <1>3, <1>4, <2>1, SourcesAsBefore
<1>8. /\ SourcesRead.cmd = "list_sources" /\ SourcesRead.state = "sent" /\ SourcesRead.for = "pane"
      /\ ScopeAsked.cmd = "get_session_scope"
  BY CmdFacts DEF SourcesRead, ScopeAsked
<1>9. CASE DialogClosed(p, gone, new, out)
  <2>1. gone = {"panel"} /\ new = {} /\ \A d \in out : d.cmd = "set_session_scope"
    BY <1>9 DEF DialogClosed
  <2>2. \A c \in D :
           \E d \in C : /\ c.cmd = d.cmd /\ c.arg = d.arg /\ c.state = d.state
                        /\ c.answer = d.answer /\ c.for = Heir(d, gone)
    BY <1>3, <2>1, OnMoved
  <2>3. \A d \in C : d.cmd \in {"connect_source", "list_sources", "disconnect_source"}
    BY Touched DEF On, Shape, Routing, Routed
  <2>4. ASSUME NEW d \in C
        PROVE  /\ Heir(d, gone) # "nobody" /\ d \notin out
               /\ \E c \in D : c.cmd = d.cmd /\ c.state = d.state
    <3>1. d \in All(inFlight) /\ Routed(d, ui) /\ CallShape(d)
      BY ShapedCalls DEF On, Shape, Routing
    <3>2. Heir(d, gone) # "nobody"
      <4>1. CASE d.for = "panel"
        <5>1. d.cmd = "connect_source"
          BY <2>3, <3>1, <4>1 DEF Routed, Awaiters
        <5> QED BY <2>1, <4>1, <5>1, HeirStays
      <4>2. CASE d.for # "panel"
        BY <1>5, <2>1, <4>2 DEF Heir
      <4> QED BY <4>1, <4>2
    <3>3. /\ Moved(d, gone).cmd = d.cmd /\ Moved(d, gone).state = d.state
          /\ Moved(d, gone).for = Heir(d, gone)
      BY <3>1, MovedFacts
    <3>4. Matters(Moved(d, gone))
      BY <3>2, <3>3 DEF Matters
    <3>5. d \notin out
      BY <2>1, <2>3
    <3>6. Moved(d, gone) \in D
      BY <1>3, <3>4, <3>5, OnMoved
    <3> QED BY <3>2, <3>3, <3>5, <3>6
  <2> QED BY <1>5, <1>6, <2>2, <2>4
<1>10. CASE DialogOpened(p, gone, new, out)
  BY <1>7, <1>8, <1>10, DialogCalls DEF DialogOpened
<1>11. CASE ConnectSent(p, gone, new, out)
  <2>1. PICK c : /\ new = {c} /\ c.cmd = "connect_source" /\ c.for = "panel" /\ c.state = "sent"
    BY <1>11 DEF ConnectSent
  <2>2. D = {c} /\ C \subseteq {c}
    BY <1>3, <1>4, <1>11, <2>1, DialogCalls, TouchedNew, TouchedBefore DEF ConnectSent
  <2> QED BY <1>6, <2>1, <2>2
<1>12. CASE ConnectOver(p, gone, new, out)
  <2>1. PICK i \in DOMAIN inFlight :
           /\ inFlight[i].cmd = "connect_source" /\ out = {inFlight[i]}
           /\ new = {SourcesRead} \/ (new = {} /\ inFlight[i].state = "failed")
    BY <1>12 DEF ConnectOver
  <2>2. CASE new = {SourcesRead}
    <3>1. D = {SourcesRead}
      BY <1>3, <1>4, <1>8, <2>2, DialogCalls, TouchedNew
    <3> QED BY <1>6, <1>8, <3>1
  <2>3. CASE new = {} /\ inFlight[i].state = "failed"
    <3>1. D = {} /\ C \subseteq {inFlight[i]}
      BY <1>3, <1>4, <1>12, <2>1, <2>3, DialogCalls, TouchedNew, TouchedBefore DEF ConnectOver
    <3> QED BY <1>6, <2>1, <2>3, <3>1
  <2> QED BY <2>1, <2>2, <2>3
<1>13. CASE ScopeShown(p, gone, new, out)
  BY <1>7, <1>13, DialogCalls DEF ScopeShown
<1>14. CASE ScopeTicked(p, gone, new, out)
  BY <1>7, <1>14 DEF ScopeTicked
<1>15. CASE ScopeSent(p, gone, new, out)
  BY <1>7, <1>15, DialogCalls DEF ScopeSent
<1>16. CASE ScopeKept(p, gone, new, out)
  BY <1>7, <1>16, DialogCalls DEF ScopeKept
<1> QED BY <1>2, <1>9, <1>10, <1>11, <1>12, <1>13, <1>14, <1>15, <1>16 DEF DialogMove

LEMMA DialogKeeps ==
    ASSUME ViewsIInv, DialogStep
    PROVE  ViewsIInv'
<1> PICK rs : rs = {"sources", "scope"}
  OBVIOUS
<1>1. DialogMoves
  BY DialogStepMoves DEF ViewsIInv
<1>2. PICK p, gone, new, out : DialogTurn(p, gone, new, out)
  BY <1>1 DEF DialogMoves, DialogMove
<1>3. /\ Shape' /\ AtMostOne' /\ Frame(rs)
      /\ ui'.pane = ui.pane /\ ui'.panel = p /\ ui'.home = ui.home
  BY <1>2, DialogFrame DEF ViewsIInv
<1>4. ScopeInv' /\ SourcesInv'
  BY <1>1, ScopeOwn, SourcesBehind DEF ViewsIInv
<1>5. ui.tab = "sources" /\ p.view # "control"
  BY <1>2 DEF DialogTurn, DialogFits, NoView
<1>6. Facts \cap rs = {}
  BY PageNames DEF Resources
<1>7. /\ "shares" \notin rs /\ "transfers" \notin rs /\ "queue" \notin rs /\ "graph" \notin rs
      /\ "lock" \notin rs /\ "config" \notin rs /\ "thread" \notin rs
      /\ rs \cap {"config", "lock"} = {} /\ rs \cap {"thread", "lock"} = {}
  OBVIOUS
<1>8. MintedInv' /\ SharesInv' /\ TransfersInv' /\ QueueInv' /\ GraphInv'
  BY <1>3, <1>5, <1>7, FrameKeeps
<1>9. DashboardInv' /\ LockInv' /\ ConfigInv' /\ HomeInv'
  BY <1>3, <1>5, <1>7, FrameKeeps
<1>10. ControlInv' /\ FactInv' /\ ThreadInv' /\ PersonaInv'
  BY <1>3, <1>5, <1>6, <1>7, FrameKeeps
<1> QED BY <1>3, <1>4, <1>8, <1>9, <1>10 DEF ViewsIInv

-----------------------------------------------------------------------------
(* Threads.                                                                *)

LEMMA SeqOver ==
    ASSUME NEW T, NEW n \in Nat, NEW s \in [1..n -> T]
    PROVE  s \in Seq(T) /\ Len(s) = n
<1> QED OBVIOUS

LEMMA TextsFacts ==
    ASSUME NEW t \in Threads
    PROVE  /\ Len(t) \in Nat /\ Len(Texts(t)) = Len(t) /\ DOMAIN t = 1..Len(t)
           /\ Texts(t) = [i \in 1..Len(t) |-> [by |-> t[i].by, text |-> t[i].text]]
           /\ Texts(t) \in Seq([by : {"user", "persona"}, text : {"earlier", "asked", "reply"}])
<1>1. Len(t) \in Nat /\ DOMAIN t = 1..Len(t) /\ \A i \in 1..Len(t) : t[i] \in Turns
  BY DEF Threads
<1>2. Texts(t) = [i \in 1..Len(t) |-> [by |-> t[i].by, text |-> t[i].text]]
  BY <1>1 DEF Texts
<1> PICK T : T = [by : {"user", "persona"}, text : {"earlier", "asked", "reply"}]
  OBVIOUS
<1>3. \A i \in 1..Len(t) : [by |-> t[i].by, text |-> t[i].text] \in T
  BY <1>1 DEF Turns
<1>4. Texts(t) \in [1..Len(t) -> T]
  BY <1>2, <1>3
<1>5. Texts(t) \in Seq(T) /\ Len(Texts(t)) = Len(t)
  <2> PICK X : X = Texts(t)
    OBVIOUS
  <2>1. X \in [1..Len(t) -> T]
    BY <1>4
  <2>2. X \in Seq(T) /\ Len(X) = Len(t)
    BY <1>1, <2>1, SeqOver
  <2> QED BY <2>2
<1> QED BY <1>1, <1>2, <1>5

\* A thread extends another when its first turns have the same texts.
LEMMA ExtendsFacts ==
    ASSUME NEW s \in Threads, NEW t \in Threads
    PROVE  Extends(s, t) <=> /\ Len(s) <= Len(t)
                             /\ \A i \in 1..Len(s) : Texts(s)[i] = Texts(t)[i]
<1> PICK S, T : S = Texts(s) /\ T = Texts(t)
  OBVIOUS
<1> PICK R : R = [by : {"user", "persona"}, text : {"earlier", "asked", "reply"}]
  OBVIOUS
<1>1. Len(S) = Len(s) /\ Len(T) = Len(t) /\ S \in Seq(R) /\ T \in Seq(R)
  BY TextsFacts
<1>2. Extends(s, t) <=> Len(S) <= Len(T) /\ SubSeq(S, 1, Len(S)) = SubSeq(T, 1, Len(S))
  BY DEF Extends, IsPrefix
<1>3. ASSUME Len(S) <= Len(T)
      PROVE  SubSeq(S, 1, Len(S)) = SubSeq(T, 1, Len(S)) <=> \A i \in 1..Len(S) : S[i] = T[i]
  <2> PICK n \in Nat : n = Len(S)
    BY <1>1
  <2>1. SubSeq(S, 1, n) = [i \in 1..n |-> S[i]]
    BY <1>1
  <2>2. SubSeq(T, 1, n) = [i \in 1..n |-> T[i]]
    BY <1>1, <1>3
  <2> QED BY <2>1, <2>2
<1> QED BY <1>1, <1>2, <1>3

\* What t extends is extended by u, too.
Grown(t, u) == \A s \in Threads : Extends(s, t) => Extends(s, u)

LEMMA ExtendsSelf ==
    ASSUME NEW t \in Threads
    PROVE  Extends(t, t)
<1>1. Len(t) \in Nat
  BY TextsFacts
<1> QED BY <1>1, ExtendsFacts

LEMMA GrownBy ==
    ASSUME NEW t \in Threads, NEW u \in Threads, Extends(t, u)
    PROVE  Grown(t, u)
<1> SUFFICES ASSUME NEW s \in Threads, Extends(s, t) PROVE Extends(s, u)
  BY DEF Grown
<1>1. Len(s) \in Nat /\ Len(t) \in Nat /\ Len(u) \in Nat
  BY TextsFacts
<1>2. Len(s) <= Len(t) /\ \A i \in 1..Len(s) : Texts(s)[i] = Texts(t)[i]
  BY ExtendsFacts
<1>3. Len(t) <= Len(u) /\ \A i \in 1..Len(t) : Texts(t)[i] = Texts(u)[i]
  BY ExtendsFacts
<1>4. Len(s) <= Len(u) /\ \A i \in 1..Len(s) : Texts(s)[i] = Texts(u)[i]
  BY <1>1, <1>2, <1>3
<1> QED BY <1>4, ExtendsFacts

LEMMA MessageFacts ==
    Message("user", "asked") \in Turns /\ Message("persona", "reply") \in Turns
      /\ Message("user", "earlier") \in Turns
<1> QED BY DEF Message, Turns

LEMMA AppendGrows ==
    ASSUME NEW t \in Threads, NEW m \in Turns
    PROVE  Append(t, m) \in Threads /\ Grown(t, Append(t, m))
<1> PICK u : u = Append(t, m)
  OBVIOUS
<1>1. u \in Threads /\ Len(u) = Len(t) + 1 /\ Len(t) \in Nat
      /\ \A i \in 1..Len(t) : u[i] = t[i]
  BY DEF Threads
<1> PICK n \in Nat : n = Len(t)
  BY <1>1
<1>2. \A i \in 1..n : Texts(t)[i] = Texts(u)[i]
  <2>1. Texts(t) = [i \in 1..n |-> [by |-> t[i].by, text |-> t[i].text]]
    BY TextsFacts
  <2>2. Texts(u) = [i \in 1..(n + 1) |-> [by |-> u[i].by, text |-> u[i].text]]
    BY <1>1, TextsFacts
  <2>3. \A i \in 1..n : i \in 1..(n + 1)
    OBVIOUS
  <2> QED BY <1>1, <2>1, <2>2, <2>3
<1>3. Extends(t, u)
  <2>1. Len(t) <= Len(u)
    BY <1>1
  <2> QED BY <1>1, <1>2, <2>1, ExtendsFacts
<1> QED BY <1>1, <1>3, GrownBy

\* Marking the last turn as failed keeps its text.
Marked(t) == [n \in DOMAIN t |-> IF n < Len(t) THEN t[n] ELSE [t[n] EXCEPT !.error = TRUE]]
LEMMA MarkGrows ==
    ASSUME NEW t \in Threads
    PROVE  Marked(t) \in Threads /\ Grown(t, Marked(t))
<1> PICK u : u = Marked(t)
  OBVIOUS
<1>1. Len(t) \in Nat /\ DOMAIN t = 1..Len(t) /\ \A i \in 1..Len(t) : t[i] \in Turns
  BY DEF Threads
<1>2. \A i \in 1..Len(t) : /\ [t[i] EXCEPT !.error = TRUE] \in Turns
                           /\ [t[i] EXCEPT !.error = TRUE].by = t[i].by
                           /\ [t[i] EXCEPT !.error = TRUE].text = t[i].text
  BY <1>1 DEF Turns
<1>3. u = [n \in 1..Len(t) |-> IF n < Len(t) THEN t[n] ELSE [t[n] EXCEPT !.error = TRUE]]
  BY <1>1 DEF Marked
<1>4. \A i \in 1..Len(t) : u[i] \in Turns /\ u[i].by = t[i].by /\ u[i].text = t[i].text
  <2> TAKE i \in 1..Len(t)
  <2>1. u[i] = t[i] \/ u[i] = [t[i] EXCEPT !.error = TRUE]
    BY <1>3
  <2> QED BY <1>1, <1>2, <2>1
<1>5. u \in Threads /\ Len(u) = Len(t)
  <2>1. u \in [1..Len(t) -> Turns]
    BY <1>3, <1>4
  <2> QED BY <1>1, <2>1 DEF Threads
<1>6. \A i \in 1..Len(t) : Texts(t)[i] = Texts(u)[i]
  BY <1>1, <1>4, <1>5, TextsFacts
<1>7. Extends(t, u)
  <2>1. Len(t) <= Len(u)
    BY <1>1, <1>5
  <2> QED BY <1>5, <1>6, <2>1, ExtendsFacts
<1> QED BY <1>5, <1>7, GrownBy

-----------------------------------------------------------------------------
(* The persona chat.                                                       *)

PersonaStep ==
    \/ Send \/ StartNew
    \/ \E i \in DOMAIN inFlight : HistoryLoaded(i) \/ Replied(i)

ChatCall == Cmd("persona_chat", Null, "pane")
SaveOf(p) == Cmd("persona_history_save", [thread |-> p.messages, fresh |-> p.fresh], "nobody")
Saves(p) == IF p.loaded THEN {SaveOf(p)} ELSE {}

\* What the handlers of the chat do: go on with the thread, or show the one that was read.
WentOn(p, out) ==
    /\ p.loaded = ui.pane.loaded
    /\ p.fresh = TRUE \/ (p.fresh = ui.pane.fresh /\ Grown(ui.pane.messages, p.messages))
    /\ \A d \in out : d.cmd = "persona_chat"
WasRead(p, out) ==
    /\ p.loaded = TRUE
    /\ \E i \in DOMAIN inFlight :
          /\ inFlight[i].cmd = "persona_history_load" /\ out = {inFlight[i]}
          /\ p.fresh = TRUE \/ (inFlight[i].state = "done" /\ p.messages = inFlight[i].answer)
PersonaMove(p, new, out) ==
    /\ ui.tab = "persona" /\ PaneOnly(p) /\ PersonaShape(p) /\ p.messages \in Threads
    /\ Turn({}, new, out) /\ (new = Saves(p) \/ new = {ChatCall} \cup Saves(p))
    /\ WentOn(p, out) \/ WasRead(p, out)
PersonaMoves == \E p, new, out : PersonaMove(p, new, out)

LEMMA SaveFacts ==
    ASSUME NEW p
    PROVE  /\ CallShape(SaveOf(p)) /\ SaveOf(p).cmd = "persona_history_save"
           /\ SaveOf(p).for = "nobody" /\ SaveOf(p).state = "sent"
           /\ SaveOf(p).arg.thread = p.messages /\ SaveOf(p).arg.fresh = p.fresh
           /\ Touches(SaveOf(p)) = {"thread"} /\ "thread" \in Touches(SaveOf(p))
           /\ CallShape(ChatCall) /\ ChatCall.cmd = "persona_chat" /\ ChatCall.for = "pane"
           /\ Touches(ChatCall) = {} /\ "thread" \notin Touches(ChatCall)
<1> PICK arg : arg = [thread |-> p.messages, fresh |-> p.fresh]
  OBVIOUS
<1>1. /\ CallShape(SaveOf(p)) /\ SaveOf(p).cmd = "persona_history_save"
      /\ SaveOf(p).for = "nobody" /\ SaveOf(p).state = "sent" /\ SaveOf(p).arg = arg
  BY CmdFacts DEF SaveOf
<1>2. CallShape(ChatCall) /\ ChatCall.cmd = "persona_chat" /\ ChatCall.for = "pane"
  BY CmdFacts DEF ChatCall
<1>3. Touches(SaveOf(p)) = {"thread"} /\ Touches(ChatCall) = {}
  BY <1>1, <1>2, TouchesFacts
<1> QED BY <1>1, <1>2, <1>3

LEMMA Pair ==
    ASSUME NEW c, NEW d
    PROVE  <<c>> \o <<d>> = <<c, d>>
<1> PICK S : S = {c, d}
  OBVIOUS
<1>1. <<c>> \in Seq(S) /\ <<d>> \in Seq(S) /\ Len(<<c>>) = 1 /\ Len(<<d>>) = 1
  OBVIOUS
<1>2. Len(<<c>> \o <<d>>) = 2 /\ (<<c>> \o <<d>>)[1] = c /\ (<<c>> \o <<d>>)[2] = d
  BY <1>1
<1>3. <<c>> \o <<d>> \in Seq(S)
  BY <1>1
<1> PICK w : w = <<c>> \o <<d>>
  OBVIOUS
<1>4. w \in Seq(S) /\ Len(w) = 2 /\ w[1] = c /\ w[2] = d
  BY <1>2, <1>3
<1>5. PICK v : v = <<c, d>>
  OBVIOUS
<1>6. v \in Seq(S) /\ Len(v) = 2 /\ v[1] = c /\ v[2] = d
  BY <1>5
<1>7. \A i \in 1..2 : w[i] = v[i]
  <2>1. \A i \in 1..2 : i = 1 \/ i = 2
    OBVIOUS
  <2> QED BY <1>4, <1>6, <2>1
<1>8. w = v
  BY <1>4, <1>6, <1>7, SeqEqual
<1> QED BY <1>5, <1>8

LEMMA PersistedTurn ==
    ASSUME Shape, AtMostOne, NEW p
    PROVE  /\ Clicked(Chat(p), {}, Persisted(p)) => Turn({}, Saves(p), {}) /\ ui' = Chat(p)
           /\ Clicked(Chat(p), {}, <<ChatCall>> \o Persisted(p)) =>
                Turn({}, {ChatCall} \cup Saves(p), {}) /\ ui' = Chat(p)
           /\ \A i \in DOMAIN inFlight : Answered(i, Chat(p), {}, Persisted(p)) =>
                Turn({}, Saves(p), {inFlight[i]}) /\ ui' = Chat(p)
<1>1. Sendable(Persisted(p)) /\ All(Persisted(p)) = Saves(p)
  <2>1. CASE p.loaded
    <3>1. Persisted(p) = <<SaveOf(p)>>
      BY <2>1 DEF Persisted, SaveOf
    <3> QED BY <2>1, <3>1, SaveFacts, OneSendable DEF Saves
  <2>2. CASE ~p.loaded
    <3>1. Persisted(p) = <<>>
      BY <2>2 DEF Persisted
    <3> QED BY <2>2, <3>1, NoneSendable DEF Saves
  <2> QED BY <2>1, <2>2
<1> PICK sent : sent = <<ChatCall>> \o Persisted(p)
  OBVIOUS
<1>2. Sendable(sent) /\ All(sent) = {ChatCall} \cup Saves(p)
  <2>1. CASE p.loaded
    <3>1. Persisted(p) = <<SaveOf(p)>>
      BY <2>1 DEF Persisted, SaveOf
    <3>2. sent = <<ChatCall, SaveOf(p)>>
      BY <3>1, Pair
    <3>3. ~Saving(ChatCall) /\ Touches(ChatCall) \cap Touches(SaveOf(p)) = {}
      BY SaveFacts DEF Saving
    <3>4. Sendable(sent) /\ All(sent) = {ChatCall, SaveOf(p)}
      <4> PICK c, d : c = ChatCall /\ d = SaveOf(p)
        OBVIOUS
      <4>1. CallShape(c) /\ CallShape(d) /\ Touches(c) \cap Touches(d) = {} /\ ~Saving(c)
        BY <3>3, SaveFacts
      <4>2. Sendable(<<c, d>>) /\ All(<<c, d>>) = {c, d}
        BY <4>1, TwoSendable
      <4> QED BY <3>2, <4>2
    <3> QED BY <2>1, <3>4 DEF Saves
  <2>2. CASE ~p.loaded
    <3>1. Persisted(p) = <<>>
      BY <2>2 DEF Persisted
    <3>2. sent = <<ChatCall>>
      BY <3>1
    <3> QED BY <2>2, <3>2, SaveFacts, OneSendable DEF Saves
  <2> QED BY <2>1, <2>2
<1>3. Clicked(Chat(p), {}, Persisted(p)) => Turn({}, Saves(p), {}) /\ ui' = Chat(p)
  BY <1>1, ClickTurn
<1>4. Clicked(Chat(p), {}, sent) => Turn({}, {ChatCall} \cup Saves(p), {}) /\ ui' = Chat(p)
  BY <1>2, ClickTurn
<1>5. \A i \in DOMAIN inFlight : Answered(i, Chat(p), {}, Persisted(p)) =>
        Turn({}, Saves(p), {inFlight[i]}) /\ ui' = Chat(p)
  BY <1>1, AnswerTurn
<1> QED BY <1>3, <1>4, <1>5

LEMMA ChatOnly ==
    ASSUME Shape, NEW p, ui' = Chat(p)
    PROVE  PaneOnly(p)
<1>1. PICK tab, pane, panel, home : ui = View(tab, pane, panel, home)
  BY DEF Shape, UiShape
<1> QED BY <1>1 DEF PaneOnly, View, Chat

LEMMA SendMove ==
    ASSUME Shape, AtMostOne, ThreadShape, Send
    PROVE  PersonaMoves
<1>1. ui.tab = "persona"
  BY DEF Send
<1>2. PICK tab, panel, home, messages, sending, loaded, fresh :
         ui = View(tab, PersonaPane(messages, sending, loaded, fresh), panel, home)
  BY <1>1, PersonaUi
<1>3. PICK more : more = Append(messages, Message("user", "asked"))
  OBVIOUS
<1>4. PICK p : p = PersonaPane(more, TRUE, loaded, fresh)
  OBVIOUS
<1>5. p = [ui.pane EXCEPT !.messages = Append(@, Message("user", "asked")), !.sending = TRUE]
  <2>1. ui.pane = PersonaPane(messages, sending, loaded, fresh) /\ ui.pane.messages = messages
    BY <1>2 DEF View, PersonaPane
  <2>2. p = [ui.pane EXCEPT !.messages = more, !.sending = TRUE]
    <3> PICK x : x = [ui.pane EXCEPT !.messages = more, !.sending = TRUE]
      OBVIOUS
    <3>1. x = [view |-> "persona", messages |-> more, sending |-> TRUE, loaded |-> loaded,
               fresh |-> fresh]
      BY <1>2 DEF PersonaPane, View
    <3> QED BY <1>4, <3>1 DEF PersonaPane
  <2> QED BY <1>3, <2>1, <2>2
<1>6. Clicked(Chat(p), {}, <<ChatCall>> \o Persisted(p))
  BY <1>5 DEF Send, ChatCall
<1>7. Turn({}, {ChatCall} \cup Saves(p), {}) /\ ui' = Chat(p)
  BY <1>6, PersistedTurn
<1>8. messages \in Threads /\ ui.pane.messages = messages
  BY <1>1, <1>2 DEF ThreadShape, View, PersonaPane
<1>9. more \in Threads /\ Grown(messages, more)
  BY <1>3, <1>8, MessageFacts, AppendGrows
<1>10. /\ PersonaShape(p) /\ p.messages = more /\ p.loaded = ui.pane.loaded
       /\ p.fresh = ui.pane.fresh
  BY <1>2, <1>4 DEF PersonaShape, PersonaPane, View
<1>11. WentOn(p, {})
  BY <1>8, <1>9, <1>10 DEF WentOn
<1>12. PersonaMove(p, {ChatCall} \cup Saves(p), {})
  BY <1>1, <1>7, <1>9, <1>10, <1>11, ChatOnly DEF PersonaMove
<1> QED BY <1>12 DEF PersonaMoves

LEMMA StartNewMove ==
    ASSUME Shape, AtMostOne, StartNew
    PROVE  PersonaMoves
<1>1. ui.tab = "persona"
  BY DEF StartNew
<1>2. PICK tab, panel, home, messages, sending, loaded, fresh :
         ui = View(tab, PersonaPane(messages, sending, loaded, fresh), panel, home)
  BY <1>1, PersonaUi
<1>3. PICK p : p = PersonaPane(<<>>, sending, loaded, TRUE)
  OBVIOUS
<1>4. p = [ui.pane EXCEPT !.messages = <<>>, !.fresh = TRUE]
  <2>1. ui.pane = PersonaPane(messages, sending, loaded, fresh)
    BY <1>2 DEF View
  <2> PICK x : x = [ui.pane EXCEPT !.messages = <<>>, !.fresh = TRUE]
    OBVIOUS
  <2>2. x = [view |-> "persona", messages |-> <<>>, sending |-> sending, loaded |-> loaded,
             fresh |-> TRUE]
    BY <1>2 DEF PersonaPane, View
  <2> QED BY <1>3, <2>2 DEF PersonaPane
<1>5. Clicked(Chat(p), {}, Persisted(p))
  BY <1>4 DEF StartNew
<1>6. Turn({}, Saves(p), {}) /\ ui' = Chat(p)
  BY <1>5, PersistedTurn
<1>7. <<>> \in Threads
  BY DEF Threads
<1>8. /\ PersonaShape(p) /\ p.messages \in Threads /\ p.loaded = ui.pane.loaded
      /\ p.fresh = TRUE
  BY <1>2, <1>3, <1>7 DEF PersonaShape, PersonaPane, View
<1>9. WentOn(p, {})
  BY <1>8 DEF WentOn
<1>10. PersonaMove(p, Saves(p), {})
  BY <1>1, <1>6, <1>8, <1>9, ChatOnly DEF PersonaMove
<1> QED BY <1>10 DEF PersonaMoves

LEMMA RepliedMove ==
    ASSUME Shape, AtMostOne, ThreadShape, NEW i, Replied(i)
    PROVE  PersonaMoves
<1>1. i \in DOMAIN inFlight /\ inFlight[i].cmd = "persona_chat" /\ inFlight[i].state # "sent"
  BY DEF Replied, Answers
<1>2. ui.tab = "persona"
  BY <1>1, CallFacts, RoutedFacts
<1>3. PICK tab, panel, home, messages, sending, loaded, fresh :
         ui = View(tab, PersonaPane(messages, sending, loaded, fresh), panel, home)
  BY <1>2, PersonaUi
<1>4. messages \in Threads /\ ui.pane.messages = messages
  BY <1>2, <1>3 DEF ThreadShape, View, PersonaPane
<1>5. PICK more : more = IF Done(i) THEN Append(messages, Message("persona", "reply"))
                         ELSE Marked(messages)
  OBVIOUS
<1>6. more \in Threads /\ Grown(messages, more)
  BY <1>4, <1>5, MessageFacts, AppendGrows, MarkGrows
<1>7. PICK p : p = PersonaPane(more, FALSE, loaded, fresh)
  OBVIOUS
<1>8. Answered(i, Chat(p), {}, Persisted(p))
  <2>1. p = [ui.pane EXCEPT !.messages = more, !.sending = FALSE]
    <3> PICK x : x = [ui.pane EXCEPT !.messages = more, !.sending = FALSE]
      OBVIOUS
    <3>2. x = [view |-> "persona", messages |-> more, sending |-> FALSE, loaded |-> loaded,
               fresh |-> fresh]
      BY <1>3 DEF PersonaPane, View
    <3> QED BY <1>7, <3>2 DEF PersonaPane
  <2>2. more = IF Done(i) THEN Append(ui.pane.messages, Message("persona", "reply"))
               ELSE [n \in DOMAIN ui.pane.messages |->
                       IF n < Len(ui.pane.messages) THEN ui.pane.messages[n]
                       ELSE [ui.pane.messages[n] EXCEPT !.error = TRUE]]
    BY <1>4, <1>5 DEF Marked
  <2> QED BY <2>1, <2>2 DEF Replied
<1>9. Turn({}, Saves(p), {inFlight[i]}) /\ ui' = Chat(p)
  BY <1>1, <1>8, PersistedTurn
<1>10. /\ PersonaShape(p) /\ p.messages = more /\ p.loaded = ui.pane.loaded
       /\ p.fresh = ui.pane.fresh
  BY <1>3, <1>7 DEF PersonaShape, PersonaPane, View
<1>11. WentOn(p, {inFlight[i]})
  BY <1>1, <1>4, <1>6, <1>10 DEF WentOn
<1>12. PersonaMove(p, Saves(p), {inFlight[i]})
  BY <1>2, <1>6, <1>9, <1>10, <1>11, ChatOnly DEF PersonaMove
<1> QED BY <1>12 DEF PersonaMoves

LEMMA HistoryLoadedMove ==
    ASSUME Shape, AtMostOne, ThreadShape, NEW i, HistoryLoaded(i)
    PROVE  PersonaMoves
<1>1. /\ i \in DOMAIN inFlight /\ inFlight[i].cmd = "persona_history_load"
      /\ inFlight[i].state # "sent"
  BY DEF HistoryLoaded, Answers
<1>2. ui.tab = "persona"
  BY <1>1, CallFacts, RoutedFacts
<1>3. PICK tab, panel, home, messages, sending, loaded, fresh :
         ui = View(tab, PersonaPane(messages, sending, loaded, fresh), panel, home)
  BY <1>2, PersonaUi
<1>4. messages \in Threads /\ ui.pane.messages = messages
  BY <1>2, <1>3 DEF ThreadShape, View, PersonaPane
<1>5. Done(i) => inFlight[i].answer \in Threads
  BY <1>1, TouchesFacts DEF ThreadShape, On, All, Done
<1>6. PICK read, lost : /\ read = IF Done(i) THEN inFlight[i].answer ELSE messages
                        /\ lost = ~Done(i)
  OBVIOUS
<1>7. PICK p : p = PersonaPane(read, sending, TRUE, lost)
  OBVIOUS
<1>8. p = [ui.pane EXCEPT !.messages = IF Done(i) THEN inFlight[i].answer ELSE @,
                          !.loaded = TRUE, !.fresh = ~Done(i)]
  <2>1. p = [ui.pane EXCEPT !.messages = read, !.loaded = TRUE, !.fresh = lost]
    <3> PICK x : x = [ui.pane EXCEPT !.messages = read, !.loaded = TRUE, !.fresh = lost]
      OBVIOUS
    <3>2. x = [view |-> "persona", messages |-> read, sending |-> sending, loaded |-> TRUE,
               fresh |-> lost]
      BY <1>3 DEF PersonaPane, View
    <3> QED BY <1>7, <3>2 DEF PersonaPane
  <2>2. read = IF Done(i) THEN inFlight[i].answer ELSE ui.pane.messages
    BY <1>4, <1>6
  <2> QED BY <1>6, <2>1, <2>2
<1>9. Answered(i, Chat(p), {}, Persisted(p))
  BY <1>8 DEF HistoryLoaded
<1>10. Turn({}, Saves(p), {inFlight[i]}) /\ ui' = Chat(p)
  BY <1>1, <1>9, PersistedTurn
<1>11. /\ PersonaShape(p) /\ p.messages = read /\ p.loaded = TRUE /\ p.fresh = lost
       /\ read \in Threads
  BY <1>4, <1>5, <1>6, <1>7 DEF PersonaShape, PersonaPane
<1>12. WasRead(p, {inFlight[i]})
  BY <1>1, <1>6, <1>11 DEF WasRead, Done
<1>13. PersonaMove(p, Saves(p), {inFlight[i]})
  BY <1>2, <1>10, <1>11, <1>12, ChatOnly DEF PersonaMove
<1> QED BY <1>13 DEF PersonaMoves

LEMMA PersonaStepMoves ==
    ASSUME Shape, AtMostOne, ThreadShape, PersonaStep
    PROVE  PersonaMoves
<1> QED BY SendMove, StartNewMove, RepliedMove, HistoryLoadedMove DEF PersonaStep

LEMMA PersonaFrame ==
    ASSUME Shape, AtMostOne, NEW p, NEW new, NEW out, PersonaMove(p, new, out)
    PROVE  /\ PaneStep("persona", {"thread"}) /\ ui'.pane = p /\ ui'.tab = "persona"
           /\ p.loaded => /\ SaveOf(p) \in new
                          /\ \A c \in new : "thread" \in Touches(c) => c = SaveOf(p)
           /\ ~p.loaded => On(inFlight', "thread") = On(inFlight, "thread")
<1> PICK rs : rs = {"thread"}
  OBVIOUS
<1>1. /\ ui.tab = "persona" /\ PaneOnly(p) /\ PersonaShape(p) /\ Turn({}, new, out)
      /\ (new = Saves(p) \/ new = {ChatCall} \cup Saves(p))
      /\ WentOn(p, out) \/ WasRead(p, out)
  BY DEF PersonaMove
<1>2. \A c \in new : c = ChatCall \/ c = SaveOf(p)
  BY <1>1 DEF Saves
<1>3. \A d \in out : d.cmd \in {"persona_chat", "persona_history_load"}
  BY <1>1 DEF WentOn, WasRead
<1>4. \A d \in out : Touches(d) \subseteq rs
  BY <1>3, TouchesFacts
<1>5. \A c \in new : FromPane(c) /\ Touches(c) \subseteq rs
  <2>1. FromPane(ChatCall) /\ FromPane(SaveOf(p))
    BY <1>1, SaveFacts DEF FromPane, Awaiters, PaneOfCmd, Reads, SharesCmds
  <2> QED BY <1>2, <2>1, SaveFacts
<1>6. PaneStep("persona", rs)
  <2>1. \A c \in new \cup out : Touches(c) \subseteq rs
    BY <1>4, <1>5
  <2> QED BY <1>1, <1>5, <2>1, PaneTurn DEF PaneFits
<1>7. p.loaded => SaveOf(p) \in new
  BY <1>1 DEF Saves
<1>8. \A c \in new : "thread" \in Touches(c) => c = SaveOf(p)
  BY <1>2, SaveFacts
<1>9. ASSUME ~p.loaded PROVE On(inFlight', "thread") = On(inFlight, "thread")
  <2>1. \A c \in new : "thread" \notin Touches(c)
    BY <1>1, <1>9, SaveFacts DEF Saves
  <2>2. \A d \in out : "thread" \notin Touches(d)
    <3>1. \A d \in out : d.cmd = "persona_chat"
      BY <1>1, <1>9 DEF WentOn, WasRead
    <3> QED BY <3>1, TouchesFacts
  <2> QED BY <1>1, <2>1, <2>2, Untouched
<1>10. ui'.pane = p /\ ui'.tab = "persona"
  BY <1>1 DEF PaneOnly, View
<1> QED BY <1>6, <1>7, <1>8, <1>9, <1>10

\* Every change of a loaded thread is on its way to the vault, which it extends unless the
\* owner started anew.
LEMMA ThreadOwn ==
    ASSUME Shape, AtMostOne, ThreadInv, NEW p, NEW new, NEW out, PersonaMove(p, new, out)
    PROVE  ThreadInv'
<1>1. /\ ui.tab = "persona" /\ ui'.pane = p /\ ui'.tab = "persona" /\ vault' = vault
      /\ Turn({}, new, out) /\ p.messages \in Threads
  BY PersonaFrame DEF PersonaMove, PaneStep, Frame
<1>2. ThreadShape /\ vault.thread \in Threads /\ ui.pane.messages \in Threads
  BY <1>1 DEF ThreadInv, ThreadShape
<1>3. ThreadShape'
  <2>1. ASSUME NEW c \in On(inFlight', "thread")
        PROVE  /\ c.cmd = "persona_history_load" /\ c.state = "done" => c.answer \in Threads
               /\ c.cmd = "persona_history_save" => c.arg.thread \in Threads
    <3>1. CASE c \in new
      <4>1. c = ChatCall \/ c = SaveOf(p)
        BY <3>1 DEF PersonaMove, Saves
      <4> QED BY <1>1, <4>1, SaveFacts
    <3>2. CASE c \notin new
      <4>1. \E d \in On(inFlight, "thread") :
               c.cmd = d.cmd /\ c.arg = d.arg /\ c.state = d.state /\ c.answer = d.answer
        BY <1>1, <3>2, OnMoved
      <4> QED BY <1>2, <4>1 DEF ThreadShape
    <3> QED BY <3>1, <3>2
  <2> QED BY <1>1, <1>2, <2>1 DEF ThreadShape
<1>4. ASSUME Alone("thread")' PROVE ThreadKept'
  <2>1. "thread" \notin seen'.overlapped /\ Alone("thread")
    BY <1>1, <1>4, OnlyGrows DEF Alone
  <2> PICK C : C = On(inFlight, "thread")
    OBVIOUS
  <2>2. /\ \A c \in C :
             /\ c.cmd = "persona_history_load" /\ c.state = "done" => c.answer = vault.thread
             /\ c.cmd = "persona_history_save" => c.arg.fresh \/ Extends(vault.thread, c.arg.thread)
        /\ ui.pane.loaded => ui.pane.fresh \/ Extends(vault.thread, ui.pane.messages)
    BY <1>1, <2>1 DEF ThreadInv, ThreadKept
  <2>3. CASE p.loaded
    <3>1. SaveOf(p) \in new /\ \A c \in new : "thread" \in Touches(c) => c = SaveOf(p)
      BY <2>3, PersonaFrame
    <3>2. On(inFlight', "thread") = {SaveOf(p)}
      <4>1. \E c \in new \cup out : "thread" \in Touches(c)
        BY <3>1, SaveFacts
      <4>2. On(inFlight', "thread") = {c \in new : "thread" \in Touches(c)}
        BY <1>1, <2>1, <4>1, TouchedNew
      <4> QED BY <3>1, <4>2, SaveFacts
    <3>3. p.fresh \/ Extends(vault.thread, p.messages)
      <4>1. CASE WentOn(p, out)
        BY <1>2, <2>2, <2>3, <4>1 DEF WentOn, Grown
      <4>2. CASE WasRead(p, out)
        <5>1. PICK i \in DOMAIN inFlight :
                 /\ inFlight[i].cmd = "persona_history_load"
                 /\ p.fresh = TRUE \/ (inFlight[i].state = "done" /\ p.messages = inFlight[i].answer)
          BY <4>2 DEF WasRead
        <5>2. inFlight[i] \in C
          BY <5>1, TouchesFacts DEF On, All
        <5> QED BY <1>2, <2>2, <5>1, <5>2, ExtendsSelf
      <4> QED BY <4>1, <4>2 DEF PersonaMove
    <3>4. /\ SaveOf(p).cmd = "persona_history_save" /\ SaveOf(p).arg.thread = p.messages
          /\ SaveOf(p).arg.fresh = p.fresh
      BY SaveFacts
    <3> QED BY <1>1, <3>2, <3>3, <3>4 DEF ThreadKept
  <2>4. CASE ~p.loaded
    <3>1. On(inFlight', "thread") = C
      BY <2>4, PersonaFrame
    <3> QED BY <1>1, <2>2, <2>4, <3>1 DEF ThreadKept
  <2> QED BY <2>3, <2>4
<1>5. ThreadKept'
  BY <1>4 DEF ThreadKept
<1> QED BY <1>3, <1>5 DEF ThreadInv

LEMMA PersonaOwn ==
    ASSUME Shape, AtMostOne, PersonaInv, NEW p, NEW new, NEW out, PersonaMove(p, new, out)
    PROVE  PersonaInv'
<1>1. /\ ui.tab = "persona" /\ ui'.pane = p /\ ui'.tab = "persona" /\ vault' = vault
      /\ Turn({}, new, out) /\ spent'.faults = spent.faults
  BY PersonaFrame DEF PersonaMove, PaneStep, Frame
<1> SUFFICES ASSUME Alone("thread")', Alone("lock")', spent'.faults = 0, vault'.open
             PROVE  /\ \A c \in On(inFlight', "thread") : c.state # "failed"
                    /\ p.loaded => p.messages = vault'.thread \/ On(inFlight', "thread") # {}
  BY <1>1 DEF PersonaInv
<1>2. "thread" \notin seen'.overlapped /\ Alone("thread") /\ Alone("lock")
  BY <1>1, OnlyGrows DEF Alone
<1>3. CASE p.loaded
  <2>1. SaveOf(p) \in new /\ \A c \in new : "thread" \in Touches(c) => c = SaveOf(p)
    BY <1>3, PersonaFrame
  <2>2. On(inFlight', "thread") = {SaveOf(p)}
    <3>1. \E c \in new \cup out : "thread" \in Touches(c)
      BY <2>1, SaveFacts
    <3>2. On(inFlight', "thread") = {c \in new : "thread" \in Touches(c)}
      BY <1>1, <1>2, <3>1, TouchedNew
    <3> QED BY <2>1, <3>2, SaveFacts
  <2> QED BY <2>2, SaveFacts
<1>4. CASE ~p.loaded
  <2>1. On(inFlight', "thread") = On(inFlight, "thread")
    BY <1>4, PersonaFrame
  <2> QED BY <1>1, <1>2, <1>4, <2>1 DEF PersonaInv
<1> QED BY <1>3, <1>4

LEMMA PersonaKeeps ==
    ASSUME ViewsIInv, PersonaStep
    PROVE  ViewsIInv'
<1> PICK rs : rs = {"thread"}
  OBVIOUS
<1>1. PICK p, new, out : PersonaMove(p, new, out)
  BY PersonaStepMoves DEF ViewsIInv, ThreadInv, PersonaMoves
<1>2. PaneStep("persona", rs) /\ ThreadInv' /\ PersonaInv'
  BY <1>1, PersonaFrame, ThreadOwn, PersonaOwn DEF ViewsIInv
<1>3. Facts \cap rs = {}
  BY PageNames DEF Resources
<1>4. /\ rs \cap {"graph", "config", "lock"} = {}
      /\ rs \cap {"scope", "shares", "sources", "queue"} = {}
  OBVIOUS
<1> QED BY <1>2, <1>3, <1>4, PaneKeeps DEF ViewsIInv

=============================================================================
