--------------------------- MODULE DesktopProofs ---------------------------
(***************************************************************************)
(* Theorems about the desktop program, for every value of its constants:   *)
(* Session, which holds the vault and its services together, and Views,    *)
(* the pages of the user interface that call it.                           *)
(*                                                                         *)
(* Session.  A command that has run alone since it began knows what it     *)
(* read; that is CleanTask. While the session is settled every command     *)
(* runs alone, so at most one of them stands between the vault, the        *)
(* configuration and the services, and Settled says how far it has brought *)
(* them apart.                                                             *)
(*                                                                         *)
(* Views.  What the backend does when it ends a command, the first state,  *)
(* and the theorems: ViewsInvariant and ViewsHandlers have the rest.       *)
(***************************************************************************)
EXTENDS Session, ViewsHandlers

-----------------------------------------------------------------------------
(***************************************************************************)
(* Part one: Session.                                                      *)
(***************************************************************************)

Rebuild == {"apply", "teardown", "client", "api", "sharing", "install"}
Steps == {"idle", "keystore", "remember", "restore", "secret", "snapshot", "put", "commit",
          "servers", "stopping", "forget", "spawn", "tunnel"} \cup Rebuild

\* Which command is at a step, and what its locals are there.
TaskFits(t) ==
    /\ t.step = "idle" => t = Idle
    /\ t.step = "keystore" => t.cmd = "setup" /\ t.arg \in Keys
    /\ t.step = "remember" => t.cmd \in {"setup", "unlock"} /\ t.arg \in Keys
    /\ t.step = "restore" => t.cmd = "unlock"
    /\ t.step \in {"secret", "snapshot"} => t.cmd = "model" /\ t.arg \in Models
    /\ t.step \in {"put", "commit"} => t.cmd \in {"setup", "policy", "server", "sharing", "model"}
    /\ t.step \in {"put", "commit", "servers"} /\ t.cmd \in {"policy", "server", "sharing"} =>
          t.arg \in BOOLEAN
    /\ t.step \in {"put", "commit"} /\ t.cmd = "model" => t.arg \in Models
    /\ t.step \in Rebuild => t.cmd \in {"setup", "unlock", "model"}
    /\ t.step = "servers" => t.cmd \in {"server", "sharing"}
    /\ t.step = "stopping" /\ t.after = "client" => t.cmd \in {"setup", "unlock", "model"}
    /\ t.step = "stopping" /\ t.after = "forget" => t.cmd = "lock"
    /\ t.step = "forget" => t.cmd = "lock"
    /\ t.step \in {"spawn", "tunnel"} => t.cmd = "tunnel"
    /\ t.step \notin {"sharing", "install"} => t.set.up = {}
    /\ t.step = "sharing" => t.set.up \subseteq {"api"}
    /\ t.set.busy => "api" \in t.set.up \/ t.step = "stopping"
    /\ ~t.set.tunnel

\* The second part: a key is derived only from a keystore that is there, and stays.
TasksFit ==
    \A p \in Callers : TaskFits(task[p]) /\ (At(p, "remember") => keystore # None)

\* Whatever overlaps: the environment follows the configuration in memory, and without a
\* keystore nothing was ever unlocked or saved.
MemoryFits ==
    /\ env = config.model
    /\ keystore = None => current = None /\ saved.key \notin Keys

Switches == {"policy", "server", "sharing"}

\* What a command that ran alone so far relies on.
CleanTask(p) ==
    LET t == task[p]
    IN  /\ OthersIdle(p)
        /\ t.step \in {"put", "commit"} /\ t.cmd \in Switches =>
              t.next = [config EXCEPT ![t.cmd] = t.arg]
        /\ t.step \in {"put", "commit"} /\ t.cmd = "model" =>
              t.next = [config EXCEPT !.model = t.arg]
        /\ t.step = "commit" => current # None /\ saved = [key |-> current, val |-> t.next]
        /\ t.step = "servers" => config[t.cmd] = t.arg
        /\ t.step \in {"client", "api", "sharing", "install", "forget"} => installed = None
        /\ t.step = "stopping" /\ t.after \in {"client", "forget"} => installed = None
        /\ t.step \in {"api", "sharing", "install"} => t.set.model = config.model
        /\ t.step \in {"sharing", "install"} /\ "api" \in t.set.up => config.server
        /\ t.step = "install" /\ t.set.up \cap {"owner", "shared"} # {} => config.sharing
        /\ t.step \in {"keystore", "remember", "put"} /\ t.cmd = "setup" => saved.key \notin Keys
        /\ t.step \in Rebuild \cup {"stopping"} /\ t.cmd = "unlock" =>
              /\ current # None
              /\ saved.key \in Keys => saved.val = config
        /\ t.step \in {"spawn", "tunnel"} => installed = None \/ "shared" \in installed.up

CleanTasks == \A p \in Callers : ~At(p, "idle") /\ task[p].clean => CleanTask(p)

\* While the session is settled and t is what is under way: how far vault, configuration
\* and services may be apart.
SettledWith(t) ==
    /\ current = None \/ t.cmd = "setup" => installed = None
    /\ TunnelNeedsSharing
    /\ installed # None =>
          /\ "api" \in installed.up => config.server \/ (t.step = "servers" /\ t.cmd = "server")
          /\ installed.up \cap {"owner", "shared"} # {} =>
                config.sharing \/ (t.step = "servers" /\ t.cmd = "sharing")
          /\ installed.model = config.model
                \/ (t.step \in {"apply", "teardown"} /\ t.cmd = "model")
          /\ saved.key \in Keys => saved.val = config \/ t.step = "commit"
    /\ current # None /\ saved.key \in Keys =>
          saved.val = config \/ t.step \in {"commit", "restore"}

Settled ==
    /\ \A p \in Callers : task[p].clean
    /\ AtRest => SettledWith(Idle)
    /\ \A p \in Callers : ~At(p, "idle") => SettledWith(task[p])

IInv == TypeOK /\ TasksFit /\ MemoryFits /\ CleanTasks /\ (settled => Settled)
-----------------------------------------------------------------------------
(***************************************************************************)
(* The shape of a step: one caller moves on, and the others stay as they   *)
(* are.                                                                    *)
(***************************************************************************)

LEMMA DefaultType == Default \in Config /\ Down \in ServiceSet
  BY SessionAssumption DEF Default, Down, Config, ServiceSet

LEMMA IdleFits == Idle \in Task /\ TaskFits(Idle) /\ Idle.step = "idle" /\ Idle.clean
  BY DefaultType DEF Idle, Task, TaskFits, Rebuild, Down

\* What the invariant says of a caller that is at work.
LEMMA AtWork ==
  ASSUME IInv, NEW p \in Callers, ~At(p, "idle")
  PROVE  /\ task[p] \in Task /\ TaskFits(task[p]) /\ task \in [Callers -> Task]
         /\ task[p].clean => CleanTask(p)
         /\ settled => task[p].clean /\ SettledWith(task[p])
  BY DEF IInv, TypeOK, TasksFit, CleanTasks, Settled

\* The variables other than the tasks.
OtherTypes ==
    /\ keystore \in Doc /\ secret \in Doc
    /\ saved \in [key : Doc, val : Config]
    /\ current \in Keys \cup {None} /\ config \in Config /\ env \in Models
    /\ installed \in ServiceSet \cup {None}
    /\ settled \in BOOLEAN
    /\ calls \in Nat /\ faults \in Nat /\ crashes \in Nat

\* A step of a caller that is at work keeps the invariant if what the caller relies on
\* afterwards holds, and if the session, should it still be settled, is in order.
LEMMA WorkStep ==
  ASSUME IInv, NEW p \in Callers, ~At(p, "idle"),
         NEW t \in Task, TaskFits(t), task' = [task EXCEPT ![p] = t],
         OtherTypes', MemoryFits',
         keystore # None \/ t.step = "remember" => keystore' # None,
         t.step # "idle" /\ t.clean => task[p].clean /\ (OthersIdle(p)' => CleanTask(p)'),
         settled' => t.clean /\ task[p].clean /\ SettledWith(task[p])'
  PROVE  IInv'
  <1>. task \in [Callers -> Task] /\ TasksFit /\ CleanTasks
    BY DEF IInv, TypeOK
  <1>1. task' \in [Callers -> Task] /\ TasksFit' /\ task'[p] = t
    BY DEF TasksFit, At
  <1>2. TypeOK'
    BY <1>1 DEF TypeOK, OtherTypes
  <1>3. task[p].clean => \A q \in Callers \ {p} : task[q] = Idle /\ task'[q] = Idle
    <2>1. task[p].clean => OthersIdle(p)
      BY DEF CleanTasks, CleanTask
    <2>2. \A q \in Callers : At(q, "idle") => task[q] = Idle
      BY DEF TasksFit, TaskFits, At
    <2>. QED
      BY <2>1, <2>2 DEF OthersIdle
  <1>4. task[p].clean => OthersIdle(p)'
    BY <1>3, IdleFits DEF OthersIdle, At
  <1>5. \A q \in Callers : ~At(q, "idle") /\ task[q].clean => q = p \/ ~task[p].clean
    BY <1>3, IdleFits DEF At
  <1>6. CleanTasks'
    <2>1. ASSUME NEW q \in Callers, q # p, (~At(q, "idle") /\ task[q].clean)'
          PROVE  FALSE
      <3>1. task'[q] = task[q]
        BY <2>1
      <3>2. CleanTask(q)
        BY <2>1, <3>1 DEF CleanTasks, At
      <3>3. At(p, "idle")
        BY <2>1, <3>2 DEF CleanTask, OthersIdle
      <3>. QED
        BY <3>3
    <2>2. (~At(p, "idle") /\ task[p].clean)' => CleanTask(p)'
      BY <1>1, <1>4 DEF At
    <2>. QED
      BY <2>1, <2>2 DEF CleanTasks
  <1>7. settled' => Settled'
    <2>. SUFFICES ASSUME settled'
                  PROVE  Settled'
      OBVIOUS
    <2>1. \A q \in Callers : task'[q].clean
      BY <1>1, <1>3, IdleFits
    <2>2. AtRest' => SettledWith(Idle)'
      <3>. SUFFICES ASSUME AtRest'
                    PROVE  SettledWith(Idle)'
        OBVIOUS
      <3>1. task'[p] = Idle
        BY <1>1 DEF AtRest, At, TasksFit, TaskFits
      <3>. QED
        BY <3>1 DEF SettledWith
    <2>3. \A q \in Callers : ~At(q, "idle")' => q = p
      BY <1>3, IdleFits DEF At
    <2>. QED
      BY <2>1, <2>2, <2>3 DEF Settled
  <1>. QED
    BY <1>1, <1>2, <1>6, <1>7 DEF IInv

\* The same of a command that begins: it runs alone only if nobody else is at work, and
\* whoever is ceases to.
LEMMA BeginStep ==
  ASSUME IInv, NEW p \in Callers, NEW t \in Task, TaskFits(t), Begin(p, t), t.step # "idle",
         OtherTypes', MemoryFits',
         UNCHANGED keystore, t.step = "remember" => keystore # None,
         OthersIdle(p) /\ (OthersIdle(p))' => CleanTask(p)',
         settled /\ AtRest => SettledWith(task[p])'
  PROVE  IInv'
  <1>. DEFINE u == [t EXCEPT !.clean = OthersIdle(p)]
              v(q) == [task[q] EXCEPT !.clean = At(q, "idle")]
  <1>. task \in [Callers -> Task] /\ TasksFit /\ CleanTasks /\ At(p, "idle")
    BY DEF IInv, TypeOK, Begin
  <1>1. u \in Task /\ TaskFits(u) /\ u.step = t.step /\ u.clean = OthersIdle(p)
    <2>1. OthersIdle(p) \in BOOLEAN
      BY DEF OthersIdle
    <2>2. u \in Task /\ u.clean = OthersIdle(p) /\ u.step = t.step
      BY <2>1 DEF Task
    <2>3. /\ u.cmd = t.cmd /\ u.arg = t.arg /\ u.set = t.set /\ u.after = t.after
          /\ u.next = t.next
      BY DEF Task
    <2>. QED
      BY <2>2, <2>3 DEF TaskFits
  <1>2. ASSUME NEW q \in Callers
        PROVE  /\ v(q) \in Task /\ TaskFits(v(q)) /\ v(q).step = task[q].step
               /\ v(q).clean = At(q, "idle")
    <2>. task[q] \in Task /\ TaskFits(task[q]) /\ At(q, "idle") \in BOOLEAN
      BY DEF TasksFit, At
    <2>1. v(q) \in Task /\ v(q).step = task[q].step /\ v(q).clean = At(q, "idle")
      BY DEF Task
    <2>2. /\ v(q).cmd = task[q].cmd /\ v(q).arg = task[q].arg /\ v(q).set = task[q].set
          /\ v(q).after = task[q].after /\ v(q).next = task[q].next
      BY DEF Task
    <2>3. task[q].step = "idle" => v(q) = Idle
      <3>. SUFFICES ASSUME task[q].step = "idle"
                    PROVE  v(q) = Idle
        OBVIOUS
      <3>1. task[q] = Idle /\ At(q, "idle") = TRUE
        BY DEF TaskFits, At
      <3>2. [Idle EXCEPT !.clean = TRUE] = Idle
        BY IdleFits DEF Task
      <3>. QED
        BY <3>1, <3>2
    <2>. QED
      BY <2>1, <2>2, <2>3 DEF TaskFits
  <1>3. task' = [q \in Callers |-> IF q = p THEN u ELSE v(q)]
    BY DEF Begin
  <1>4. task' \in [Callers -> Task] /\ TasksFit' /\ task'[p] = u
    BY <1>1, <1>2, <1>3 DEF TasksFit, At
  <1>5. \A q \in Callers \ {p} : (task'[q].step = task[q].step) /\ (task'[q].clean = At(q, "idle"))
    BY <1>2, <1>3
  <1>6. TypeOK'
    BY <1>4 DEF TypeOK, OtherTypes
  <1>7. OthersIdle(p) = OthersIdle(p)'
    BY <1>5 DEF OthersIdle, At
  <1>8. CleanTasks'
    BY <1>1, <1>4, <1>5, <1>7 DEF CleanTasks, At
  <1>9. settled' => Settled'
    <2>. SUFFICES ASSUME settled'
                  PROVE  Settled'
      OBVIOUS
    <2>1. settled /\ OthersIdle(p)
      BY DEF Begin
    <2>2. AtRest
      BY <2>1 DEF AtRest, OthersIdle
    <2>3. \A q \in Callers \ {p} : task'[q].step = "idle" /\ task'[q].clean
      BY <1>5, <2>1 DEF OthersIdle, At
    <2>. QED
      BY <1>1, <1>4, <2>1, <2>2, <2>3 DEF Settled, AtRest, At
  <1>. QED
    BY <1>4, <1>6, <1>8, <1>9 DEF IInv
-----------------------------------------------------------------------------
(***************************************************************************)
(* Commands begin.                                                         *)
(***************************************************************************)

\* A caller whose servers are being stopped, and what it does next.
LEMMA StoppedFits ==
  ASSUME NEW t \in Task, NEW set, NEW after \in {"forget", "client", "idle"}
  PROVE  LET u == Stopped(t, set, after)
         IN  /\ u \in Task
             /\ u = Idle \/ (u.step \in {"stopping", after} /\ u.cmd = t.cmd /\ u.clean = t.clean)
             /\ u = Idle => after = "idle"
             /\ u.step = "idle" => u = Idle
             /\ u.step = "stopping" => u.after = after
             /\ u.set.up = {} /\ ~u.set.tunnel /\ (u.set.busy => u.step = "stopping")
  <1>1. /\ Down.up = {} /\ ~Down.tunnel /\ ~Down.busy /\ Down \in ServiceSet
        /\ [Down EXCEPT !.busy = TRUE] \in ServiceSet
        /\ [Down EXCEPT !.busy = TRUE].up = {} /\ ~[Down EXCEPT !.busy = TRUE].tunnel
    BY DefaultType DEF Down, ServiceSet
  <1>2. CASE set # None /\ set.busy
    <2>. DEFINE u == [t EXCEPT !.step = "stopping", !.set = [Down EXCEPT !.busy = TRUE],
                              !.after = after]
    <2>1. Stopped(t, set, after) = u
      BY <1>2 DEF Stopped
    <2>2. /\ u \in Task /\ u.step = "stopping" /\ u.cmd = t.cmd /\ u.clean = t.clean
          /\ u.after = after /\ u.set = [Down EXCEPT !.busy = TRUE]
      BY <1>1 DEF Task
    <2>. QED
      BY <1>1, <2>1, <2>2, IdleFits
  <1>3. CASE ~(set # None /\ set.busy) /\ after = "idle"
    <2>1. Stopped(t, set, after) = Idle
      BY <1>3 DEF Stopped
    <2>2. Idle.set = Down
      BY DEF Idle
    <2>. QED
      BY <1>1, <1>3, <2>1, <2>2, IdleFits
  <1>4. CASE ~(set # None /\ set.busy) /\ after # "idle"
    <2>. DEFINE u == [t EXCEPT !.step = after, !.set = Down]
    <2>1. Stopped(t, set, after) = u
      BY <1>4 DEF Stopped
    <2>2. /\ u \in Task /\ u.step = after /\ u.cmd = t.cmd /\ u.clean = t.clean /\ u.set = Down
      BY <1>1 DEF Task
    <2>. QED
      BY <1>1, <1>4, <2>1, <2>2, IdleFits
  <1>. QED
    BY <1>2, <1>3, <1>4

\* The locals a command begins with.
LEMMA BeginFields ==
  ASSUME IInv, NEW p \in Callers, NEW t \in Task, Begin(p, t)
  PROVE  /\ task'[p].step = t.step /\ task'[p].cmd = t.cmd /\ task'[p].arg = t.arg
         /\ task'[p].next = t.next /\ task'[p].set = t.set /\ task'[p].after = t.after
         /\ settled' \in BOOLEAN /\ calls' \in Nat /\ faults' \in Nat /\ crashes' \in Nat
  <1>1. task'[p] = [t EXCEPT !.clean = OthersIdle(p)]
    BY DEF Begin
  <1>2. settled' \in BOOLEAN /\ calls' \in Nat /\ faults' \in Nat /\ crashes' \in Nat
    BY DEF Begin, OthersIdle, IInv, TypeOK
  <1>. QED
    BY <1>1, <1>2 DEF Task

\* At rest the tasks are idle, so nothing is exempt.
LEMMA AtRestFits ==
  ASSUME IInv, settled, AtRest
  PROVE  /\ current = None => installed = None
         /\ TunnelNeedsSharing
         /\ installed # None =>
               /\ "api" \in installed.up => config.server
               /\ installed.up \cap {"owner", "shared"} # {} => config.sharing
               /\ installed.model = config.model
               /\ saved.key \in Keys => saved.val = config
         /\ current # None /\ saved.key \in Keys => saved.val = config
  BY DEF IInv, Settled, SettledWith, Idle

LEMMA BeginSetupStep ==
  ASSUME IInv, NEW p \in Callers, BeginSetup(p)
  PROVE  IInv'
  <1>1. PICK k \in Keys :
           Begin(p, [Idle EXCEPT !.step = "keystore", !.cmd = "setup", !.arg = k])
    BY DEF BeginSetup
  <1>. DEFINE t == [Idle EXCEPT !.step = "keystore", !.cmd = "setup", !.arg = k]
  <1>2. /\ t \in Task /\ t.step = "keystore" /\ t.cmd = "setup" /\ t.arg = k
        /\ t.set = Down /\ t.after = "idle"
    BY IdleFits DEF Idle, Task
  <1>3. TaskFits(t)
    BY <1>2 DEF TaskFits, Down, Rebuild
  <1>4. UNCHANGED <<disk, memory, installed>> /\ keystore = None
    BY DEF BeginSetup
  <1>5. OtherTypes' /\ MemoryFits'
    BY <1>1, <1>2, <1>4, BeginFields DEF OtherTypes, IInv, TypeOK, MemoryFits, disk, memory
  <1>6. OthersIdle(p)' => CleanTask(p)'
    <2>1. saved'.key \notin Keys
      BY <1>4 DEF IInv, MemoryFits, disk
    <2>. QED
      BY <1>1, <1>2, <2>1, BeginFields DEF CleanTask, Rebuild
  <1>7. settled /\ AtRest => SettledWith(task[p])'
    <2>. SUFFICES ASSUME settled, AtRest
                  PROVE  SettledWith(task[p])'
      OBVIOUS
    <2>1. installed = None /\ installed' = None /\ current' = None
      BY <1>4, AtRestFits DEF IInv, MemoryFits, memory
    <2>. QED
      BY <2>1 DEF SettledWith, TunnelNeedsSharing
  <1>. QED
    BY <1>1, <1>2, <1>3, <1>4, <1>5, <1>6, <1>7, BeginStep DEF disk

LEMMA BeginUnlockStep ==
  ASSUME IInv, NEW p \in Callers, BeginUnlock(p)
  PROVE  IInv'
  <1>. DEFINE t == [Idle EXCEPT !.step = "remember", !.cmd = "unlock", !.arg = keystore]
  <1>1. /\ Begin(p, t) /\ keystore \in Keys /\ UNCHANGED <<disk, memory, installed>>
    BY DEF BeginUnlock
  <1>2. /\ t \in Task /\ t.step = "remember" /\ t.cmd = "unlock" /\ t.arg = keystore
        /\ t.set = Down /\ t.after = "idle"
    BY <1>1, IdleFits DEF Idle, Task
  <1>3. TaskFits(t)
    BY <1>1, <1>2 DEF TaskFits, Down, Rebuild
  <1>4. OtherTypes' /\ MemoryFits'
    BY <1>1, <1>2, BeginFields DEF OtherTypes, IInv, TypeOK, MemoryFits, disk, memory
  <1>5. OthersIdle(p)' => CleanTask(p)'
    BY <1>1, <1>2, BeginFields DEF CleanTask, Rebuild
  <1>6. settled /\ AtRest => SettledWith(task[p])'
    BY <1>1, <1>2, BeginFields, AtRestFits DEF SettledWith, TunnelNeedsSharing, disk, memory
  <1>. QED
    BY <1>1, <1>2, <1>3, <1>4, <1>5, <1>6, BeginStep, SessionAssumption DEF disk

LEMMA BeginLockStep ==
  ASSUME IInv, NEW p \in Callers, BeginLock(p)
  PROVE  IInv'
  <1>. DEFINE s == [Idle EXCEPT !.cmd = "lock"]
              t == Stopped(s, installed, "forget")
  <1>1. Begin(p, t) /\ installed' = None /\ UNCHANGED <<disk, memory>>
    BY DEF BeginLock
  <1>2. s \in Task /\ s.cmd = "lock"
    BY IdleFits DEF Idle, Task
  <1>3. /\ t \in Task /\ t.step \in {"stopping", "forget"} /\ t.cmd = "lock"
        /\ t.step = "stopping" => t.after = "forget"
        /\ t.set.up = {} /\ ~t.set.tunnel /\ (t.set.busy => t.step = "stopping")
    <2>. DEFINE Fits(u) ==
             /\ u \in Task
             /\ u = Idle \/ (u.step \in {"stopping", "forget"} /\ u.cmd = s.cmd /\ u.clean = s.clean)
             /\ u = Idle => "forget" = "idle"
             /\ u.step = "stopping" => u.after = "forget"
             /\ u.set.up = {} /\ ~u.set.tunnel /\ (u.set.busy => u.step = "stopping")
    <2>1. Fits(t)
      BY <1>2, StoppedFits, ZenonT(40)
    <2>. HIDE DEF t, s
    <2>. QED
      BY <1>2, <2>1
  <1>. HIDE DEF t
  <1>4. TaskFits(t)
    BY <1>3 DEF TaskFits, Rebuild
  <1>5. OtherTypes' /\ MemoryFits'
    BY <1>1, <1>3, BeginFields DEF OtherTypes, IInv, TypeOK, MemoryFits, disk, memory
  <1>6. OthersIdle(p)' => CleanTask(p)'
    BY <1>1, <1>3, BeginFields DEF CleanTask, Rebuild
  <1>7. settled /\ AtRest => SettledWith(task[p])'
    BY <1>1, <1>3, BeginFields, AtRestFits DEF SettledWith, TunnelNeedsSharing, disk, memory
  <1>. QED
    BY <1>1, <1>3, <1>4, <1>5, <1>6, <1>7, BeginStep DEF disk

LEMMA BeginSetStep ==
  ASSUME IInv, NEW p \in Callers, BeginSet(p)
  PROVE  IInv'
  <1>1. PICK f \in Switches, on \in BOOLEAN :
           /\ Begin(p, [Idle EXCEPT !.step = "put", !.cmd = f, !.arg = on,
                                     !.next = [config EXCEPT ![f] = on]])
           /\ UNCHANGED <<disk, memory, installed>>
    BY DEF BeginSet, Switches
  <1>. DEFINE n == [config EXCEPT ![f] = on]
              t == [Idle EXCEPT !.step = "put", !.cmd = f, !.arg = on, !.next = n]
  <1>2. n \in Config
    <2>1. config \in Config
      BY DEF IInv, TypeOK
    <2>. QED
      BY <2>1 DEF Config, Switches
  <1>. HIDE DEF n
  <1>3. /\ t \in Task /\ t.step = "put" /\ t.cmd = f /\ t.arg = on /\ t.next = n
        /\ t.set = Down /\ t.after = "idle"
    BY <1>2, IdleFits DEF Idle, Task, Switches, Default
  <1>4. TaskFits(t)
    BY <1>3 DEF TaskFits, Down, Rebuild, Switches
  <1>5. OtherTypes' /\ MemoryFits'
    BY <1>1, <1>3, BeginFields DEF OtherTypes, IInv, TypeOK, MemoryFits, disk, memory, n
  <1>6. OthersIdle(p)' => CleanTask(p)'
    <2>1. n = [config' EXCEPT ![f] = on]
      BY <1>1 DEF n, memory
    <2>. QED
      BY <1>1, <1>3, <2>1, BeginFields DEF CleanTask, Rebuild, Switches, n
  <1>7. settled /\ AtRest => SettledWith(task[p])'
    BY <1>1, <1>3, BeginFields, AtRestFits
    DEF SettledWith, TunnelNeedsSharing, disk, memory, Switches, n
  <1>. QED
    BY <1>1, <1>3, <1>4, <1>5, <1>6, <1>7, BeginStep DEF n, disk

LEMMA BeginSelectStep ==
  ASSUME IInv, NEW p \in Callers, BeginSelect(p)
  PROVE  IInv'
  <1>1. PICK m \in Models, first \in {"secret", "snapshot"} :
           /\ Begin(p, [Idle EXCEPT !.step = first, !.cmd = "model", !.arg = m])
           /\ UNCHANGED <<disk, memory, installed>>
    BY DEF BeginSelect
  <1>. DEFINE t == [Idle EXCEPT !.step = first, !.cmd = "model", !.arg = m]
  <1>2. /\ t \in Task /\ t.step = first /\ t.cmd = "model" /\ t.arg = m
        /\ t.set = Down /\ t.after = "idle"
    BY IdleFits DEF Idle, Task, Default
  <1>3. TaskFits(t)
    BY <1>2 DEF TaskFits, Down, Rebuild
  <1>4. OtherTypes' /\ MemoryFits'
    BY <1>1, <1>2, BeginFields DEF OtherTypes, IInv, TypeOK, MemoryFits, disk, memory
  <1>5. OthersIdle(p)' => CleanTask(p)'
    BY <1>1, <1>2, BeginFields DEF CleanTask, Rebuild
  <1>6. settled /\ AtRest => SettledWith(task[p])'
    BY <1>1, <1>2, BeginFields, AtRestFits DEF SettledWith, TunnelNeedsSharing, disk, memory
  <1>. QED
    BY <1>1, <1>2, <1>3, <1>4, <1>5, <1>6, BeginStep, SessionAssumption DEF disk

LEMMA BeginTunnelStep ==
  ASSUME IInv, NEW p \in Callers, BeginTunnel(p)
  PROVE  IInv'
  <1>. DEFINE t == [Idle EXCEPT !.step = "spawn", !.cmd = "tunnel"]
  <1>1. Begin(p, t) /\ "shared" \in installed.up /\ UNCHANGED <<disk, memory, installed>>
    BY DEF BeginTunnel
  <1>2. t \in Task /\ t.step = "spawn" /\ t.cmd = "tunnel" /\ t.set = Down /\ t.after = "idle"
    BY IdleFits DEF Idle, Task
  <1>3. TaskFits(t)
    BY <1>2 DEF TaskFits, Down, Rebuild
  <1>4. OtherTypes' /\ MemoryFits'
    BY <1>1, <1>2, BeginFields DEF OtherTypes, IInv, TypeOK, MemoryFits, disk, memory
  <1>5. OthersIdle(p)' => CleanTask(p)'
    BY <1>1, <1>2, BeginFields DEF CleanTask, Rebuild
  <1>6. settled /\ AtRest => SettledWith(task[p])'
    BY <1>1, <1>2, BeginFields, AtRestFits DEF SettledWith, TunnelNeedsSharing, disk, memory
  <1>. QED
    BY <1>1, <1>2, <1>3, <1>4, <1>5, <1>6, BeginStep, SessionAssumption DEF disk
-----------------------------------------------------------------------------
(***************************************************************************)
(* A caller at work.                                                       *)
(***************************************************************************)

\* A step that only moves the caller on.
LEMMA MovedOn ==
  ASSUME task \in [Callers -> Task], NEW p \in Callers, NEW s \in Steps, GoTo(p, s)
  PROVE  \E t \in Task :
           /\ task' = [task EXCEPT ![p] = t] /\ task'[p] = t /\ t.step = s
           /\ t.cmd = task[p].cmd /\ t.arg = task[p].arg /\ t.next = task[p].next
           /\ t.set = task[p].set /\ t.after = task[p].after /\ t.clean = task[p].clean
  <1>. DEFINE t == [task[p] EXCEPT !.step = s]
  <1>1. t \in Task
    BY DEF Task, Steps, Rebuild
  <1>2. /\ task' = [task EXCEPT ![p] = t] /\ task'[p] = t /\ t.step = s
        /\ t.cmd = task[p].cmd /\ t.arg = task[p].arg /\ t.next = task[p].next
        /\ t.set = task[p].set /\ t.after = task[p].after /\ t.clean = task[p].clean
    BY DEF GoTo, Become, Task
  <1>. QED
    BY <1>1, <1>2

\* A command that ends leaves a settled session in order.
LEMMA FinishStep ==
  ASSUME IInv, NEW p \in Callers, ~At(p, "idle"), Finish(p), OtherTypes', MemoryFits',
         keystore # None => keystore' # None,
         settled' => task[p].clean /\ SettledWith(Idle)'
  PROVE  IInv'
  <1>1. task' = [task EXCEPT ![p] = Idle] /\ task'[p] = Idle
    BY AtWork DEF Finish, Become
  <1>2. settled' => SettledWith(task[p])'
    BY <1>1 DEF SettledWith
  <1>. QED
    BY <1>1, <1>2, IdleFits, WorkStep

LEMMA WriteKeystoreStep ==
  ASSUME IInv, NEW p \in Callers, WriteKeystore(p)
  PROVE  IInv'
  <1>1. /\ task[p].step = "keystore" /\ ~At(p, "idle") /\ keystore' = task[p].arg
        /\ GoTo(p, "remember") /\ UNCHANGED <<saved, secret, memory, installed, settled, bounds>>
    BY DEF WriteKeystore, At
  <1>2. /\ task[p].cmd = "setup" /\ task[p].arg \in Keys /\ task[p].arg # None
        /\ TaskFits(task[p]) /\ task \in [Callers -> Task]
    BY <1>1, AtWork, SessionAssumption DEF TaskFits
  <1>3. PICK t \in Task :
           /\ task' = [task EXCEPT ![p] = t] /\ task'[p] = t /\ t.step = "remember"
           /\ t.cmd = task[p].cmd /\ t.arg = task[p].arg /\ t.next = task[p].next
           /\ t.set = task[p].set /\ t.after = task[p].after /\ t.clean = task[p].clean
    BY <1>1, <1>2, MovedOn DEF Steps
  <1>4. TaskFits(t)
    BY <1>1, <1>2, <1>3 DEF TaskFits, Rebuild
  <1>5. OtherTypes' /\ MemoryFits'
    BY <1>1, <1>2 DEF OtherTypes, IInv, TypeOK, MemoryFits, memory, bounds, Doc
  <1>6. t.clean => task[p].clean /\ (OthersIdle(p)' => CleanTask(p)')
    BY <1>1, <1>2, <1>3, AtWork DEF CleanTask, Rebuild, memory
  <1>7. settled' => t.clean /\ task[p].clean /\ SettledWith(task[p])'
    BY <1>1, <1>2, <1>3, AtWork DEF SettledWith, TunnelNeedsSharing, memory
  <1>. QED
    BY <1>1, <1>2, <1>3, <1>4, <1>5, <1>6, <1>7, WorkStep

LEMMA RememberStep ==
  ASSUME IInv, NEW p \in Callers, Remember(p)
  PROVE  IInv'
  <1>. DEFINE s == IF task[p].cmd = "setup" THEN "put" ELSE "restore"
  <1>1. /\ task[p].step = "remember" /\ ~At(p, "idle") /\ current' = task[p].arg
        /\ GoTo(p, s) /\ UNCHANGED <<disk, config, env, installed, settled, bounds>>
    BY DEF Remember, At
  <1>2. /\ task[p].cmd \in {"setup", "unlock"} /\ task[p].arg \in Keys /\ task[p].arg # None
        /\ TaskFits(task[p]) /\ task \in [Callers -> Task] /\ keystore # None
    BY <1>1, AtWork, SessionAssumption DEF TaskFits, IInv, TasksFit, At
  <1>3. PICK t \in Task :
           /\ task' = [task EXCEPT ![p] = t] /\ task'[p] = t /\ t.step = s
           /\ t.cmd = task[p].cmd /\ t.arg = task[p].arg /\ t.next = task[p].next
           /\ t.set = task[p].set /\ t.after = task[p].after /\ t.clean = task[p].clean
    BY <1>1, <1>2, MovedOn DEF Steps
  <1>4. TaskFits(t)
    BY <1>1, <1>2, <1>3 DEF TaskFits, Rebuild
  <1>5. OtherTypes' /\ MemoryFits'
    BY <1>1, <1>2 DEF OtherTypes, IInv, TypeOK, MemoryFits, disk, bounds
  <1>6. t.clean => task[p].clean /\ (OthersIdle(p)' => CleanTask(p)')
    BY <1>1, <1>2, <1>3, AtWork DEF CleanTask, Rebuild, disk, Switches
  <1>7. settled' => t.clean /\ task[p].clean /\ SettledWith(task[p])'
    <2>. SUFFICES ASSUME settled'
                  PROVE  SettledWith(task[p])' /\ task[p].clean
      BY <1>3
    <2>1. SettledWith(task[p]) /\ CleanTask(p) /\ task[p].clean
      BY <1>1, AtWork
    <2>2. t.cmd = "setup" => saved.key \notin Keys
      BY <1>1, <1>3, <2>1 DEF CleanTask
    <2>. QED
      BY <1>1, <1>2, <1>3, <2>1, <2>2 DEF SettledWith, TunnelNeedsSharing, disk
  <1>. QED
    BY <1>1, <1>2, <1>3, <1>4, <1>5, <1>6, <1>7, WorkStep DEF disk

\* restore_config, whether or not the document can be read.
LEMMA RestoredStep ==
  ASSUME IInv, NEW p \in Callers, NEW readable \in BOOLEAN, Restored(p, readable),
         UNCHANGED <<disk, current, installed, calls, crashes>>, faults' \in Nat
  PROVE  IInv'
  <1>. DEFINE fine == readable /\ current # None /\ saved.key \in {None, current}
              t == [task[p] EXCEPT !.step = "apply", !.clean = @ /\ fine]
  <1>1. /\ task[p].step = "restore" /\ ~At(p, "idle")
        /\ config' = IF fine /\ saved.key # None THEN saved.val ELSE config
        /\ env' = config'.model /\ settled' = (settled /\ fine)
        /\ task' = [task EXCEPT ![p] = t]
    BY DEF Restored, ApplyToEnv, At, Become
  <1>2. /\ task[p].cmd = "unlock" /\ task[p] \in Task /\ TaskFits(task[p])
        /\ task \in [Callers -> Task]
    BY <1>1, AtWork DEF TaskFits
  <1>3. /\ t \in Task /\ task'[p] = t /\ t.step = "apply" /\ t.cmd = "unlock"
        /\ t.arg = task[p].arg /\ t.set = task[p].set /\ t.clean = (task[p].clean /\ fine)
    BY <1>1, <1>2 DEF Task
  <1>. HIDE DEF t
  <1>4. TaskFits(t)
    BY <1>1, <1>2, <1>3 DEF TaskFits, Rebuild
  <1>5. config' \in Config /\ config'.model \in Models
    BY <1>1 DEF IInv, TypeOK, Config
  <1>6. OtherTypes' /\ MemoryFits'
    BY <1>1, <1>5 DEF OtherTypes, IInv, TypeOK, MemoryFits, disk
  <1>7. t.clean => task[p].clean /\ (OthersIdle(p)' => CleanTask(p)')
    BY <1>1, <1>3, AtWork, SessionAssumption DEF CleanTask, Rebuild, disk
  <1>8. settled' => t.clean /\ task[p].clean /\ SettledWith(task[p])'
    <2>. SUFFICES ASSUME settled'
                  PROVE  t.clean /\ task[p].clean /\ SettledWith(task[p])'
      OBVIOUS
    <2>1. settled /\ fine /\ task[p].clean /\ SettledWith(task[p])
      BY <1>1, AtWork
    <2>2. installed # None => config' = config
      <3>1. saved.key \in Keys \cup {None}
        BY <2>1 DEF IInv, TypeOK
      <3>. QED
        BY <1>1, <1>2, <2>1, <3>1 DEF SettledWith
    <2>. QED
      BY <1>1, <1>2, <1>3, <2>1, <2>2, SessionAssumption DEF SettledWith, TunnelNeedsSharing, disk
  <1>. QED
    BY <1>1, <1>3, <1>4, <1>6, <1>7, <1>8, WorkStep DEF disk
LEMMA PutSecretStep ==
  ASSUME IInv, NEW p \in Callers, PutSecret(p)
  PROVE  IInv'
  <1>1. /\ task[p].step = "secret" /\ ~At(p, "idle") /\ secret' \in Doc
        /\ GoTo(p, "snapshot") \/ Finish(p)
        /\ UNCHANGED <<keystore, saved, memory, installed, settled, bounds>>
    BY DEF PutSecret, At, Doc, IInv, TypeOK
  <1>2. task[p].cmd = "model" /\ TaskFits(task[p]) /\ task \in [Callers -> Task]
    BY <1>1, AtWork DEF TaskFits
  <1>3. OtherTypes' /\ MemoryFits'
    BY <1>1 DEF OtherTypes, IInv, TypeOK, MemoryFits, memory, bounds
  <1>4. CASE Finish(p)
    BY <1>1, <1>2, <1>3, <1>4, FinishStep, AtWork
    DEF SettledWith, TunnelNeedsSharing, memory, Idle
  <1>5. CASE GoTo(p, "snapshot")
    <2>1. PICK t \in Task :
             /\ task' = [task EXCEPT ![p] = t] /\ task'[p] = t /\ t.step = "snapshot"
             /\ t.cmd = task[p].cmd /\ t.arg = task[p].arg /\ t.next = task[p].next
             /\ t.set = task[p].set /\ t.after = task[p].after /\ t.clean = task[p].clean
      BY <1>2, <1>5, MovedOn DEF Steps
    <2>2. TaskFits(t)
      BY <1>1, <1>2, <2>1 DEF TaskFits, Rebuild
    <2>3. t.clean => task[p].clean /\ (OthersIdle(p)' => CleanTask(p)')
      BY <1>1, <1>2, <2>1, AtWork DEF CleanTask, Rebuild
    <2>4. settled' => t.clean /\ task[p].clean /\ SettledWith(task[p])'
      BY <1>1, <1>2, <2>1, AtWork DEF SettledWith, TunnelNeedsSharing, memory
    <2>. QED
      BY <1>1, <1>3, <2>1, <2>2, <2>3, <2>4, WorkStep
  <1>. QED
    BY <1>1, <1>4, <1>5

LEMMA SnapshotStep ==
  ASSUME IInv, NEW p \in Callers, Snapshot(p)
  PROVE  IInv'
  <1>. DEFINE n == [config EXCEPT !.model = task[p].arg]
              t == [task[p] EXCEPT !.step = "put", !.next = n]
  <1>1. /\ task[p].step = "snapshot" /\ ~At(p, "idle") /\ task' = [task EXCEPT ![p] = t]
        /\ UNCHANGED <<disk, memory, installed, settled, bounds>>
    BY DEF Snapshot, At, Become
  <1>2. /\ task[p].cmd = "model" /\ task[p].arg \in Models /\ task[p] \in Task
        /\ TaskFits(task[p]) /\ task \in [Callers -> Task]
    BY <1>1, AtWork DEF TaskFits
  <1>3. n \in Config
    BY <1>2 DEF IInv, TypeOK, Config
  <1>4. n = [config EXCEPT !.model = task[p].arg]
    OBVIOUS
  <1>. HIDE DEF n
  <1>5. /\ t \in Task /\ task'[p] = t /\ t.step = "put" /\ t.cmd = "model" /\ t.next = n
        /\ t.arg = task[p].arg /\ t.set = task[p].set /\ t.clean = task[p].clean
    BY <1>1, <1>2, <1>3 DEF Task
  <1>. HIDE DEF t
  <1>6. TaskFits(t)
    BY <1>1, <1>2, <1>5 DEF TaskFits, Rebuild
  <1>7. OtherTypes' /\ MemoryFits'
    BY <1>1 DEF OtherTypes, IInv, TypeOK, MemoryFits, disk, memory, bounds
  <1>8. t.clean => task[p].clean /\ (OthersIdle(p)' => CleanTask(p)')
    BY <1>1, <1>2, <1>4, <1>5, AtWork DEF CleanTask, Rebuild, Switches, memory
  <1>9. settled' => t.clean /\ task[p].clean /\ SettledWith(task[p])'
    BY <1>1, <1>2, <1>5, AtWork DEF SettledWith, TunnelNeedsSharing, disk, memory
  <1>. QED
    BY <1>1, <1>5, <1>6, <1>7, <1>8, <1>9, WorkStep DEF disk

LEMMA PutConfigStep ==
  ASSUME IInv, NEW p \in Callers, PutConfig(p)
  PROVE  IInv'
  <1>1. /\ task[p].step = "put" /\ ~At(p, "idle")
        /\ UNCHANGED <<keystore, secret, memory, installed, settled, bounds>>
    BY DEF PutConfig, At
  <1>2. /\ task[p].cmd \in {"setup", "policy", "server", "sharing", "model"}
        /\ task[p] \in Task /\ task[p].next \in Config
        /\ TaskFits(task[p]) /\ task \in [Callers -> Task]
    BY <1>1, AtWork DEF TaskFits, Task
  <1>3. CASE current = None /\ UNCHANGED saved /\ Finish(p)
    <2>1. OtherTypes' /\ MemoryFits'
      BY <1>1, <1>3 DEF OtherTypes, IInv, TypeOK, MemoryFits, memory, bounds
    <2>. QED
      BY <1>1, <1>2, <1>3, <2>1, FinishStep, AtWork
      DEF SettledWith, TunnelNeedsSharing, memory, Idle
  <1>4. CASE /\ current # None /\ saved' = [key |-> current, val |-> task[p].next]
             /\ GoTo(p, "commit")
    <2>1. PICK t \in Task :
             /\ task' = [task EXCEPT ![p] = t] /\ task'[p] = t /\ t.step = "commit"
             /\ t.cmd = task[p].cmd /\ t.arg = task[p].arg /\ t.next = task[p].next
             /\ t.set = task[p].set /\ t.after = task[p].after /\ t.clean = task[p].clean
      BY <1>2, <1>4, MovedOn DEF Steps
    <2>2. TaskFits(t)
      BY <1>1, <1>2, <2>1 DEF TaskFits, Rebuild
    <2>3. OtherTypes' /\ MemoryFits'
      BY <1>1, <1>2, <1>4 DEF OtherTypes, IInv, TypeOK, MemoryFits, memory, bounds, Doc
    <2>4. t.clean => task[p].clean /\ (OthersIdle(p)' => CleanTask(p)')
      <3>. SUFFICES ASSUME task[p].clean, OthersIdle(p)'
                    PROVE  CleanTask(p)'
        BY <2>1
      <3>1. UNCHANGED <<config, current>> /\ CleanTask(p)
        BY <1>1, <1>2, AtWork DEF memory
      <3>2. task'[p].cmd \in Switches => task'[p].next = [config' EXCEPT ![task'[p].cmd] = task'[p].arg]
        <4>1. task[p].cmd \in Switches => task[p].next = [config EXCEPT ![task[p].cmd] = task[p].arg]
          BY <1>1, <3>1 DEF CleanTask
        <4>2. task'[p].next = task[p].next /\ task'[p].cmd = task[p].cmd /\ task'[p].arg = task[p].arg
          BY <2>1
        <4>. QED
          BY <3>1, <4>1, <4>2
      <3>3. task'[p].cmd = "model" => task'[p].next = [config' EXCEPT !.model = task'[p].arg]
        BY <1>1, <2>1, <3>1 DEF CleanTask
      <3>4. saved' = [key |-> current', val |-> task'[p].next] /\ current' # None
        BY <1>4, <2>1, <3>1
      <3>5. task'[p].step = "commit"
        BY <2>1
      <3>. QED
        BY <3>2, <3>3, <3>4, <3>5 DEF CleanTask, Rebuild
    <2>5. settled' => t.clean /\ task[p].clean /\ SettledWith(task[p])'
      BY <1>1, <1>2, <1>4, <2>1, AtWork DEF SettledWith, TunnelNeedsSharing, memory
    <2>. QED
      BY <1>1, <2>1, <2>2, <2>3, <2>4, <2>5, WorkStep
  <1>. QED
    BY <1>3, <1>4 DEF PutConfig
\* What a save leaves: one field of the configuration has changed, or all of them in a setup.
LEMMA CommitStep ==
  ASSUME IInv, NEW p \in Callers, Commit(p)
  PROVE  IInv'
  <1>. DEFINE s == AfterSave(task[p].cmd)
              u == [task[p] EXCEPT !.step = s, !.next = Default]
              n == task[p].next
  <1>1. /\ task[p].step = "commit" /\ ~At(p, "idle") /\ config' = n /\ env' = n.model
        /\ UNCHANGED <<disk, current, installed, settled, bounds>>
        /\ IF s = "idle" THEN Finish(p) ELSE task' = [task EXCEPT ![p] = u]
    BY DEF Commit, ApplyToEnv, At, Become
  <1>2. /\ task[p].cmd \in {"setup", "policy", "server", "sharing", "model"}
        /\ task[p].cmd \in Switches => task[p].arg \in BOOLEAN
        /\ task[p] \in Task /\ n \in Config /\ config \in Config
        /\ TaskFits(task[p]) /\ task \in [Callers -> Task]
    BY <1>1, AtWork DEF TaskFits, Task, Switches, IInv, TypeOK
  <1>3. OtherTypes' /\ MemoryFits'
    BY <1>1, <1>2 DEF OtherTypes, IInv, TypeOK, MemoryFits, disk, bounds, Config
  <1>4. task[p].clean =>
           /\ current # None /\ saved.val = n
           /\ task[p].cmd \in Switches =>
                 /\ n[task[p].cmd] = task[p].arg
                 /\ n.model = config.model
                 /\ task[p].cmd # "server" => n.server = config.server
                 /\ task[p].cmd # "sharing" => n.sharing = config.sharing
           /\ task[p].cmd = "model" => n.server = config.server /\ n.sharing = config.sharing
    <2>. SUFFICES ASSUME task[p].clean
                  PROVE  /\ current # None /\ saved.val = n
                         /\ task[p].cmd \in Switches =>
                               /\ n[task[p].cmd] = task[p].arg
                               /\ n.model = config.model
                               /\ task[p].cmd # "server" => n.server = config.server
                               /\ task[p].cmd # "sharing" => n.sharing = config.sharing
                         /\ task[p].cmd = "model" =>
                               n.server = config.server /\ n.sharing = config.sharing
      OBVIOUS
    <2>1. /\ current # None /\ saved = [key |-> current, val |-> n]
          /\ task[p].cmd \in Switches => n = [config EXCEPT ![task[p].cmd] = task[p].arg]
          /\ task[p].cmd = "model" => n = [config EXCEPT !.model = task[p].arg]
      BY <1>1, AtWork DEF CleanTask
    <2>2. saved.val = n
      BY <2>1
    <2>3. ASSUME NEW f \in Switches, task[p].cmd = f
          PROVE  /\ n[f] = task[p].arg /\ n.model = config.model
                 /\ f # "server" => n.server = config.server
                 /\ f # "sharing" => n.sharing = config.sharing
      <3>1. n = [config EXCEPT ![f] = task[p].arg]
        BY <2>1, <2>3
      <3>2. CASE f = "policy"
        BY <1>2, <3>1, <3>2 DEF Config
      <3>3. CASE f = "server"
        BY <1>2, <3>1, <3>3 DEF Config
      <3>4. CASE f = "sharing"
        BY <1>2, <3>1, <3>4 DEF Config
      <3>. QED
        BY <3>2, <3>3, <3>4 DEF Switches
    <2>4. task[p].cmd = "model" => n.server = config.server /\ n.sharing = config.sharing
      BY <1>2, <2>1 DEF Config
    <2>. QED
      BY <2>1, <2>2, <2>3, <2>4
  <1>. HIDE DEF n
  <1>5. CASE task[p].cmd = "policy"
    <2>1. Finish(p)
      BY <1>1, <1>5 DEF AfterSave
    <2>2. settled' => task[p].clean /\ SettledWith(Idle)'
      BY <1>1, <1>4, <1>5, AtWork DEF SettledWith, TunnelNeedsSharing, disk, Idle, Switches
    <2>. QED
      BY <1>1, <1>3, <2>1, <2>2, FinishStep DEF disk
  <1>6. CASE task[p].cmd # "policy"
    <2>1. s \in {"servers", "apply"} /\ (s = "servers" <=> task[p].cmd \in {"server", "sharing"})
      BY <1>2, <1>6 DEF AfterSave
    <2>. HIDE DEF s
    <2>2. /\ u \in Task /\ task' = [task EXCEPT ![p] = u] /\ task'[p] = u /\ u.step = s
          /\ u.cmd = task[p].cmd /\ u.arg = task[p].arg /\ u.set = task[p].set
          /\ u.clean = task[p].clean
      BY <1>1, <1>2, <2>1, DefaultType DEF Task
    <2>. HIDE DEF u
    <2>3. TaskFits(u)
      <3>1. /\ u.set.up = {} /\ ~u.set.busy /\ ~u.set.tunnel
            /\ u.step = "servers" => u.cmd \in {"server", "sharing"} /\ u.arg \in BOOLEAN
            /\ u.step = "apply" => u.cmd \in {"setup", "model"}
        BY <1>1, <1>2, <1>6, <2>1, <2>2 DEF TaskFits, Switches
      <3>. QED
        BY <2>1, <2>2, <3>1 DEF TaskFits, Rebuild
    <2>4. u.clean => task[p].clean /\ (OthersIdle(p)' => CleanTask(p)')
      BY <1>1, <1>2, <1>4, <2>1, <2>2 DEF CleanTask, Rebuild, Switches
    <2>5. settled' => u.clean /\ task[p].clean /\ SettledWith(task[p])'
      BY <1>1, <1>2, <1>4, <2>1, <2>2, AtWork DEF SettledWith, TunnelNeedsSharing, disk, Switches
    <2>. QED
      BY <1>1, <1>3, <2>1, <2>2, <2>3, <2>4, <2>5, WorkStep DEF disk
  <1>. QED
    BY <1>5, <1>6

\* apply_api_key_to_env, whether or not the API key can be read.
LEMMA ApplyKeyStep ==
  ASSUME IInv, NEW p \in Callers, NEW readable \in BOOLEAN, ApplyKey(p, readable),
         UNCHANGED <<disk, memory, installed, calls, crashes>>, faults' \in Nat
  PROVE  IInv'
  <1>1. /\ task[p].step = "apply" /\ ~At(p, "idle")
        /\ \/ GoTo(p, "teardown") /\ settled' = settled
           \/ Finish(p) /\ settled' = (settled /\ task[p].cmd # "model")
    BY DEF ApplyKey, At
  <1>2. /\ task[p].cmd \in {"setup", "unlock", "model"}
        /\ TaskFits(task[p]) /\ task \in [Callers -> Task]
    BY <1>1, AtWork DEF TaskFits, Rebuild
  <1>3. OtherTypes' /\ MemoryFits'
    BY <1>1 DEF OtherTypes, IInv, TypeOK, MemoryFits, disk, memory
  <1>4. CASE Finish(p) /\ settled' = (settled /\ task[p].cmd # "model")
    <2>1. settled' => task[p].clean /\ SettledWith(Idle)'
      BY <1>1, <1>2, <1>4, AtWork DEF SettledWith, TunnelNeedsSharing, disk, memory, Idle
    <2>. QED
      BY <1>1, <1>3, <1>4, <2>1, FinishStep DEF disk
  <1>5. CASE GoTo(p, "teardown") /\ settled' = settled
    <2>1. PICK t \in Task :
             /\ task' = [task EXCEPT ![p] = t] /\ task'[p] = t /\ t.step = "teardown"
             /\ t.cmd = task[p].cmd /\ t.arg = task[p].arg /\ t.next = task[p].next
             /\ t.set = task[p].set /\ t.after = task[p].after /\ t.clean = task[p].clean
      BY <1>2, <1>5, MovedOn DEF Steps, Rebuild
    <2>2. TaskFits(t)
      BY <1>1, <1>2, <2>1 DEF TaskFits, Rebuild
    <2>3. t.clean => task[p].clean /\ (OthersIdle(p)' => CleanTask(p)')
      BY <1>1, <2>1, AtWork DEF CleanTask, Rebuild, disk, memory
    <2>4. settled' => t.clean /\ task[p].clean /\ SettledWith(task[p])'
      BY <1>1, <1>5, <2>1, AtWork DEF SettledWith, TunnelNeedsSharing, disk, memory
    <2>. QED
      BY <1>1, <1>3, <2>1, <2>2, <2>3, <2>4, WorkStep DEF disk
  <1>. QED
    BY <1>1, <1>4, <1>5

LEMMA TeardownStep ==
  ASSUME IInv, NEW p \in Callers, Teardown(p)
  PROVE  IInv'
  <1>. DEFINE t == Stopped(task[p], installed, "client")
  <1>1. /\ task[p].step = "teardown" /\ ~At(p, "idle") /\ installed' = None
        /\ task' = [task EXCEPT ![p] = t] /\ UNCHANGED <<disk, memory, settled, bounds>>
    BY DEF Teardown, At, Become
  <1>2. /\ task[p].cmd \in {"setup", "unlock", "model"} /\ task[p] \in Task
        /\ TaskFits(task[p]) /\ task \in [Callers -> Task]
    BY <1>1, AtWork DEF TaskFits, Rebuild
  <1>3. /\ t \in Task /\ t.step \in {"stopping", "client"} /\ t.cmd = task[p].cmd
        /\ t.clean = task[p].clean /\ (t.step = "stopping" => t.after = "client")
        /\ t.set.up = {} /\ ~t.set.tunnel /\ (t.set.busy => t.step = "stopping")
    <2>. DEFINE Fits(v) ==
             /\ v \in Task
             /\ v = Idle \/ (v.step \in {"stopping", "client"} /\ v.cmd = task[p].cmd
                                 /\ v.clean = task[p].clean)
             /\ v = Idle => "client" = "idle"
             /\ v.step = "stopping" => v.after = "client"
             /\ v.set.up = {} /\ ~v.set.tunnel /\ (v.set.busy => v.step = "stopping")
    <2>1. Fits(t)
      BY <1>2, StoppedFits
    <2>. HIDE DEF t
    <2>. QED
      BY <1>2, <2>1
  <1>. HIDE DEF t
  <1>4. task'[p] = t
    BY <1>1, <1>2
  <1>5. TaskFits(t)
    BY <1>2, <1>3 DEF TaskFits, Rebuild
  <1>6. OtherTypes' /\ MemoryFits'
    BY <1>1 DEF OtherTypes, IInv, TypeOK, MemoryFits, disk, memory, bounds
  <1>7. t.clean => task[p].clean /\ (OthersIdle(p)' => CleanTask(p)')
    BY <1>1, <1>3, <1>4, AtWork DEF CleanTask, Rebuild, disk, memory
  <1>8. settled' => t.clean /\ task[p].clean /\ SettledWith(task[p])'
    BY <1>1, <1>3, <1>4, AtWork DEF SettledWith, TunnelNeedsSharing, disk, memory
  <1>. QED
    BY <1>1, <1>3, <1>5, <1>6, <1>7, <1>8, WorkStep DEF disk
LEMMA BuildClientStep ==
  ASSUME IInv, NEW p \in Callers, BuildClient(p)
  PROVE  IInv'
  <1>. DEFINE t == [task[p] EXCEPT !.step = "api", !.set.model = env]
  <1>1. /\ task[p].step = "client" /\ ~At(p, "idle") /\ task' = [task EXCEPT ![p] = t]
        /\ UNCHANGED <<disk, memory, installed, settled, bounds>> /\ env = config.model
    BY DEF BuildClient, At, Become, IInv, MemoryFits
  <1>2. /\ task[p].cmd \in {"setup", "unlock", "model"} /\ task[p] \in Task /\ env \in Models
        /\ TaskFits(task[p]) /\ task \in [Callers -> Task] /\ task[p].set.up = {}
    BY <1>1, AtWork DEF TaskFits, Rebuild, IInv, TypeOK
  <1>3. /\ t \in Task /\ task'[p] = t /\ t.step = "api" /\ t.cmd = task[p].cmd
        /\ t.set.up = {} /\ t.set.model = env /\ t.set.tunnel = task[p].set.tunnel
        /\ t.set.busy = task[p].set.busy /\ t.clean = task[p].clean
    BY <1>1, <1>2 DEF Task, ServiceSet
  <1>. HIDE DEF t
  <1>4. TaskFits(t)
    BY <1>1, <1>2, <1>3 DEF TaskFits, Rebuild
  <1>5. OtherTypes' /\ MemoryFits'
    BY <1>1 DEF OtherTypes, IInv, TypeOK, MemoryFits, disk, memory, bounds
  <1>6. t.clean => task[p].clean /\ (OthersIdle(p)' => CleanTask(p)')
    BY <1>1, <1>2, <1>3, AtWork DEF CleanTask, Rebuild, disk, memory
  <1>7. settled' => t.clean /\ task[p].clean /\ SettledWith(task[p])'
    BY <1>1, <1>3, AtWork DEF SettledWith, TunnelNeedsSharing, CleanTask, disk, memory
  <1>. QED
    BY <1>1, <1>3, <1>4, <1>5, <1>6, <1>7, WorkStep DEF disk

LEMMA StartApiStep ==
  ASSUME IInv, NEW p \in Callers, StartApi(p)
  PROVE  IInv'
  <1>1. PICK up \in IF config.server THEN Bound({"api"}) ELSE {{}} :
           Become(p, [task[p] EXCEPT !.step = "sharing", !.set.up = up])
    BY DEF StartApi
  <1>. DEFINE t == [task[p] EXCEPT !.step = "sharing", !.set.up = up]
  <1>2. /\ task[p].step = "api" /\ ~At(p, "idle") /\ task' = [task EXCEPT ![p] = t]
        /\ UNCHANGED <<disk, memory, installed, settled, bounds>>
        /\ up \subseteq {"api"} /\ ("api" \in up => config.server)
    BY <1>1 DEF StartApi, Bound, At, Become
  <1>3. /\ task[p].cmd \in {"setup", "unlock", "model"} /\ task[p] \in Task
        /\ TaskFits(task[p]) /\ task \in [Callers -> Task]
        /\ ~task[p].set.busy /\ ~task[p].set.tunnel
    BY <1>2, AtWork DEF TaskFits, Rebuild
  <1>4. /\ t \in Task /\ task'[p] = t /\ t.step = "sharing" /\ t.cmd = task[p].cmd
        /\ t.set.up = up /\ t.set.model = task[p].set.model /\ ~t.set.tunnel
        /\ ~t.set.busy /\ t.clean = task[p].clean
    BY <1>2, <1>3 DEF Task, ServiceSet
  <1>. HIDE DEF t
  <1>5. TaskFits(t)
    BY <1>2, <1>3, <1>4 DEF TaskFits, Rebuild
  <1>6. OtherTypes' /\ MemoryFits'
    BY <1>2 DEF OtherTypes, IInv, TypeOK, MemoryFits, disk, memory, bounds
  <1>7. t.clean => task[p].clean /\ (OthersIdle(p)' => CleanTask(p)')
    BY <1>2, <1>3, <1>4, AtWork DEF CleanTask, Rebuild, disk, memory
  <1>8. settled' => t.clean /\ task[p].clean /\ SettledWith(task[p])'
    BY <1>2, <1>4, AtWork DEF SettledWith, TunnelNeedsSharing, CleanTask, disk, memory
  <1>. QED
    BY <1>2, <1>4, <1>5, <1>6, <1>7, <1>8, WorkStep DEF disk

LEMMA StartSharingStep ==
  ASSUME IInv, NEW p \in Callers, StartSharing(p)
  PROVE  IInv'
  <1>1. PICK up \in IF config.sharing THEN Bound({"owner", "shared"}) ELSE {{}} :
           Become(p, [task[p] EXCEPT !.step = "install", !.set.up = @ \cup up])
    BY DEF StartSharing
  <1>. DEFINE t == [task[p] EXCEPT !.step = "install", !.set.up = @ \cup up]
  <1>2. /\ task[p].step = "sharing" /\ ~At(p, "idle") /\ task' = [task EXCEPT ![p] = t]
        /\ UNCHANGED <<disk, memory, installed, settled, bounds>>
        /\ up \subseteq {"owner", "shared"} /\ (up # {} => config.sharing)
    BY <1>1 DEF StartSharing, Bound, At, Become
  <1>3. /\ task[p].cmd \in {"setup", "unlock", "model"} /\ task[p] \in Task
        /\ TaskFits(task[p]) /\ task \in [Callers -> Task]
        /\ task[p].set.up \subseteq {"api"} /\ ~task[p].set.tunnel
        /\ task[p].set.busy => "api" \in task[p].set.up
    BY <1>2, AtWork DEF TaskFits, Rebuild
  <1>4. /\ t \in Task /\ task'[p] = t /\ t.step = "install" /\ t.cmd = task[p].cmd
        /\ t.set.up = task[p].set.up \cup up /\ t.set.model = task[p].set.model
        /\ ~t.set.tunnel /\ t.set.busy = task[p].set.busy /\ t.clean = task[p].clean
    BY <1>2, <1>3 DEF Task, ServiceSet
  <1>. HIDE DEF t
  <1>5. TaskFits(t)
    BY <1>2, <1>3, <1>4 DEF TaskFits, Rebuild
  <1>6. OtherTypes' /\ MemoryFits'
    BY <1>2 DEF OtherTypes, IInv, TypeOK, MemoryFits, disk, memory, bounds
  <1>7. t.clean => task[p].clean /\ (OthersIdle(p)' => CleanTask(p)')
    BY <1>2, <1>3, <1>4, AtWork DEF CleanTask, Rebuild, disk, memory
  <1>8. settled' => t.clean /\ task[p].clean /\ SettledWith(task[p])'
    BY <1>2, <1>4, AtWork DEF SettledWith, TunnelNeedsSharing, CleanTask, disk, memory
  <1>. QED
    BY <1>2, <1>4, <1>5, <1>6, <1>7, <1>8, WorkStep DEF disk

\* After an unlock that ran alone the session is in order, whatever it was before.
LEMMA InstallStep ==
  ASSUME IInv, NEW p \in Callers, Install(p)
  PROVE  IInv'
  <1>. DEFINE t == task[p]
              u == Stopped(t, t.set, "idle")
  <1>1. /\ t.step = "install" /\ ~At(p, "idle") /\ UNCHANGED <<disk, memory, bounds>>
        /\ settled' = (settled \/ (t.clean /\ t.cmd = "unlock"))
        /\ IF current # None THEN installed' = t.set /\ Finish(p)
           ELSE UNCHANGED installed /\ task' = [task EXCEPT ![p] = u]
    BY DEF Install, At, Become
  <1>2. /\ t.cmd \in {"setup", "unlock", "model"} /\ t \in Task /\ t.set \in ServiceSet
        /\ TaskFits(t) /\ task \in [Callers -> Task] /\ ~t.set.tunnel
    BY <1>1, AtWork DEF TaskFits, Rebuild, Task
  <1>3. OtherTypes' /\ MemoryFits'
    BY <1>1, <1>2 DEF OtherTypes, IInv, TypeOK, MemoryFits, disk, memory, bounds
  <1>4. settled' => /\ t.clean /\ CleanTask(p)
                    /\ current # None /\ saved.key \in Keys => saved.val = config
                    /\ current = None => settled /\ installed = None
    <2>1. settled' => t.clean /\ CleanTask(p)
      BY <1>1, AtWork
    <2>2. settled => SettledWith(t)
      BY <1>1, AtWork
    <2>. QED
      BY <1>1, <2>1, <2>2 DEF CleanTask, SettledWith, Rebuild
  <1>5. CASE current # None
    <2>1. settled' => t.clean /\ SettledWith(Idle)'
      BY <1>1, <1>2, <1>4, <1>5 DEF SettledWith, TunnelNeedsSharing, CleanTask, disk, memory, Idle
    <2>. QED
      BY <1>1, <1>3, <1>5, <2>1, FinishStep DEF disk
  <1>6. CASE current = None
    <2>1. /\ u \in Task /\ TaskFits(u)
          /\ u = Idle \/ (u.step = "stopping" /\ u.clean = t.clean /\ u.cmd = t.cmd
                             /\ u.after = "idle")
      <3>. DEFINE Fits(v) ==
               /\ v \in Task
               /\ v = Idle \/ (v.step \in {"stopping", "idle"} /\ v.cmd = t.cmd /\ v.clean = t.clean)
               /\ v.step = "idle" => v = Idle
               /\ v.step = "stopping" => v.after = "idle"
               /\ v.set.up = {} /\ ~v.set.tunnel /\ (v.set.busy => v.step = "stopping")
      <3>1. Fits(u)
        BY <1>2, StoppedFits
      <3>. HIDE DEF u
      <3>. QED
        BY <3>1, IdleFits DEF TaskFits, Rebuild
    <2>. HIDE DEF u
    <2>2. task' = [task EXCEPT ![p] = u] /\ task'[p] = u /\ UNCHANGED installed
      BY <1>1, <1>2, <1>6
    <2>3. u.step # "idle" /\ u.clean => t.clean /\ (OthersIdle(p)' => CleanTask(p)')
      <3>1. t.clean => ~(t.cmd = "unlock")
        BY <1>1, <1>6, AtWork DEF CleanTask, Rebuild
      <3>. QED
        BY <1>1, <2>1, <2>2, <3>1, IdleFits DEF CleanTask, Rebuild
    <2>4. settled' => u.clean /\ t.clean /\ SettledWith(task[p])'
      BY <1>1, <1>4, <1>6, <2>1, <2>2, IdleFits
      DEF SettledWith, TunnelNeedsSharing, disk, memory
    <2>. QED
      BY <1>1, <1>3, <2>1, <2>2, <2>3, <2>4, WorkStep, IdleFits DEF disk
  <1>. QED
    BY <1>5, <1>6
LEMMA StopEndsStep ==
  ASSUME IInv, NEW p \in Callers, StopEnds(p)
  PROVE  IInv'
  <1>. DEFINE a == task[p].after
  <1>1. /\ task[p].step = "stopping" /\ ~At(p, "idle") /\ ~task[p].set.busy
        /\ IF a = "idle" THEN Finish(p) ELSE GoTo(p, a)
        /\ UNCHANGED <<disk, memory, installed, settled, bounds>>
    BY DEF StopEnds, At
  <1>2. /\ a \in {"forget", "client", "idle"} /\ TaskFits(task[p]) /\ task \in [Callers -> Task]
        /\ a = "client" => task[p].cmd \in {"setup", "unlock", "model"}
        /\ a = "forget" => task[p].cmd = "lock"
    BY <1>1, AtWork DEF TaskFits, Task
  <1>3. OtherTypes' /\ MemoryFits'
    BY <1>1 DEF OtherTypes, IInv, TypeOK, MemoryFits, disk, memory, bounds
  <1>4. CASE a = "idle"
    <2>1. settled' => task[p].clean /\ SettledWith(Idle)'
      BY <1>1, <1>2, AtWork DEF SettledWith, TunnelNeedsSharing, disk, memory, Idle
    <2>. QED
      BY <1>1, <1>3, <1>4, <2>1, FinishStep DEF disk
  <1>5. CASE a # "idle"
    <2>1. PICK t \in Task :
             /\ task' = [task EXCEPT ![p] = t] /\ task'[p] = t /\ t.step = a
             /\ t.cmd = task[p].cmd /\ t.arg = task[p].arg /\ t.next = task[p].next
             /\ t.set = task[p].set /\ t.after = task[p].after /\ t.clean = task[p].clean
      BY <1>1, <1>2, <1>5, MovedOn DEF Steps, Rebuild
    <2>2. TaskFits(t)
      BY <1>1, <1>2, <1>5, <2>1 DEF TaskFits, Rebuild
    <2>3. t.clean => task[p].clean /\ (OthersIdle(p)' => CleanTask(p)')
      BY <1>1, <1>2, <1>5, <2>1, AtWork DEF CleanTask, Rebuild, disk, memory
    <2>4. settled' => t.clean /\ task[p].clean /\ SettledWith(task[p])'
      BY <1>1, <1>2, <1>5, <2>1, AtWork DEF SettledWith, TunnelNeedsSharing, disk, memory
    <2>. QED
      BY <1>1, <1>2, <1>3, <1>5, <2>1, <2>2, <2>3, <2>4, WorkStep DEF disk
  <1>. QED
    BY <1>4, <1>5

LEMMA ForgetStep ==
  ASSUME IInv, NEW p \in Callers, Forget(p)
  PROVE  IInv'
  <1>1. /\ task[p].step = "forget" /\ ~At(p, "idle") /\ current' = None /\ Finish(p)
        /\ UNCHANGED <<disk, config, env, installed, settled, bounds>>
    BY DEF Forget, At
  <1>2. OtherTypes' /\ MemoryFits'
    BY <1>1 DEF OtherTypes, IInv, TypeOK, MemoryFits, disk, bounds
  <1>3. settled' => task[p].clean /\ SettledWith(Idle)'
    <2>1. settled => task[p].clean /\ installed = None
      BY <1>1, AtWork DEF CleanTask
    <2>. QED
      BY <1>1, <2>1 DEF SettledWith, TunnelNeedsSharing
  <1>. QED
    BY <1>1, <1>2, <1>3, FinishStep DEF disk

\* What a toggle leaves of the live set.
LEMMA ToggleStep ==
  ASSUME IInv, NEW p \in Callers, Toggle(p)
  PROVE  IInv'
  <1>. DEFINE t == task[p]
  <1>1. /\ t.step = "servers" /\ ~At(p, "idle") /\ UNCHANGED <<disk, memory, settled, bounds>>
    BY DEF Toggle, At
  <1>2. /\ t.cmd \in {"server", "sharing"} /\ t.arg \in BOOLEAN /\ t \in Task
        /\ TaskFits(t) /\ task \in [Callers -> Task]
    BY <1>1, AtWork DEF TaskFits
  <1>3. /\ settled => t.clean /\ SettledWith(t) /\ config[t.cmd] = t.arg
    BY <1>1, AtWork DEF CleanTask
  <1>4. CASE installed = None /\ UNCHANGED installed /\ Finish(p)
    <2>1. OtherTypes' /\ MemoryFits'
      BY <1>1, <1>4 DEF OtherTypes, IInv, TypeOK, MemoryFits, disk, memory, bounds
    <2>2. settled' => t.clean /\ SettledWith(Idle)'
      BY <1>1, <1>2, <1>3, <1>4 DEF SettledWith, TunnelNeedsSharing, disk, memory, Idle
    <2>. QED
      BY <1>1, <1>4, <2>1, <2>2, FinishStep DEF disk
  <1>5. CASE /\ installed # None /\ t.cmd = "sharing"
             /\ installed' \in ToggleSharing(installed, t.arg) /\ Finish(p)
    <2>1. /\ installed \in ServiceSet /\ installed' \in ServiceSet
          /\ installed'.model = installed.model
          /\ "api" \in installed'.up <=> "api" \in installed.up
          /\ installed'.tunnel => installed.tunnel /\ t.arg
          /\ "shared" \in installed.up /\ t.arg => "shared" \in installed'.up
          /\ ~t.arg => installed'.up \cap {"owner", "shared"} = {}
      <3>1. installed \in ServiceSet
        BY <1>5 DEF IInv, TypeOK
      <3>2. CASE t.arg
        <4>1. PICK up \in SUBSET {"owner", "shared"} : installed' = [installed EXCEPT !.up = @ \cup up]
          BY <1>5, <3>2 DEF ToggleSharing, Bound
        <4>. QED
          BY <3>1, <3>2, <4>1 DEF ServiceSet
      <3>3. CASE ~t.arg
        <4>1. installed' = [installed EXCEPT !.up = @ \ {"owner", "shared"}, !.tunnel = FALSE]
          BY <1>5, <3>3 DEF ToggleSharing, Bound
        <4>. QED
          BY <3>1, <3>3, <4>1 DEF ServiceSet
      <3>. QED
        BY <3>1, <3>2, <3>3
    <2>2. OtherTypes' /\ MemoryFits'
      BY <1>1, <2>1 DEF OtherTypes, IInv, TypeOK, MemoryFits, disk, memory, bounds
    <2>3. settled' => t.clean /\ SettledWith(Idle)'
      BY <1>1, <1>2, <1>3, <1>5, <2>1 DEF SettledWith, TunnelNeedsSharing, disk, memory, Idle
    <2>. QED
      BY <1>1, <1>5, <2>2, <2>3, FinishStep DEF disk
  <1>6. CASE /\ installed # None /\ t.cmd = "server"
             /\ installed' \in ToggleApi(installed, t.arg)
             /\ Become(p, IF t.arg THEN Idle ELSE Stopped(t, installed, "idle"))
    <2>. DEFINE u == IF t.arg THEN Idle ELSE Stopped(t, installed, "idle")
    <2>1. /\ installed \in ServiceSet /\ installed' \in ServiceSet
          /\ installed'.model = installed.model /\ installed'.tunnel = installed.tunnel
          /\ \A x \in {"owner", "shared"} : x \in installed'.up <=> x \in installed.up
          /\ ~t.arg => "api" \notin installed'.up
      <3>1. installed \in ServiceSet
        BY <1>6 DEF IInv, TypeOK
      <3>2. CASE t.arg
        <4>1. PICK up \in {{}, {"api"}} : installed' = [installed EXCEPT !.up = @ \cup up]
          BY <1>6, <3>2 DEF ToggleApi, Bound
        <4>. QED
          BY <3>1, <3>2, <4>1 DEF ServiceSet
      <3>3. CASE ~t.arg
        <4>1. installed' = [installed EXCEPT !.up = @ \ {"api"}, !.busy = FALSE]
          BY <1>6, <3>3 DEF ToggleApi, Bound
        <4>. QED
          BY <3>1, <3>3, <4>1 DEF ServiceSet
      <3>. QED
        BY <3>1, <3>2, <3>3
    <2>2. OtherTypes' /\ MemoryFits'
      BY <1>1, <2>1 DEF OtherTypes, IInv, TypeOK, MemoryFits, disk, memory, bounds
    <2>3. /\ u \in Task /\ TaskFits(u)
          /\ u = Idle \/ (u.step = "stopping" /\ u.clean = t.clean /\ u.cmd = "server"
                             /\ u.after = "idle")
      <3>. DEFINE Fits(v) ==
               /\ v \in Task
               /\ v = Idle \/ (v.step \in {"stopping", "idle"} /\ v.cmd = t.cmd /\ v.clean = t.clean)
               /\ v.step = "idle" => v = Idle
               /\ v.step = "stopping" => v.after = "idle"
               /\ v.set.up = {} /\ ~v.set.tunnel /\ (v.set.busy => v.step = "stopping")
      <3>1. CASE t.arg
        BY <3>1, IdleFits
      <3>2. CASE ~t.arg
        <4>1. Fits(Stopped(t, installed, "idle"))
          BY <1>2, StoppedFits
        <4>2. Fits(u)
          BY <3>2, <4>1
        <4>. HIDE DEF u
        <4>. QED
          BY <1>6, <4>2, IdleFits DEF TaskFits, Rebuild
      <3>. QED
        BY <1>2, <3>1, <3>2
    <2>4. task' = [task EXCEPT ![p] = u]
      BY <1>6 DEF Become
    <2>. HIDE DEF u
    <2>5. task'[p] = u
      BY <1>2, <2>4
    <2>6. u.step # "idle" /\ u.clean => t.clean /\ (OthersIdle(p)' => CleanTask(p)')
      BY <2>3, <2>5, IdleFits DEF CleanTask, Rebuild
    <2>7. settled' => u.clean /\ t.clean /\ SettledWith(task[p])'
      <3>. SUFFICES ASSUME settled'
                    PROVE  u.clean /\ t.clean /\ SettledWith(task[p])'
        OBVIOUS
      <3>1. t.clean /\ SettledWith(t) /\ config.server = t.arg
        BY <1>1, <1>3, <1>6
      <3>2. u.clean /\ u.cmd \in {"none", "server"} /\ u.step \in {"idle", "stopping"}
        <4>1. Idle.cmd = "none"
          BY DEF Idle
        <4>. QED
          BY <2>3, <3>1, <4>1, IdleFits
      <3>. QED
        BY <1>1, <1>2, <1>6, <2>1, <2>5, <3>1, <3>2
        DEF SettledWith, TunnelNeedsSharing, disk, memory
    <2>. QED
      BY <1>1, <2>2, <2>3, <2>4, <2>6, <2>7, WorkStep, IdleFits DEF disk
  <1>. QED
    BY <1>4, <1>5, <1>6 DEF Toggle

LEMMA SpawnTunnelStep ==
  ASSUME IInv, NEW p \in Callers, SpawnTunnel(p)
  PROVE  IInv'
  <1>1. /\ task[p].step = "spawn" /\ ~At(p, "idle")
        /\ GoTo(p, "tunnel") \/ Finish(p)
        /\ UNCHANGED <<disk, memory, installed, settled, bounds>>
    BY DEF SpawnTunnel, At
  <1>2. task[p].cmd = "tunnel" /\ TaskFits(task[p]) /\ task \in [Callers -> Task]
    BY <1>1, AtWork DEF TaskFits
  <1>3. OtherTypes' /\ MemoryFits'
    BY <1>1 DEF OtherTypes, IInv, TypeOK, MemoryFits, disk, memory, bounds
  <1>4. CASE Finish(p)
    <2>1. settled' => task[p].clean /\ SettledWith(Idle)'
      BY <1>1, <1>2, AtWork DEF SettledWith, TunnelNeedsSharing, disk, memory, Idle
    <2>. QED
      BY <1>1, <1>3, <1>4, <2>1, FinishStep DEF disk
  <1>5. CASE GoTo(p, "tunnel")
    <2>1. PICK t \in Task :
             /\ task' = [task EXCEPT ![p] = t] /\ task'[p] = t /\ t.step = "tunnel"
             /\ t.cmd = task[p].cmd /\ t.arg = task[p].arg /\ t.next = task[p].next
             /\ t.set = task[p].set /\ t.after = task[p].after /\ t.clean = task[p].clean
      BY <1>2, <1>5, MovedOn DEF Steps
    <2>2. TaskFits(t)
      BY <1>1, <1>2, <2>1 DEF TaskFits, Rebuild
    <2>3. t.clean => task[p].clean /\ (OthersIdle(p)' => CleanTask(p)')
      BY <1>1, <2>1, AtWork DEF CleanTask, Rebuild, memory, disk
    <2>4. settled' => t.clean /\ task[p].clean /\ SettledWith(task[p])'
      BY <1>1, <2>1, AtWork DEF SettledWith, TunnelNeedsSharing, memory, disk
    <2>. QED
      BY <1>1, <1>3, <2>1, <2>2, <2>3, <2>4, WorkStep DEF disk
  <1>. QED
    BY <1>1, <1>4, <1>5

LEMMA InstallTunnelStep ==
  ASSUME IInv, NEW p \in Callers, InstallTunnel(p)
  PROVE  IInv'
  <1>1. /\ task[p].step = "tunnel" /\ ~At(p, "idle") /\ Finish(p)
        /\ UNCHANGED <<disk, memory, settled, bounds>>
        /\ \/ installed # None /\ installed' = [installed EXCEPT !.tunnel = TRUE]
           \/ installed = None /\ UNCHANGED installed
    BY DEF InstallTunnel, At
  <1>2. /\ settled => task[p].clean /\ SettledWith(task[p]) /\ task[p].cmd = "tunnel"
        /\ settled => installed = None \/ "shared" \in installed.up
    BY <1>1, AtWork DEF CleanTask, TaskFits
  <1>3. installed # None =>
           /\ installed' \in ServiceSet /\ installed'.up = installed.up
           /\ installed'.model = installed.model
    BY <1>1 DEF IInv, TypeOK, ServiceSet
  <1>4. OtherTypes' /\ MemoryFits'
    BY <1>1, <1>3 DEF OtherTypes, IInv, TypeOK, MemoryFits, disk, memory, bounds
  <1>5. settled' => task[p].clean /\ SettledWith(Idle)'
    BY <1>1, <1>2, <1>3 DEF SettledWith, TunnelNeedsSharing, disk, memory, Idle
  <1>. QED
    BY <1>1, <1>4, <1>5, FinishStep DEF disk

\* Any step of a command under way.
LEMMA WorkKeeps ==
  ASSUME IInv, NEW p \in Callers, Work(p)
  PROVE  IInv'
  <1>1. ASSUME Restore(p)
        PROVE  IInv'
    BY <1>1, RestoredStep DEF Restore, bounds, IInv, TypeOK
  <1>2. ASSUME Apply(p)
        PROVE  IInv'
    BY <1>2, ApplyKeyStep DEF Apply, bounds, IInv, TypeOK
  <1>. QED
    BY <1>1, <1>2, WriteKeystoreStep, RememberStep, PutSecretStep, SnapshotStep, PutConfigStep,
       CommitStep, TeardownStep, BuildClientStep, StartApiStep, StartSharingStep, InstallStep,
       StopEndsStep, ForgetStep, ToggleStep, SpawnTunnelStep, InstallTunnelStep DEF Work
-----------------------------------------------------------------------------
(***************************************************************************)
(* Steps of nobody's command: the tunnel is stopped, requests come and go, *)
(* a store call fails, the process crashes.                                *)
(***************************************************************************)

\* What the live set serves, and through which tunnel, is nobody's concern while it stays.
LEMMA LiveSetStep ==
  ASSUME IInv, UNCHANGED <<disk, memory, task, settled, faults, crashes>>, calls' \in Nat,
         installed # None, installed' \in ServiceSet, installed'.up = installed.up,
         installed'.model = installed.model, installed'.tunnel => installed.tunnel
  PROVE  IInv'
  <1>1. TypeOK' /\ TasksFit' /\ MemoryFits'
    BY DEF IInv, TypeOK, TasksFit, MemoryFits, At, disk, memory
  <1>2. ASSUME NEW p \in Callers, CleanTask(p)
        PROVE  CleanTask(p)'
    BY <1>2 DEF CleanTask, OthersIdle, At, disk, memory
  <1>3. CleanTasks'
    BY <1>2 DEF IInv, CleanTasks, At
  <1>4. ASSUME NEW t, SettledWith(t)
        PROVE  /\ current' = None \/ t.cmd = "setup" => installed' = None
               /\ TunnelNeedsSharing'
               /\ installed' # None =>
                     /\ "api" \in installed'.up => config'.server \/ (t.step = "servers" /\ t.cmd = "server")
                     /\ installed'.up \cap {"owner", "shared"} # {} =>
                           config'.sharing \/ (t.step = "servers" /\ t.cmd = "sharing")
                     /\ installed'.model = config'.model
                           \/ (t.step \in {"apply", "teardown"} /\ t.cmd = "model")
                     /\ saved'.key \in Keys => saved'.val = config' \/ t.step = "commit"
               /\ current' # None /\ saved'.key \in Keys =>
                     saved'.val = config' \/ t.step \in {"commit", "restore"}
    BY <1>4 DEF SettledWith, TunnelNeedsSharing, disk, memory
  <1>5. SettledWith(Idle) => SettledWith(Idle)'
    BY <1>4 DEF SettledWith
  <1>6. ASSUME NEW p \in Callers, SettledWith(task[p])
        PROVE  SettledWith(task[p])'
    BY <1>4, <1>6 DEF SettledWith
  <1>7. settled' => Settled'
    BY <1>5, <1>6 DEF IInv, Settled, AtRest, At
  <1>. QED
    BY <1>1, <1>3, <1>7 DEF IInv

LEMMA StopTunnelStep ==
  ASSUME IInv, NEW p \in Callers, StopTunnel(p)
  PROVE  IInv'
  <1>1. installed # None /\ installed' = [installed EXCEPT !.tunnel = FALSE]
    BY DEF StopTunnel
  <1>2. /\ installed' \in ServiceSet /\ installed'.up = installed.up
        /\ installed'.model = installed.model /\ ~installed'.tunnel
    BY <1>1 DEF IInv, TypeOK, ServiceSet
  <1>3. calls' \in Nat
    BY DEF StopTunnel, IInv, TypeOK
  <1>. QED
    BY <1>1, <1>2, <1>3, LiveSetStep DEF StopTunnel

LEMMA ServingStep ==
  ASSUME IInv, NEW busy \in BOOLEAN, Serving(busy), UNCHANGED <<disk, memory, settled, bounds>>
  PROVE  IInv'
  <1>1. CASE installed # None /\ installed' = [installed EXCEPT !.busy = busy] /\ UNCHANGED task
    <2>1. /\ installed' \in ServiceSet /\ installed'.up = installed.up
          /\ installed'.model = installed.model /\ installed'.tunnel = installed.tunnel
      BY <1>1 DEF IInv, TypeOK, ServiceSet
    <2>. QED
      BY <1>1, <2>1, LiveSetStep DEF bounds, IInv, TypeOK
  <1>2. ASSUME NEW p \in Callers, task[p].set.busy = ~busy, "api" \in task[p].set.up \/ ~busy,
               Become(p, [task[p] EXCEPT !.set.busy = busy]), UNCHANGED installed
        PROVE  IInv'
    <2>. DEFINE t == [task[p] EXCEPT !.set.busy = busy]
    <2>1. task \in [Callers -> Task] /\ task[p] \in Task /\ TaskFits(task[p])
      BY DEF IInv, TypeOK, TasksFit
    <2>2. ~At(p, "idle")
      <3>1. Idle.set.up = {} /\ ~Idle.set.busy
        BY DEF Idle, Down
      <3>. QED
        BY <1>2, <2>1, <3>1 DEF At, TaskFits
    <2>3. task' = [task EXCEPT ![p] = t]
      BY <1>2 DEF Become
    <2>4. /\ t \in Task /\ task'[p] = t /\ t.step = task[p].step /\ t.cmd = task[p].cmd
          /\ t.arg = task[p].arg /\ t.next = task[p].next /\ t.after = task[p].after
          /\ t.clean = task[p].clean /\ t.set.up = task[p].set.up
          /\ t.set.model = task[p].set.model /\ t.set.tunnel = task[p].set.tunnel
          /\ t.set.busy = busy
      BY <2>1, <2>3 DEF Task, ServiceSet
    <2>. HIDE DEF t
    <2>5. TaskFits(t)
      BY <1>2, <2>1, <2>2, <2>4 DEF TaskFits, At
    <2>6. OtherTypes' /\ MemoryFits'
      BY <1>2 DEF OtherTypes, IInv, TypeOK, MemoryFits, disk, memory, bounds
    <2>7. t.clean => task[p].clean /\ (OthersIdle(p)' => CleanTask(p)')
      <3>. SUFFICES ASSUME task[p].clean, OthersIdle(p)'
                    PROVE  CleanTask(p)'
        BY <2>4
      <3>1. CleanTask(p) /\ UNCHANGED <<config, current, saved, installed>>
        BY <1>2, <2>2, AtWork DEF disk, memory
      <3>2. task[p].step \in {"put", "commit"} /\ task[p].cmd \in Switches =>
               task'[p].next = [config' EXCEPT ![task'[p].cmd] = task'[p].arg]
        <4>1. task[p].step \in {"put", "commit"} /\ task[p].cmd \in Switches =>
                 task[p].next = [config EXCEPT ![task[p].cmd] = task[p].arg]
          BY <3>1 DEF CleanTask
        <4>. QED
          BY <2>4, <3>1, <4>1
      <3>3. task[p].step \in {"put", "commit"} /\ task[p].cmd = "model" =>
               task'[p].next = [config' EXCEPT !.model = task'[p].arg]
        BY <2>4, <3>1 DEF CleanTask
      <3>4. task[p].step = "servers" => config'[task'[p].cmd] = task'[p].arg
        BY <2>4, <3>1 DEF CleanTask
      <3>5. /\ task[p].step = "commit" => current' # None /\ saved' = [key |-> current', val |-> task'[p].next]
            /\ task[p].step \in {"client", "api", "sharing", "install", "forget"} => installed' = None
            /\ task[p].step = "stopping" /\ task[p].after \in {"client", "forget"} => installed' = None
            /\ task[p].step \in {"api", "sharing", "install"} => t.set.model = config'.model
            /\ task[p].step \in {"sharing", "install"} /\ "api" \in t.set.up => config'.server
            /\ task[p].step = "install" /\ t.set.up \cap {"owner", "shared"} # {} => config'.sharing
            /\ task[p].step \in {"keystore", "remember", "put"} /\ task[p].cmd = "setup" =>
                  saved'.key \notin Keys
            /\ task[p].step \in Rebuild \cup {"stopping"} /\ task[p].cmd = "unlock" =>
                  /\ current' # None
                  /\ saved'.key \in Keys => saved'.val = config'
            /\ task[p].step \in {"spawn", "tunnel"} => installed' = None \/ "shared" \in installed'.up
        BY <2>4, <3>1 DEF CleanTask
      <3>. QED
        BY <2>4, <3>2, <3>3, <3>4, <3>5 DEF CleanTask
    <2>8. settled' => t.clean /\ task[p].clean /\ SettledWith(task[p])'
      BY <1>2, <2>2, <2>4, AtWork DEF SettledWith, TunnelNeedsSharing, disk, memory
    <2>. QED
      BY <2>2, <2>3, <2>4, <2>5, <2>6, <2>7, <2>8, WorkStep, AtWork DEF disk, IInv, TasksFit, At
  <1>. QED
    BY <1>1, <1>2 DEF Serving

\* A write that breaks off leaves the other files alone, and never the keystore away.
LEMMA TearFits ==
  ASSUME IInv, NEW p \in Callers, Tear(p)
  PROVE  /\ keystore' \in Doc /\ secret' \in Doc /\ saved' \in [key : Doc, val : Config]
         /\ keystore # None => keystore' # None
         /\ keystore' = None => keystore = None
         /\ saved' = saved \/ saved'.key \notin Keys
  <1>1. Torn \in Doc /\ Torn # None /\ Torn \notin Keys
    BY SessionAssumption DEF Doc
  <1>. QED
    BY <1>1, DefaultType DEF Tear, IInv, TypeOK

LEMMA StoreFailsStep ==
  ASSUME IInv, NEW p \in Callers, StoreFails(p)
  PROVE  IInv'
  <1>1. faults' \in Nat /\ UNCHANGED <<installed, calls, crashes>>
    BY DEF StoreFails, IInv, TypeOK
  <1>2. CASE Restored(p, FALSE) /\ UNCHANGED <<disk, current>>
    BY <1>1, <1>2, RestoredStep
  <1>3. CASE ApplyKey(p, FALSE) /\ UNCHANGED <<disk, memory>>
    BY <1>1, <1>3, ApplyKeyStep
  <1>4. CASE /\ task[p].step \in {"keystore", "secret", "put"} /\ Finish(p)
             /\ UNCHANGED disk \/ Tear(p)
             /\ UNCHANGED <<memory, settled>>
    <2>1. ~At(p, "idle")
      BY <1>4 DEF At
    <2>2. /\ keystore' \in Doc /\ secret' \in Doc /\ saved' \in [key : Doc, val : Config]
          /\ keystore # None => keystore' # None
          /\ keystore' = None => keystore = None
          /\ saved' = saved \/ saved'.key \notin Keys
      BY <1>4, TearFits DEF disk, IInv, TypeOK
    <2>3. OtherTypes' /\ MemoryFits'
      BY <1>1, <1>4, <2>2 DEF OtherTypes, IInv, TypeOK, MemoryFits, memory
    <2>4. settled' => task[p].clean /\ SettledWith(Idle)'
      <3>1. settled => task[p].clean /\ SettledWith(task[p])
        BY <2>1, AtWork
      <3>. QED
        BY <1>1, <1>4, <2>2, <3>1 DEF SettledWith, TunnelNeedsSharing, memory, Idle
    <2>. QED
      BY <1>4, <2>1, <2>2, <2>3, <2>4, FinishStep
  <1>. QED
    BY <1>2, <1>3, <1>4 DEF StoreFails

LEMMA CrashStep ==
  ASSUME IInv, Crash
  PROVE  IInv'
  <1>1. /\ keystore' \in Doc /\ secret' \in Doc /\ saved' \in [key : Doc, val : Config]
        /\ keystore' = None => keystore = None
        /\ saved' = saved \/ saved'.key \notin Keys
    <2>1. CASE UNCHANGED disk
      BY <2>1 DEF disk, IInv, TypeOK
    <2>. QED
      BY <2>1, TearFits DEF Crash
  <1>2. /\ current' = None /\ config' = Default /\ env' = DefaultModel /\ installed' = None
        /\ task' = [p \in Callers |-> Idle] /\ settled' = TRUE
        /\ UNCHANGED <<calls, faults>> /\ crashes' \in Nat
    BY DEF Crash, IInv, TypeOK
  <1>3. Default.model = DefaultModel /\ Default \in Config /\ DefaultModel \in Models
    BY DefaultType, SessionAssumption DEF Default
  <1>4. TypeOK'
    BY <1>1, <1>2, <1>3, IdleFits DEF TypeOK, IInv
  <1>5. TasksFit' /\ CleanTasks'
    BY <1>2, IdleFits DEF TasksFit, CleanTasks, At
  <1>6. MemoryFits'
    BY <1>1, <1>2, <1>3 DEF IInv, MemoryFits
  <1>7. SettledWith(Idle)'
    BY <1>2 DEF SettledWith, TunnelNeedsSharing
  <1>8. Settled'
    BY <1>2, <1>7, IdleFits DEF Settled, At
  <1>. QED
    BY <1>4, <1>5, <1>6, <1>8 DEF IInv

LEMMA InvariantInit == Init => IInv
  <1>. SUFFICES ASSUME Init
                PROVE  IInv
    OBVIOUS
  <1>1. PICK k \in Keys \cup {None} : \E c \in IF k = None THEN {Default} ELSE Earlier :
           keystore = k /\ saved = [key |-> k, val |-> c]
    BY DEF Init
  <1>2. /\ keystore \in Doc /\ saved \in [key : Doc, val : Config]
        /\ keystore = None => saved.key \notin Keys
    BY <1>1, DefaultType, SessionAssumption DEF Doc, Config
  <1>3. Default.model = DefaultModel /\ Default \in Config /\ DefaultModel \in Models
    BY DefaultType, SessionAssumption DEF Default
  <1>4. TypeOK
    BY <1>2, <1>3, IdleFits DEF Init, TypeOK, Doc
  <1>5. TasksFit /\ CleanTasks
    BY IdleFits DEF Init, TasksFit, CleanTasks, At
  <1>6. MemoryFits
    BY <1>2, <1>3 DEF Init, MemoryFits
  <1>7. SettledWith(Idle)
    BY DEF Init, SettledWith, TunnelNeedsSharing
  <1>8. Settled
    BY <1>7, IdleFits DEF Init, Settled, At
  <1>. QED
    BY <1>4, <1>5, <1>6, <1>8 DEF IInv

LEMMA InvariantStep == IInv /\ [Next]_vars => IInv'
  <1>. SUFFICES ASSUME IInv, [Next]_vars
                PROVE  IInv'
    OBVIOUS
  <1>1. CASE Receive \/ Respond
    BY <1>1, ServingStep DEF Receive, Respond
  <1>2. CASE UNCHANGED vars
    BY <1>2, SMTT(30) DEF vars, disk, memory, bounds, IInv, TypeOK, TasksFit, MemoryFits, CleanTasks,
       CleanTask, OthersIdle, Settled, SettledWith, TunnelNeedsSharing, AtRest, At
  <1>. QED
    BY <1>1, <1>2, BeginSetupStep, BeginUnlockStep, BeginLockStep, BeginSetStep, BeginSelectStep,
       BeginTunnelStep, StopTunnelStep, WorkKeeps, StoreFailsStep, CrashStep DEF Next

THEOREM InductiveInvariant == Spec => []IInv
  BY InvariantInit, InvariantStep, PTL DEF Spec
-----------------------------------------------------------------------------
(***************************************************************************)
(* The results.                                                            *)
(***************************************************************************)

\* Type correctness: every variable keeps its type in every reachable state.
THEOREM TypeCorrect == Spec => []TypeOK
  <1>1. IInv => TypeOK
    BY DEF IInv
  <1>. QED
    BY <1>1, InductiveInvariant, PTL

\* A locked vault has no live services once the commands have come to rest, unless
\* commands overlapped and no unlock has run alone since (main.rs, lock and unlock).
THEOREM StaysDown == Spec => []LockedMeansDown
  <1>1. IInv => LockedMeansDown
    BY DEF IInv, LockedMeansDown, Settled, SettledWith
  <1>. QED
    BY <1>1, InductiveInvariant, PTL

\* What listens, what is in front of it and what the answers are made with is what the
\* owner configured, after any order of commands, failed saves and crashes.
THEOREM StaysConfigured == Spec => []RunsAsConfigured
  <1>1. ASSUME IInv, settled
        PROVE  ExposedAsConfigured /\ SelectionInUse
    BY <1>1, AtRestFits DEF ExposedAsConfigured, SelectionInUse
  <1>2. ASSUME IInv, settled
        PROVE  TunnelNeedsSharing
    <2>1. CASE AtRest
      BY <1>2, <2>1, AtRestFits
    <2>2. CASE ~AtRest
      BY <1>2, <2>2, AtWork DEF AtRest, SettledWith
    <2>. QED
      BY <2>1, <2>2
  <1>3. IInv => RunsAsConfigured
    BY <1>1, <1>2 DEF RunsAsConfigured
  <1>. QED
    BY <1>3, InductiveInvariant, PTL

\* Only the last step of a lock, or a crash, takes a key out of memory.
LEMMA KeyDropped ==
  ASSUME IInv, [Next]_vars, current # None, current' = None, crashes' = crashes
  PROVE  \E p \in Callers : Forget(p)
  <1>1. ASSUME NEW p \in Callers, Work(p), ~Forget(p)
        PROVE  FALSE
    <2>1. CASE Remember(p)
      <3>1. task[p].arg \in Keys
        BY <2>1, AtWork DEF Remember, At, TaskFits
      <3>. QED
        BY <2>1, <3>1, SessionAssumption DEF Remember
    <2>2. CASE ~Remember(p)
      BY <1>1, <2>2 DEF Work, WriteKeystore, Restore, PutSecret, Snapshot, PutConfig, Commit,
         Apply, Teardown, BuildClient, StartApi, StartSharing, Install, StopEnds, Toggle,
         SpawnTunnel, InstallTunnel, memory
    <2>. QED
      BY <2>1, <2>2
  <1>2. ASSUME NEW p \in Callers,
               \/ BeginSetup(p) \/ BeginUnlock(p) \/ BeginLock(p) \/ BeginSet(p)
               \/ BeginSelect(p) \/ BeginTunnel(p) \/ StopTunnel(p) \/ StoreFails(p)
        PROVE  FALSE
    BY <1>2 DEF BeginSetup, BeginUnlock, BeginLock, BeginSet, BeginSelect, BeginTunnel, StopTunnel,
       StoreFails, memory
  <1>3. CASE Receive \/ Respond
    BY <1>3 DEF Receive, Respond, memory
  <1>4. CASE Crash
    <2>1. crashes \in Nat /\ crashes' = crashes + 1
      BY <1>4 DEF Crash, IInv, TypeOK
    <2>. QED
      BY <2>1
  <1>5. CASE UNCHANGED vars
    BY <1>5 DEF vars, memory
  <1>. QED
    BY <1>1, <1>2, <1>3, <1>4, <1>5 DEF Next

\* The key is dropped only after every request in flight has been answered
\* (LocalApiHandle::stop, "an orderly stop that waits for in-flight requests to finish").
THEOREM RequestsEnd == Spec => RequestsEndBeforeLock
  <1>1. IInv /\ [Next]_vars =>
          [settled /\ current # None /\ current' = None /\ crashes' = crashes => ~Busy]_vars
    <2>. SUFFICES ASSUME IInv, [Next]_vars, settled, current # None, current' = None,
                         crashes' = crashes
                  PROVE  ~Busy
      OBVIOUS
    <2>1. PICK p \in Callers : Forget(p)
      BY KeyDropped
    <2>2. task[p].step = "forget" /\ ~At(p, "idle")
      BY <2>1 DEF Forget, At
    <2>3. /\ installed = None /\ ~task[p].set.busy
          /\ \A q \in Callers \ {p} : task[q] = Idle
      <3>1. CleanTask(p) /\ TaskFits(task[p]) /\ TasksFit
        BY <2>2, AtWork DEF IInv
      <3>2. \A q \in Callers \ {p} : At(q, "idle") /\ TaskFits(task[q])
        BY <3>1 DEF CleanTask, OthersIdle, TasksFit
      <3>. QED
        BY <2>2, <3>1, <3>2 DEF CleanTask, TaskFits, At
    <2>4. ~Idle.set.busy
      BY DEF Idle, Down
    <2>. QED
      BY <2>3, <2>4 DEF Busy
  <1>. QED
    BY <1>1, InductiveInvariant, PTL DEF Spec, RequestsEndBeforeLock

\* Only the first half of save_config changes the stored configuration to one that can
\* be read.
LEMMA SavedWriter ==
  ASSUME IInv, [Next]_vars, saved' # saved, saved'.key \in Keys
  PROVE  \E p \in Callers : PutConfig(p)
  <1>1. ASSUME NEW p \in Callers, Work(p), ~PutConfig(p)
        PROVE  UNCHANGED saved
    BY <1>1 DEF Work, WriteKeystore, Remember, Restore, PutSecret, Snapshot, Commit,
       Apply, Teardown, BuildClient, StartApi, StartSharing, Install, StopEnds, Forget, Toggle,
       SpawnTunnel, InstallTunnel, disk
  <1>2. ASSUME NEW p \in Callers,
               \/ BeginSetup(p) \/ BeginUnlock(p) \/ BeginLock(p) \/ BeginSet(p)
               \/ BeginSelect(p) \/ BeginTunnel(p) \/ StopTunnel(p)
        PROVE  UNCHANGED saved
    BY <1>2 DEF BeginSetup, BeginUnlock, BeginLock, BeginSet, BeginSelect, BeginTunnel, StopTunnel,
       disk
  <1>3. ASSUME NEW p \in Callers, StoreFails(p)
        PROVE  UNCHANGED saved
    BY <1>3, TearFits DEF StoreFails, disk
  <1>4. CASE Receive \/ Respond
    BY <1>4 DEF Receive, Respond, disk
  <1>5. CASE Crash
    BY <1>5, TearFits DEF Crash, disk
  <1>6. CASE UNCHANGED vars
    BY <1>6 DEF vars, disk
  <1>. QED
    BY <1>1, <1>2, <1>3, <1>4, <1>5, <1>6 DEF Next

\* Saving one setting leaves the stored value of every other one as it was, across locks,
\* crashes and failed saves (AppState::save_config writes the whole configuration).
THEOREM SettingsKept == Spec => SettingsAreKept
  <1>1. ASSUME IInv, [Next]_vars, NEW f \in DOMAIN Default, settled, saved.key \in Keys,
               saved'.key \in Keys, saved'.val[f] # saved.val[f]
        PROVE  \E p \in Callers : At(p, "put") /\ task[p].cmd = f
    <2>1. PICK p \in Callers : PutConfig(p)
      BY <1>1, SavedWriter
    <2>2. task[p].step = "put" /\ At(p, "put") /\ ~At(p, "idle") /\ saved' # saved
      BY <1>1, <2>1 DEF PutConfig, At
    <2>3. current # None /\ saved' = [key |-> current, val |-> task[p].next]
      BY <2>1, <2>2 DEF PutConfig
    <2>4. /\ TaskFits(task[p]) /\ CleanTask(p) /\ SettledWith(task[p])
          /\ task[p].clean /\ config \in Config
      BY <1>1, <2>2, AtWork DEF IInv, TypeOK
    <2>5. saved.val = config
      BY <1>1, <2>2, <2>3, <2>4 DEF SettledWith
    <2>6. task[p].cmd \in Switches \cup {"model"}
      BY <1>1, <2>2, <2>4 DEF TaskFits, CleanTask, Switches
    <2>7. task[p].next = [config EXCEPT ![task[p].cmd] = task[p].arg]
      <3>1. CASE task[p].cmd = "model"
        BY <2>2, <2>4, <3>1 DEF CleanTask
      <3>2. CASE task[p].cmd \in Switches
        BY <2>2, <2>4, <3>2 DEF CleanTask
      <3>. QED
        BY <2>6, <3>1, <3>2
    <2>8. saved'.val[f] = [config EXCEPT ![task[p].cmd] = task[p].arg][f]
      BY <2>3, <2>7
    <2>9. f \in DOMAIN config
      BY <1>1, <2>4 DEF Config, Default
    <2>10. f # task[p].cmd => saved'.val[f] = config[f]
      BY <2>8, <2>9
    <2>. QED
      BY <1>1, <2>2, <2>5, <2>10
  <1>2. IInv /\ [Next]_vars =>
          [\A f \in DOMAIN Default :
             settled /\ saved.key \in Keys /\ saved'.key \in Keys /\ saved'.val[f] # saved.val[f]
                 => \E p \in Callers : At(p, "put") /\ task[p].cmd = f]_vars
    BY <1>1
  <1>. QED
    BY <1>2, InductiveInvariant, PTL DEF Spec, SettingsAreKept

-----------------------------------------------------------------------------
(***************************************************************************)
(* Part two: Views.                                                        *)
(***************************************************************************)

-----------------------------------------------------------------------------
(* The backend ends a command.                                             *)

\* The command c was sent; e is what is left of it, unless nobody awaits it.
Ending(c, e) ==
    /\ c \in All(inFlight) /\ c.state = "sent"
    /\ CallShape(e) /\ e.state \in {"done", "failed"}
    /\ e.cmd = c.cmd /\ e.arg = c.arg /\ e.for = c.for
    /\ IsSeq(inFlight')
    /\ All(inFlight') \subseteq All(inFlight) \cup {e}
    /\ All(inFlight) \ {c} \subseteq All(inFlight')
    /\ IF c.for = "nobody" THEN All(inFlight') \subseteq All(inFlight) ELSE e \in All(inFlight')
    /\ \A r : OneOn(inFlight, r) => OneOn(inFlight', r)
    /\ OneSave(inFlight) => OneSave(inFlight')
    /\ \A r : OneOn(inFlight, r) /\ r \in Touches(c) =>
         On(inFlight', r) = IF c.for = "nobody" THEN {} ELSE {e}
    /\ ui' = ui /\ seen' = seen

\* What a command touches depends on its name and on the page it names.
LEMMA TouchesSame ==
    ASSUME NEW c, NEW e, e.cmd = c.cmd, e.arg = c.arg
    PROVE  Touches(e) = Touches(c)
<1> QED BY DEF Touches

\* Of a command nobody awaits, nothing is left.
LEMMA EndedRemoved ==
    ASSUME Shape, NEW i \in DOMAIN inFlight, inFlight[i].state = "sent",
           inFlight[i].for = "nobody", inFlight' = RemoveAt(inFlight, i), ui' = ui, seen' = seen,
           NEW e, CallShape(e), e.state \in {"done", "failed"},
           e.cmd = inFlight[i].cmd, e.arg = inFlight[i].arg, e.for = inFlight[i].for
    PROVE  Ending(inFlight[i], e)
<1>1. PICK c : c = inFlight[i]
  OBVIOUS
<1>2. IsSeq(inFlight)
  BY ShapedCalls DEF Shape
<1>3. PICK t : t = RemoveAt(inFlight, i)
  OBVIOUS
<1>4. PICK p : LeftOf(t, inFlight, i, p)
  BY <1>2, <1>3, RemoveAtFacts
<1>5. inFlight' = t /\ IsSeq(t)
  BY <1>2, <1>3, RemoveAtFacts
<1>6. /\ \A j \in DOMAIN t : p[j] \in DOMAIN inFlight /\ p[j] # i /\ t[j] = inFlight[p[j]]
      /\ \A j, k \in DOMAIN t : p[j] = p[k] => j = k
      /\ \A n \in DOMAIN inFlight : n # i => \E j \in DOMAIN t : p[j] = n
  BY <1>4 DEF LeftOf
<1>7. All(t) \subseteq All(inFlight)
  BY <1>6 DEF All
<1>8. All(inFlight) \ {c} \subseteq All(t)
  <2> SUFFICES ASSUME NEW n \in DOMAIN inFlight, inFlight[n] # c PROVE inFlight[n] \in All(t)
    BY DEF All
  <2>1. PICK j \in DOMAIN t : p[j] = n
    BY <1>1, <1>6
  <2> QED BY <1>6, <2>1 DEF All
<1>9. ASSUME NEW r, OneOn(inFlight, r) PROVE OneOn(t, r)
  BY <1>6, <1>9 DEF OneOn
<1>10. ASSUME OneSave(inFlight) PROVE OneSave(t)
  BY <1>6, <1>10 DEF OneSave
<1>11. ASSUME NEW r, OneOn(inFlight, r), r \in Touches(c) PROVE On(t, r) = {}
  <2> SUFFICES ASSUME NEW j \in DOMAIN t, r \in Touches(t[j]) PROVE FALSE
    BY DEF On, All
  <2> QED BY <1>1, <1>6, <1>11 DEF OneOn
<1>12. c \in All(inFlight)
  BY <1>1 DEF All
<1> QED BY <1>1, <1>5, <1>7, <1>8, <1>9, <1>10, <1>11, <1>12 DEF Ending

\* Of any other, its end.
LEMMA EndedMarked ==
    ASSUME Shape, NEW i \in DOMAIN inFlight, inFlight[i].state = "sent",
           inFlight[i].for # "nobody", NEW e, inFlight' = [inFlight EXCEPT ![i] = e],
           ui' = ui, seen' = seen, CallShape(e), e.state \in {"done", "failed"},
           e.cmd = inFlight[i].cmd, e.arg = inFlight[i].arg, e.for = inFlight[i].for
    PROVE  Ending(inFlight[i], e)
<1>1. PICK c : c = inFlight[i]
  OBVIOUS
<1>2. IsSeq(inFlight)
  BY ShapedCalls DEF Shape
<1>3. PICK N \in Nat : N = Len(inFlight) /\ DOMAIN inFlight = 1..N
                       /\ inFlight = [n \in 1..N |-> inFlight[n]]
  BY <1>2, SeqFacts
<1>4. PICK t : t = [inFlight EXCEPT ![i] = e]
  OBVIOUS
<1>5. /\ DOMAIN t = 1..N /\ t[i] = e /\ i \in 1..N
      /\ \A n \in 1..N : n # i => t[n] = inFlight[n]
  BY <1>3, <1>4
<1>6. t = [n \in 1..N |-> t[n]]
  BY <1>3, <1>4
<1>7. IsSeq(t)
  <2> PICK S : S = All(t)
    OBVIOUS
  <2>1. t \in [1..N -> S]
    BY <1>5, <1>6 DEF All
  <2>2. t \in Seq(S)
    BY <2>1, SeqOver
  <2> QED BY <2>2, IsSeqOf
<1>8. Touches(e) = Touches(c)
  BY <1>1, TouchesSame
<1>9. All(t) \subseteq All(inFlight) \cup {e} /\ All(inFlight) \ {c} \subseteq All(t)
      /\ e \in All(t)
  <2>1. ASSUME NEW n \in DOMAIN t PROVE t[n] \in All(inFlight) \cup {e}
    BY <1>3, <1>5 DEF All
  <2>2. ASSUME NEW n \in DOMAIN inFlight, inFlight[n] # c PROVE inFlight[n] \in All(t)
    <3>1. n \in DOMAIN t /\ t[n] = inFlight[n]
      BY <1>1, <1>3, <1>5, <2>2
    <3> QED BY <3>1 DEF All
  <2>3. e \in All(t)
    BY <1>5 DEF All
  <2> QED BY <2>1, <2>2, <2>3 DEF All
<1>10. ASSUME NEW r, OneOn(inFlight, r) PROVE OneOn(t, r)
  <2>1. \A n \in 1..N : r \in Touches(t[n]) => r \in Touches(inFlight[n])
    BY <1>1, <1>5, <1>8
  <2> QED BY <1>3, <1>5, <1>10, <2>1 DEF OneOn
<1>11. ASSUME OneSave(inFlight) PROVE OneSave(t)
  <2>1. \A n \in 1..N : Saving(t[n]) => Saving(inFlight[n])
    BY <1>1, <1>5 DEF Saving
  <2> QED BY <1>3, <1>5, <1>11, <2>1 DEF OneSave
<1>12. ASSUME NEW r, OneOn(inFlight, r), r \in Touches(c) PROVE On(t, r) = {e}
  <2>1. ASSUME NEW j \in DOMAIN t, r \in Touches(t[j]) PROVE t[j] = e
    BY <1>1, <1>3, <1>5, <1>12, <2>1 DEF OneOn
  <2>2. e \in All(t) /\ r \in Touches(e)
    BY <1>8, <1>9, <1>12
  <2> QED BY <2>1, <2>2 DEF On, All
<1>13. c \in All(inFlight)
  BY <1>1 DEF All
<1>14. inFlight' = t
  BY <1>4
<1> QED BY <1>1, <1>7, <1>9, <1>10, <1>11, <1>12, <1>13, <1>14 DEF Ending

LEMMA EndedFacts ==
    ASSUME Shape, NEW i \in DOMAIN inFlight, inFlight[i].state = "sent",
           NEW state \in {"done", "failed"}, NEW answer, state = "failed" => answer = Null,
           Ended(i, state, answer), ui' = ui, seen' = seen
    PROVE  \E e : /\ Ending(inFlight[i], e)
                  /\ e.state = state /\ e.answer = answer
<1>1. PICK c : c = inFlight[i]
  OBVIOUS
<1>2. c = [cmd |-> c.cmd, arg |-> c.arg, for |-> c.for, state |-> c.state, answer |-> c.answer]
  BY <1>1, CallFacts DEF CallShape
<1>3. PICK e : e = [cmd |-> c.cmd, arg |-> c.arg, for |-> c.for, state |-> state,
                    answer |-> answer]
  OBVIOUS
<1>4. /\ e.cmd = c.cmd /\ e.arg = c.arg /\ e.for = c.for /\ e.state = state
      /\ e.answer = answer
      /\ e = [cmd |-> e.cmd, arg |-> e.arg, for |-> e.for, state |-> e.state,
              answer |-> e.answer]
  BY <1>3
<1>5. CallShape(e)
  BY <1>4 DEF CallShape
<1>6. CASE c.for = "nobody"
  <2>1. inFlight' = RemoveAt(inFlight, i)
    BY <1>1, <1>6 DEF Ended
  <2> QED BY <1>1, <1>4, <1>5, <1>6, <2>1, EndedRemoved
<1>7. CASE c.for # "nobody"
  <2>1. inFlight' = [inFlight EXCEPT ![i].state = state, ![i].answer = answer]
    BY <1>1, <1>7 DEF Ended
  <2>2. PICK m : m = [inFlight EXCEPT ![i].state = state]
    OBVIOUS
  <2>3. inFlight' = [m EXCEPT ![i].answer = answer]
    BY <2>1, <2>2
  <2>4. IsSeq(inFlight)
    BY ShapedCalls DEF Shape
  <2>5. PICK N \in Nat : DOMAIN inFlight = 1..N /\ inFlight = [n \in 1..N |-> inFlight[n]]
    BY <2>4, SeqFacts
  <2>6. PICK d : d = [cmd |-> c.cmd, arg |-> c.arg, for |-> c.for, state |-> state,
                      answer |-> c.answer]
    OBVIOUS
  <2>7. d = [c EXCEPT !.state = state]
    BY <1>2, <2>6
  <2>8. e = [d EXCEPT !.answer = answer]
    BY <1>3, <2>6
  <2>9. m = [inFlight EXCEPT ![i] = d]
    BY <1>1, <2>2, <2>7
  <2>10. m[i] = d
    BY <2>5, <2>9
  <2>11. inFlight' = [m EXCEPT ![i] = e]
    BY <2>3, <2>8, <2>10
  <2>12. [m EXCEPT ![i] = e] = [inFlight EXCEPT ![i] = e]
    BY <2>5, <2>9
  <2>13. inFlight' = [inFlight EXCEPT ![i] = e]
    BY <2>11, <2>12
  <2> QED BY <1>1, <1>4, <1>5, <1>7, <2>13, EndedMarked
<1> QED BY <1>6, <1>7

-----------------------------------------------------------------------------
(* What the backend does, command by command.                              *)

Vault(open, sharing, pending, facts, thread, cfg, shares, minted, connected, scope, sent) ==
    [open |-> open, sharing |-> sharing, pending |-> pending, facts |-> facts,
     thread |-> thread, config |-> cfg, shares |-> shares, minted |-> minted,
     connected |-> connected, scope |-> scope, sent |-> sent]
VaultOf(v) ==
    v = Vault(v.open, v.sharing, v.pending, v.facts, v.thread, v.config, v.shares, v.minted,
              v.connected, v.scope, v.sent)

\* All fields of a vault are those of another, but for some.
SameBut(w, v, fields) ==
    /\ "open" \notin fields => w.open = v.open
    /\ "sharing" \notin fields => w.sharing = v.sharing
    /\ "pending" \notin fields => w.pending = v.pending
    /\ "facts" \notin fields => w.facts = v.facts
    /\ "thread" \notin fields => w.thread = v.thread
    /\ "config" \notin fields => w.config = v.config
    /\ "shares" \notin fields => w.shares = v.shares
    /\ "minted" \notin fields => w.minted = v.minted
    /\ "connected" \notin fields => w.connected = v.connected
    /\ "scope" \notin fields => w.scope = v.scope
    /\ "sent" \notin fields => w.sent = v.sent

Commands ==
    {"get_fact", "set_fact_sharing", "get_dashboard", "get_graph", "queue_list", "queue_answer",
     "trigger_ingest", "list_transfers", "persona_history_load", "persona_history_save",
     "persona_chat", "share_status", "set_sharing_enabled", "issue_share_token",
     "revoke_share_token", "share_tunnel", "load_settings", "get_config", "set_transfer_policy",
     "set_server_enabled", "set_llm_config", "list_sources", "connect_source",
     "disconnect_source", "get_session_scope", "set_session_scope", "lock", "unlock",
     "get_status"}

LEMMA KnownCommand ==
    ASSUME NEW c, NEW u, Routed(c, u)
    PROVE  c.cmd \in Commands
<1> QED BY DEF Routed, Awaiters, Commands

\* Which of the commands answers.
LEMMA HandledBy ==
    ASSUME NEW c, Named(c), c.cmd \in Commands
    PROVE  /\ c.cmd = "set_llm_config" => Handled(c) = LlmCommand(c)
           /\ c.cmd = "trigger_ingest" => Handled(c) = IngestCommand
           /\ c.cmd \in {"lock", "unlock", "get_status"} => Handled(c) = SessionCommand(c)
           /\ c.cmd \in {"load_settings", "get_config", "list_transfers", "set_transfer_policy",
                         "set_server_enabled"} => Handled(c) = ConfigCommand(c)
           /\ c.cmd \in SharesCmds => Handled(c) = SharesCommand(c)
           /\ c.cmd \in {"queue_list", "queue_answer"} => Handled(c) = QueueCommand(c)
           /\ c.cmd \in {"list_sources", "connect_source", "disconnect_source"} =>
                Handled(c) = SourceCommand(c)
           /\ c.cmd \in {"persona_history_load", "persona_history_save"} =>
                Handled(c) = HistoryCommand(c)
           /\ c.cmd \in {"get_session_scope", "set_session_scope"} => Handled(c) = ScopeCommand(c)
           /\ c.cmd \in {"get_dashboard", "get_graph", "get_fact", "set_fact_sharing",
                         "persona_chat"} => Handled(c) = ViewCommand(c)
<1>1. PICK ts : ts = Touches(c)
  OBVIOUS
<1>2. /\ "lock" \in ts <=> c.cmd \in {"lock", "unlock", "get_status"}
      /\ "config" \in ts <=> c.cmd \in {"load_settings", "get_config", "set_transfer_policy",
                                        "set_server_enabled", "set_llm_config"}
      /\ "transfers" \in ts <=> c.cmd \in {"trigger_ingest", "list_transfers", "load_settings"}
      /\ "shares" \in ts <=> c.cmd \in SharesCmds
      /\ "queue" \in ts <=> c.cmd \in {"queue_list", "queue_answer", "trigger_ingest"}
      /\ "sources" \in ts <=> c.cmd \in {"list_sources", "connect_source", "disconnect_source"}
      /\ "thread" \in ts <=> c.cmd \in {"persona_history_load", "persona_history_save"}
      /\ "scope" \in ts <=> c.cmd \in {"get_session_scope", "set_session_scope"}
  BY <1>1, Touched
<1>3. Handled(c) =
        IF c.cmd = "set_llm_config" THEN LlmCommand(c)
        ELSE IF c.cmd = "trigger_ingest" THEN IngestCommand
        ELSE
        CASE "lock" \in ts -> SessionCommand(c)
          [] "config" \in ts \/ "transfers" \in ts -> ConfigCommand(c)
          [] "shares" \in ts -> SharesCommand(c)
          [] "queue" \in ts -> QueueCommand(c)
          [] "sources" \in ts -> SourceCommand(c)
          [] "thread" \in ts -> HistoryCommand(c)
          [] "scope" \in ts -> ScopeCommand(c)
          [] OTHER -> ViewCommand(c)
  BY <1>1 DEF Handled
<1>4. ASSUME c.cmd = "set_llm_config" PROVE Handled(c) = LlmCommand(c)
  BY <1>3, <1>4
<1>5. ASSUME c.cmd = "trigger_ingest" PROVE Handled(c) = IngestCommand
  BY <1>3, <1>5
<1>6. ASSUME c.cmd \in {"lock", "unlock", "get_status"} PROVE Handled(c) = SessionCommand(c)
  BY <1>2, <1>3, <1>6 DEF SharesCmds
<1>7. ASSUME c.cmd \in {"load_settings", "get_config", "list_transfers", "set_transfer_policy",
                        "set_server_enabled"}
      PROVE  Handled(c) = ConfigCommand(c)
  BY <1>2, <1>3, <1>7 DEF SharesCmds
<1>8. ASSUME c.cmd \in SharesCmds PROVE Handled(c) = SharesCommand(c)
  BY <1>2, <1>3, <1>8 DEF SharesCmds
<1>9. ASSUME c.cmd \in {"queue_list", "queue_answer"} PROVE Handled(c) = QueueCommand(c)
  BY <1>2, <1>3, <1>9 DEF SharesCmds
<1>10. ASSUME c.cmd \in {"list_sources", "connect_source", "disconnect_source"}
       PROVE  Handled(c) = SourceCommand(c)
  BY <1>2, <1>3, <1>10 DEF SharesCmds
<1>11. ASSUME c.cmd \in {"persona_history_load", "persona_history_save"}
       PROVE  Handled(c) = HistoryCommand(c)
  BY <1>2, <1>3, <1>11 DEF SharesCmds
<1>12. ASSUME c.cmd \in {"get_session_scope", "set_session_scope"}
       PROVE  Handled(c) = ScopeCommand(c)
  BY <1>2, <1>3, <1>12 DEF SharesCmds
<1>13. ASSUME c.cmd \in {"get_dashboard", "get_graph", "get_fact", "set_fact_sharing",
                         "persona_chat"}
       PROVE  Handled(c) = ViewCommand(c)
  BY <1>2, <1>3, <1>13 DEF SharesCmds
<1> QED BY <1>4, <1>5, <1>6, <1>7, <1>8, <1>9, <1>10, <1>11, <1>12, <1>13

-----------------------------------------------------------------------------
(* One field changed.                                                      *)

\* A vault with one field replaced differs from the old one in that field only.
LEMMA OneChanged ==
    ASSUME NEW v, VaultOf(v), NEW x
    PROVE  /\ \A w : w = [v EXCEPT !.open = x] =>
                VaultOf(w) /\ w.open = x /\ SameBut(w, v, {"open"})
           /\ \A w : w = [v EXCEPT !.sharing = x] =>
                VaultOf(w) /\ w.sharing = x /\ SameBut(w, v, {"sharing"})
           /\ \A w : w = [v EXCEPT !.pending = x] =>
                VaultOf(w) /\ w.pending = x /\ SameBut(w, v, {"pending"})
           /\ \A w : w = [v EXCEPT !.facts = x] =>
                VaultOf(w) /\ w.facts = x /\ SameBut(w, v, {"facts"})
           /\ \A w : w = [v EXCEPT !.thread = x] =>
                VaultOf(w) /\ w.thread = x /\ SameBut(w, v, {"thread"})
           /\ \A w : w = [v EXCEPT !.config = x] =>
                VaultOf(w) /\ w.config = x /\ SameBut(w, v, {"config"})
           /\ \A w : w = [v EXCEPT !.shares = x] =>
                VaultOf(w) /\ w.shares = x /\ SameBut(w, v, {"shares"})
           /\ \A w : w = [v EXCEPT !.minted = x] =>
                VaultOf(w) /\ w.minted = x /\ SameBut(w, v, {"minted"})
           /\ \A w : w = [v EXCEPT !.connected = x] =>
                VaultOf(w) /\ w.connected = x /\ SameBut(w, v, {"connected"})
           /\ \A w : w = [v EXCEPT !.scope = x] =>
                VaultOf(w) /\ w.scope = x /\ SameBut(w, v, {"scope"})
           /\ \A w : w = [v EXCEPT !.sent = x] =>
                VaultOf(w) /\ w.sent = x /\ SameBut(w, v, {"sent"})
<1>1. ASSUME NEW w, w = [v EXCEPT !.open = x]
     PROVE  VaultOf(w) /\ w.open = x /\ SameBut(w, v, {"open"})
  <2>1. w = Vault(x, v.sharing, v.pending, v.facts, v.thread, v.config, v.shares,
                  v.minted, v.connected, v.scope, v.sent)
    BY <1>1 DEF VaultOf, Vault
  <2> QED BY <2>1 DEF VaultOf, Vault, SameBut
<1>2. ASSUME NEW w, w = [v EXCEPT !.sharing = x]
     PROVE  VaultOf(w) /\ w.sharing = x /\ SameBut(w, v, {"sharing"})
  <2>1. w = Vault(v.open, x, v.pending, v.facts, v.thread, v.config, v.shares,
                  v.minted, v.connected, v.scope, v.sent)
    BY <1>2 DEF VaultOf, Vault
  <2> QED BY <2>1 DEF VaultOf, Vault, SameBut
<1>3. ASSUME NEW w, w = [v EXCEPT !.pending = x]
     PROVE  VaultOf(w) /\ w.pending = x /\ SameBut(w, v, {"pending"})
  <2>1. w = Vault(v.open, v.sharing, x, v.facts, v.thread, v.config, v.shares,
                  v.minted, v.connected, v.scope, v.sent)
    BY <1>3 DEF VaultOf, Vault
  <2> QED BY <2>1 DEF VaultOf, Vault, SameBut
<1>4. ASSUME NEW w, w = [v EXCEPT !.facts = x]
     PROVE  VaultOf(w) /\ w.facts = x /\ SameBut(w, v, {"facts"})
  <2>1. w = Vault(v.open, v.sharing, v.pending, x, v.thread, v.config, v.shares,
                  v.minted, v.connected, v.scope, v.sent)
    BY <1>4 DEF VaultOf, Vault
  <2> QED BY <2>1 DEF VaultOf, Vault, SameBut
<1>5. ASSUME NEW w, w = [v EXCEPT !.thread = x]
     PROVE  VaultOf(w) /\ w.thread = x /\ SameBut(w, v, {"thread"})
  <2>1. w = Vault(v.open, v.sharing, v.pending, v.facts, x, v.config, v.shares,
                  v.minted, v.connected, v.scope, v.sent)
    BY <1>5 DEF VaultOf, Vault
  <2> QED BY <2>1 DEF VaultOf, Vault, SameBut
<1>6. ASSUME NEW w, w = [v EXCEPT !.config = x]
     PROVE  VaultOf(w) /\ w.config = x /\ SameBut(w, v, {"config"})
  <2>1. w = Vault(v.open, v.sharing, v.pending, v.facts, v.thread, x, v.shares,
                  v.minted, v.connected, v.scope, v.sent)
    BY <1>6 DEF VaultOf, Vault
  <2> QED BY <2>1 DEF VaultOf, Vault, SameBut
<1>7. ASSUME NEW w, w = [v EXCEPT !.shares = x]
     PROVE  VaultOf(w) /\ w.shares = x /\ SameBut(w, v, {"shares"})
  <2>1. w = Vault(v.open, v.sharing, v.pending, v.facts, v.thread, v.config, x,
                  v.minted, v.connected, v.scope, v.sent)
    BY <1>7 DEF VaultOf, Vault
  <2> QED BY <2>1 DEF VaultOf, Vault, SameBut
<1>8. ASSUME NEW w, w = [v EXCEPT !.minted = x]
     PROVE  VaultOf(w) /\ w.minted = x /\ SameBut(w, v, {"minted"})
  <2>1. w = Vault(v.open, v.sharing, v.pending, v.facts, v.thread, v.config, v.shares,
                  x, v.connected, v.scope, v.sent)
    BY <1>8 DEF VaultOf, Vault
  <2> QED BY <2>1 DEF VaultOf, Vault, SameBut
<1>9. ASSUME NEW w, w = [v EXCEPT !.connected = x]
     PROVE  VaultOf(w) /\ w.connected = x /\ SameBut(w, v, {"connected"})
  <2>1. w = Vault(v.open, v.sharing, v.pending, v.facts, v.thread, v.config, v.shares,
                  v.minted, x, v.scope, v.sent)
    BY <1>9 DEF VaultOf, Vault
  <2> QED BY <2>1 DEF VaultOf, Vault, SameBut
<1>10. ASSUME NEW w, w = [v EXCEPT !.scope = x]
      PROVE  VaultOf(w) /\ w.scope = x /\ SameBut(w, v, {"scope"})
  <2>1. w = Vault(v.open, v.sharing, v.pending, v.facts, v.thread, v.config, v.shares,
                  v.minted, v.connected, x, v.sent)
    BY <1>10 DEF VaultOf, Vault
  <2> QED BY <2>1 DEF VaultOf, Vault, SameBut
<1>11. ASSUME NEW w, w = [v EXCEPT !.sent = x]
      PROVE  VaultOf(w) /\ w.sent = x /\ SameBut(w, v, {"sent"})
  <2>1. w = Vault(v.open, v.sharing, v.pending, v.facts, v.thread, v.config, v.shares,
                  v.minted, v.connected, v.scope, x)
    BY <1>11 DEF VaultOf, Vault
  <2> QED BY <2>1 DEF VaultOf, Vault, SameBut
<1> QED BY <1>1, <1>2, <1>3, <1>4, <1>5, <1>6, <1>7, <1>8, <1>9, <1>10, <1>11

\* A vault is well formed.
VaultWell(v) ==
    /\ VaultOf(v)
    /\ v.open \in BOOLEAN
    /\ v.minted \subseteq Secrets
    /\ v.sharing = [f \in Facts |-> v.sharing[f]]
    /\ \A f \in Facts : v.sharing[f] = [visibility |-> v.sharing[f].visibility,
                                        category |-> v.sharing[f].category]
    /\ v.config = [policy |-> v.config.policy, server |-> v.config.server,
                   model |-> v.config.model, keys |-> v.config.keys]
    /\ v.shares = [enabled |-> v.shares.enabled, tunnel |-> v.shares.tunnel,
                   live |-> v.shares.live]

LEMMA WellVault == VaultShape <=> VaultWell(vault)
<1> QED BY DEF VaultShape, VaultWell, VaultOf, Vault

LEMMA SameSame ==
    ASSUME NEW v, VaultOf(v)
    PROVE  \A fields : SameBut(v, v, fields)
<1> QED BY DEF SameBut

-----------------------------------------------------------------------------
(* The effect of each kind of command: v is the vault after it, a what it  *)
(* answers.                                                                *)

SessionEffect(c, v, a) ==
    /\ SameBut(v, vault, {"open"})
    /\ c.cmd = "lock" => v.open = FALSE
    /\ c.cmd = "unlock" => v.open = TRUE
    /\ c.cmd = "get_status" => v.open = vault.open /\ a = IF vault.open THEN "open" ELSE "locked"

LEMMA SessionHandled ==
    ASSUME VaultShape, NEW c, c.cmd \in {"lock", "unlock", "get_status"}
    PROVE  /\ VaultWell(SessionCommand(c).vault)
           /\ SessionEffect(c, SessionCommand(c).vault, SessionCommand(c).answer)
<1>1. VaultWell(vault) /\ VaultOf(vault)
  BY WellVault DEF VaultWell
<1>2. ASSUME NEW x \in BOOLEAN, NEW w, w = [vault EXCEPT !.open = x]
      PROVE  VaultWell(w) /\ SameBut(w, vault, {"open"}) /\ w.open = x
  <2>1. VaultOf(w) /\ w.open = x /\ SameBut(w, vault, {"open"})
    BY <1>1, <1>2, OneChanged
  <2> QED BY <1>1, <2>1 DEF VaultWell, SameBut
<1>3. CASE c.cmd = "lock"
  <2>1. PICK no : no = FALSE
    OBVIOUS
  <2>2. PICK w : w = [vault EXCEPT !.open = no]
    OBVIOUS
  <2>3. SessionCommand(c).vault = w
    BY <1>3, <2>1, <2>2 DEF SessionCommand, Ok
  <2>4. VaultWell(w) /\ SameBut(w, vault, {"open"}) /\ w.open = FALSE
    BY <1>2, <2>1, <2>2
  <2> QED BY <1>3, <2>3, <2>4 DEF SessionEffect
<1>4. CASE c.cmd = "unlock"
  <2>1. PICK yes : yes = TRUE
    OBVIOUS
  <2>2. PICK w : w = [vault EXCEPT !.open = yes]
    OBVIOUS
  <2>3. SessionCommand(c).vault = w
    BY <1>4, <2>1, <2>2 DEF SessionCommand, Ok
  <2>4. VaultWell(w) /\ SameBut(w, vault, {"open"}) /\ w.open = TRUE
    BY <1>2, <2>1, <2>2
  <2> QED BY <1>4, <2>3, <2>4 DEF SessionEffect
<1>5. CASE c.cmd = "get_status"
  <2>1. SessionCommand(c).vault = vault
        /\ SessionCommand(c).answer = IF vault.open THEN "open" ELSE "locked"
    BY <1>5 DEF SessionCommand, Ok
  <2> QED BY <1>1, <1>5, <2>1, SameSame DEF SessionEffect
<1> QED BY <1>3, <1>4, <1>5

ConfigReads == {"load_settings", "get_config", "list_transfers"}
ConfigEffect(c, v, a) ==
    /\ SameBut(v, vault, {"config"})
    /\ v.config.model = vault.config.model /\ v.config.keys = vault.config.keys
    /\ c.cmd \in ConfigReads => v.config = vault.config
    /\ c.cmd = "load_settings" => a.config = vault.config
    /\ c.cmd = "get_config" => a = vault.config
    /\ c.cmd = "list_transfers" => a = vault.sent

LEMMA ConfigHandled ==
    ASSUME VaultShape, NEW c, c.cmd \in ConfigReads \cup {"set_transfer_policy", "set_server_enabled"}
    PROVE  /\ VaultWell(ConfigCommand(c).vault)
           /\ ConfigEffect(c, ConfigCommand(c).vault, ConfigCommand(c).answer)
<1>1. VaultWell(vault) /\ VaultOf(vault)
  BY WellVault DEF VaultWell
<1>2. vault.config = [policy |-> vault.config.policy, server |-> vault.config.server,
                      model |-> vault.config.model, keys |-> vault.config.keys]
  BY <1>1 DEF VaultWell
<1>3. ASSUME NEW x, NEW w, w = [vault EXCEPT !.config = x], x.model = vault.config.model,
             x.keys = vault.config.keys,
             x = [policy |-> x.policy, server |-> x.server, model |-> x.model, keys |-> x.keys]
      PROVE  /\ VaultWell(w) /\ SameBut(w, vault, {"config"})
             /\ w.config.model = vault.config.model /\ w.config.keys = vault.config.keys
  <2>1. VaultOf(w) /\ w.config = x /\ SameBut(w, vault, {"config"})
    BY <1>1, <1>3, OneChanged
  <2> QED BY <1>1, <1>3, <2>1 DEF VaultWell, SameBut
<1>4. CASE c.cmd = "set_transfer_policy"
  <2>1. PICK x : x = [vault.config EXCEPT !.policy = c.arg]
    OBVIOUS
  <2>2. x.model = vault.config.model /\ x.keys = vault.config.keys
        /\ x = [policy |-> x.policy, server |-> x.server, model |-> x.model, keys |-> x.keys]
    BY <1>2, <2>1
  <2>3. PICK w : w = [vault EXCEPT !.config = x]
    OBVIOUS
  <2>4. [vault EXCEPT !.config.policy = c.arg] = w
    BY <2>1, <2>3
  <2>5. ConfigCommand(c).vault = w
    BY <1>4, <2>4 DEF ConfigCommand, Ok
  <2> QED BY <1>3, <1>4, <2>2, <2>3, <2>5 DEF ConfigEffect, ConfigReads
<1>5. CASE c.cmd = "set_server_enabled"
  <2>1. PICK x : x = [vault.config EXCEPT !.server = c.arg]
    OBVIOUS
  <2>2. x.model = vault.config.model /\ x.keys = vault.config.keys
        /\ x = [policy |-> x.policy, server |-> x.server, model |-> x.model, keys |-> x.keys]
    BY <1>2, <2>1
  <2>3. PICK w : w = [vault EXCEPT !.config = x]
    OBVIOUS
  <2>4. [vault EXCEPT !.config.server = c.arg] = w
    BY <2>1, <2>3
  <2>5. ConfigCommand(c).vault = w
    BY <1>5, <2>4 DEF ConfigCommand, Ok
  <2> QED BY <1>3, <1>5, <2>2, <2>3, <2>5 DEF ConfigEffect, ConfigReads
<1>6. CASE c.cmd \in ConfigReads
  <2>1. /\ ConfigCommand(c).vault = vault
        /\ c.cmd = "load_settings" => ConfigCommand(c).answer.config = vault.config
        /\ c.cmd = "get_config" => ConfigCommand(c).answer = vault.config
        /\ c.cmd = "list_transfers" => ConfigCommand(c).answer = vault.sent
    BY <1>6 DEF ConfigCommand, Ok, ConfigReads
  <2> QED BY <1>1, <2>1, SameSame DEF ConfigEffect
<1> QED BY <1>4, <1>5, <1>6

LlmEffect(c, v, a) ==
    /\ SameBut(v, vault, {"config"})
    /\ v.config.model = c.arg.model
    /\ "key" \notin c.arg.typed => v.config.keys = vault.config.keys

LEMMA LlmHandled ==
    ASSUME VaultShape, NEW c
    PROVE  VaultWell(LlmCommand(c).vault) /\ LlmEffect(c, LlmCommand(c).vault, LlmCommand(c).answer)
<1>1. VaultWell(vault) /\ VaultOf(vault)
  BY WellVault DEF VaultWell
<1>2. vault.config = [policy |-> vault.config.policy, server |-> vault.config.server,
                      model |-> vault.config.model, keys |-> vault.config.keys]
  BY <1>1 DEF VaultWell
<1>3. PICK n : n = IF "key" \in c.arg.typed THEN vault.config.keys + 1 ELSE vault.config.keys
  OBVIOUS
<1>4. PICK y : y = [vault.config EXCEPT !.model = c.arg.model]
  OBVIOUS
<1>5. PICK x : x = [y EXCEPT !.keys = n]
  OBVIOUS
<1>6. y.keys = vault.config.keys
      /\ y = [policy |-> vault.config.policy, server |-> vault.config.server,
              model |-> c.arg.model, keys |-> vault.config.keys]
  BY <1>2, <1>4
<1>7. /\ x.model = c.arg.model /\ x.keys = n
      /\ x = [policy |-> x.policy, server |-> x.server, model |-> x.model, keys |-> x.keys]
  BY <1>5, <1>6
<1>8. PICK w : w = [vault EXCEPT !.config = x]
  OBVIOUS
<1>9. PICK u : u = [vault EXCEPT !.config = y]
  OBVIOUS
<1>10. u = [vault EXCEPT !.config.model = c.arg.model] /\ u.config = y /\ VaultOf(u)
  BY <1>1, <1>4, <1>9, OneChanged
<1>11. [u EXCEPT !.config = x] = w
  BY <1>8, <1>9
<1>12. (IF "key" \in c.arg.typed THEN u.config.keys + 1 ELSE u.config.keys) = n
  BY <1>3, <1>6, <1>10
<1>13. [u EXCEPT !.config.keys = IF "key" \in c.arg.typed THEN @ + 1 ELSE @]
         = [u EXCEPT !.config = [u.config EXCEPT !.keys = n]]
  BY <1>12
<1>14. LlmCommand(c).vault = [u EXCEPT !.config.keys = IF "key" \in c.arg.typed THEN @ + 1 ELSE @]
  BY <1>10 DEF LlmCommand, Ok
<1>15. LlmCommand(c).vault = w
  BY <1>5, <1>10, <1>11, <1>13, <1>14
<1>16. VaultOf(w) /\ w.config = x /\ SameBut(w, vault, {"config"})
  BY <1>1, <1>8, OneChanged
<1>17. VaultWell(w)
  BY <1>1, <1>7, <1>16 DEF VaultWell, SameBut
<1> QED BY <1>3, <1>7, <1>15, <1>16, <1>17 DEF LlmEffect

SharesEffect(c, v, a) ==
    /\ SameBut(v, vault, {"shares", "minted"})
    /\ c.cmd = "share_status" => v.shares = vault.shares /\ a = vault.shares
    /\ c.cmd # "issue_share_token" => v.minted = vault.minted
    /\ c.cmd = "issue_share_token" => a \in Secrets /\ v.minted = vault.minted \cup {a}

LEMMA SharesHandled ==
    ASSUME VaultShape, NEW c, c.cmd \in SharesCmds,
           c.cmd = "issue_share_token" => vault.minted # Secrets
    PROVE  /\ VaultWell(SharesCommand(c).vault)
           /\ SharesEffect(c, SharesCommand(c).vault, SharesCommand(c).answer)
<1>1. VaultWell(vault) /\ VaultOf(vault)
  BY WellVault DEF VaultWell
<1>2. vault.shares = [enabled |-> vault.shares.enabled, tunnel |-> vault.shares.tunnel,
                      live |-> vault.shares.live]
  BY <1>1 DEF VaultWell
<1>3. ASSUME NEW x, NEW w, w = [vault EXCEPT !.shares = x],
             x = [enabled |-> x.enabled, tunnel |-> x.tunnel, live |-> x.live]
      PROVE  /\ VaultWell(w) /\ SameBut(w, vault, {"shares", "minted"})
             /\ w.minted = vault.minted /\ w.shares = x
  <2>1. VaultOf(w) /\ w.shares = x /\ SameBut(w, vault, {"shares"})
    BY <1>1, <1>3, OneChanged
  <2> QED BY <1>1, <1>3, <2>1 DEF VaultWell, SameBut
<1>4. CASE c.cmd = "share_tunnel"
  <2>1. PICK x : x = [vault.shares EXCEPT !.tunnel = c.arg]
    OBVIOUS
  <2>2. x = [enabled |-> x.enabled, tunnel |-> x.tunnel, live |-> x.live]
    BY <1>2, <2>1
  <2>3. PICK w : w = [vault EXCEPT !.shares = x]
    OBVIOUS
  <2>4. [vault EXCEPT !.shares.tunnel = c.arg] = w
    BY <2>1, <2>3
  <2>5. SharesCommand(c).vault = w
    BY <1>4, <2>4 DEF SharesCommand, Ok
  <2> QED BY <1>3, <1>4, <2>2, <2>3, <2>5 DEF SharesEffect
<1>5. CASE c.cmd = "revoke_share_token"
  <2>1. PICK left : left = vault.shares.live \ {c.arg}
    OBVIOUS
  <2>2. PICK x : x = [vault.shares EXCEPT !.live = left]
    OBVIOUS
  <2>3. x = [enabled |-> x.enabled, tunnel |-> x.tunnel, live |-> x.live]
    BY <1>2, <2>2
  <2>4. PICK w : w = [vault EXCEPT !.shares = x]
    OBVIOUS
  <2>5. [vault EXCEPT !.shares.live = @ \ {c.arg}] = w
    BY <2>1, <2>2, <2>4
  <2>6. SharesCommand(c).vault = w
    BY <1>5, <2>5 DEF SharesCommand, Ok
  <2> QED BY <1>3, <1>5, <2>3, <2>4, <2>6 DEF SharesEffect
<1>6. CASE c.cmd = "share_status"
  <2>1. SharesCommand(c).vault = vault /\ SharesCommand(c).answer = vault.shares
    BY <1>6 DEF SharesCommand, Ok
  <2> QED BY <1>1, <1>6, <2>1, SameSame DEF SharesEffect
<1>7. CASE c.cmd = "set_sharing_enabled"
  <2>1. PICK both : both = (vault.shares.tunnel /\ c.arg)
    OBVIOUS
  <2>2. PICK y : y = [vault.shares EXCEPT !.enabled = c.arg]
    OBVIOUS
  <2>3. y.tunnel = vault.shares.tunnel
        /\ y = [enabled |-> c.arg, tunnel |-> vault.shares.tunnel, live |-> vault.shares.live]
    BY <1>2, <2>2
  <2>4. PICK x : x = [y EXCEPT !.tunnel = both]
    OBVIOUS
  <2>5. x = [enabled |-> x.enabled, tunnel |-> x.tunnel, live |-> x.live]
    BY <2>3, <2>4
  <2>6. PICK w : w = [vault EXCEPT !.shares = x]
    OBVIOUS
  <2>7. PICK u : u = [vault EXCEPT !.shares = y]
    OBVIOUS
  <2>8. u = [vault EXCEPT !.shares.enabled = c.arg] /\ u.shares = y
    BY <1>1, <2>2, <2>7, OneChanged
  <2>9. [u EXCEPT !.shares = x] = w
    BY <2>6, <2>7
  <2>10. (u.shares.tunnel /\ c.arg) = both
    BY <2>1, <2>3, <2>8
  <2>11. [u EXCEPT !.shares.tunnel = @ /\ c.arg]
           = [u EXCEPT !.shares = [u.shares EXCEPT !.tunnel = both]]
    BY <2>10
  <2>12. SharesCommand(c).vault = [u EXCEPT !.shares.tunnel = @ /\ c.arg]
    BY <1>7, <2>8 DEF SharesCommand, Ok
  <2>13. SharesCommand(c).vault = w
    BY <2>4, <2>8, <2>9, <2>11, <2>12
  <2> QED BY <1>3, <1>7, <2>5, <2>6, <2>13 DEF SharesEffect
<1>8. CASE c.cmd = "issue_share_token"
  <2>1. NewSecret \in Secrets
    BY <1>1, <1>8 DEF NewSecret, VaultWell
  <2>2. PICK t : t = NewSecret
    OBVIOUS
  <2>3. PICK more : more = vault.minted \cup {t}
    OBVIOUS
  <2>4. PICK live : live = vault.shares.live \cup {t}
    OBVIOUS
  <2>5. PICK u : u = [vault EXCEPT !.minted = more]
    OBVIOUS
  <2>6. VaultOf(u) /\ u.minted = more /\ SameBut(u, vault, {"minted"}) /\ u.shares = vault.shares
    <3>1. VaultOf(u) /\ u.minted = more /\ SameBut(u, vault, {"minted"})
      BY <1>1, <2>5, OneChanged
    <3> QED BY <3>1 DEF SameBut
  <2>7. PICK x : x = [vault.shares EXCEPT !.live = live]
    OBVIOUS
  <2>8. x = [enabled |-> x.enabled, tunnel |-> x.tunnel, live |-> x.live]
    BY <1>2, <2>7
  <2>9. PICK w : w = [u EXCEPT !.shares = x]
    OBVIOUS
  <2>10. VaultOf(w) /\ w.shares = x /\ SameBut(w, u, {"shares"})
    BY <2>6, <2>9, OneChanged
  <2>11. [u EXCEPT !.shares.live = @ \cup {t}] = w
    BY <2>4, <2>6, <2>7, <2>9
  <2>12. SharesCommand(c).vault = [u EXCEPT !.shares.live = @ \cup {t}]
    BY <1>8, <2>2, <2>3, <2>5 DEF SharesCommand, Ok
  <2>13. SharesCommand(c).answer = t
    BY <1>8, <2>2 DEF SharesCommand, Ok
  <2>14. SameBut(w, vault, {"shares", "minted"}) /\ w.minted = more
    BY <2>6, <2>10 DEF SameBut
  <2>15. VaultWell(w)
    BY <1>1, <2>1, <2>2, <2>3, <2>8, <2>10, <2>14 DEF VaultWell, SameBut
  <2> QED BY <1>8, <2>1, <2>2, <2>3, <2>11, <2>12, <2>13, <2>14, <2>15 DEF SharesEffect
<1> QED BY <1>4, <1>5, <1>6, <1>7, <1>8 DEF SharesCmds

ViewEffect(c, v, a) ==
    /\ SameBut(v, vault, {"sharing"})
    /\ c.cmd # "set_fact_sharing" => v.sharing = vault.sharing
    /\ c.cmd = "set_fact_sharing" =>
         \A f \in Facts : v.sharing[f] = IF f = c.arg.fact
                                         THEN [visibility |-> c.arg.visibility,
                                               category |-> c.arg.category]
                                         ELSE vault.sharing[f]
    /\ c.cmd = "get_dashboard" => a = Now
    /\ c.cmd = "get_graph" => a = GraphSet(c.arg)
    /\ c.cmd = "get_fact" => a = vault.sharing[c.arg.fact]

LEMMA ViewHandled ==
    ASSUME VaultShape, NEW c, c.cmd \in {"get_dashboard", "get_graph", "get_fact",
                                         "set_fact_sharing", "persona_chat"}
    PROVE  /\ VaultWell(ViewCommand(c).vault)
           /\ ViewEffect(c, ViewCommand(c).vault, ViewCommand(c).answer)
<1>1. VaultWell(vault) /\ VaultOf(vault)
  BY WellVault DEF VaultWell
<1>2. CASE c.cmd = "set_fact_sharing"
  <2>1. PICK s : s = [visibility |-> c.arg.visibility, category |-> c.arg.category]
    OBVIOUS
  <2>2. PICK x : x = [vault.sharing EXCEPT ![c.arg.fact] = s]
    OBVIOUS
  <2>3. vault.sharing = [f \in Facts |-> vault.sharing[f]]
    BY <1>1 DEF VaultWell
  <2>4. /\ x = [f \in Facts |-> x[f]]
        /\ \A f \in Facts : x[f] = IF f = c.arg.fact THEN s ELSE vault.sharing[f]
    BY <2>2, <2>3
  <2>5. PICK w : w = [vault EXCEPT !.sharing = x]
    OBVIOUS
  <2>6. VaultOf(w) /\ w.sharing = x /\ SameBut(w, vault, {"sharing"})
    BY <1>1, <2>5, OneChanged
  <2>7. [vault EXCEPT !.sharing[c.arg.fact] = s] = w
    BY <2>2, <2>5
  <2>8. ViewCommand(c).vault = w
    BY <1>2, <2>1, <2>7 DEF ViewCommand, Ok
  <2>9. \A f \in Facts : x[f] = [visibility |-> x[f].visibility, category |-> x[f].category]
    BY <1>1, <2>1, <2>4 DEF VaultWell
  <2>10. VaultWell(w)
    BY <1>1, <2>4, <2>6, <2>9 DEF VaultWell, SameBut
  <2> QED BY <1>2, <2>1, <2>4, <2>6, <2>8, <2>10 DEF ViewEffect
<1>3. CASE c.cmd # "set_fact_sharing"
  <2>1. /\ ViewCommand(c).vault = vault
        /\ c.cmd = "get_dashboard" => ViewCommand(c).answer = Now
        /\ c.cmd = "get_graph" => ViewCommand(c).answer = GraphSet(c.arg)
        /\ c.cmd = "get_fact" => ViewCommand(c).answer = vault.sharing[c.arg.fact]
    BY <1>3 DEF ViewCommand, Ok, Now, GraphSet
  <2> QED BY <1>1, <1>3, <2>1, SameSame DEF ViewEffect
<1> QED BY <1>2, <1>3

QueueEffect(c, v, a) ==
    /\ SameBut(v, vault, {"pending", "facts"})
    /\ c.cmd = "queue_list" => v = vault /\ a = vault.pending

LEMMA QueueHandled ==
    ASSUME VaultShape, NEW c, c.cmd \in {"queue_list", "queue_answer"}
    PROVE  /\ VaultWell(QueueCommand(c).vault)
           /\ QueueEffect(c, QueueCommand(c).vault, QueueCommand(c).answer)
<1>1. VaultWell(vault) /\ VaultOf(vault)
  BY WellVault DEF VaultWell
<1>2. CASE c.cmd = "queue_list" \/ c.arg.input = "skip"
  <2>1. /\ QueueCommand(c).vault = vault
        /\ c.cmd = "queue_list" => QueueCommand(c).answer = vault.pending
    BY <1>2 DEF QueueCommand, Ok
  <2> QED BY <1>1, <2>1, SameSame DEF QueueEffect
<1>3. CASE ~(c.cmd = "queue_list" \/ c.arg.input = "skip")
  <2>1. PICK left : left = vault.pending \ {c.arg.id}
    OBVIOUS
  <2>2. PICK n : n = IF c.arg.input = "yes" THEN vault.facts + 1 ELSE vault.facts
    OBVIOUS
  <2>3. PICK u : u = [vault EXCEPT !.pending = left]
    OBVIOUS
  <2>4. VaultOf(u) /\ SameBut(u, vault, {"pending"}) /\ u.facts = vault.facts
    <3>1. VaultOf(u) /\ SameBut(u, vault, {"pending"})
      BY <1>1, <2>3, OneChanged
    <3> QED BY <3>1 DEF SameBut
  <2>5. PICK w : w = [u EXCEPT !.facts = n]
    OBVIOUS
  <2>6. VaultOf(w) /\ SameBut(w, u, {"facts"})
    BY <2>4, <2>5, OneChanged
  <2>7. (IF c.arg.input = "yes" THEN u.facts + 1 ELSE u.facts) = n
    BY <2>2, <2>4
  <2>8. [u EXCEPT !.facts = IF c.arg.input = "yes" THEN @ + 1 ELSE @] = w
    BY <2>5, <2>7
  <2>9. QueueCommand(c).vault = [u EXCEPT !.facts = IF c.arg.input = "yes" THEN @ + 1 ELSE @]
    BY <1>3, <2>1, <2>3 DEF QueueCommand, Ok
  <2>10. SameBut(w, vault, {"pending", "facts"})
    BY <2>4, <2>6 DEF SameBut
  <2>11. VaultWell(w)
    BY <1>1, <2>6, <2>10 DEF VaultWell, SameBut
  <2> QED BY <1>3, <2>8, <2>9, <2>10, <2>11 DEF QueueEffect
<1> QED BY <1>2, <1>3

LEMMA IngestHandled ==
    ASSUME VaultShape
    PROVE  VaultWell(IngestCommand.vault) /\ SameBut(IngestCommand.vault, vault, {"facts", "sent"})
<1>1. VaultWell(vault) /\ VaultOf(vault)
  BY WellVault DEF VaultWell
<1>2. PICK n : n = vault.facts + 1
  OBVIOUS
<1>3. PICK m : m = vault.sent + 1
  OBVIOUS
<1>4. PICK u : u = [vault EXCEPT !.facts = n]
  OBVIOUS
<1>5. VaultOf(u) /\ SameBut(u, vault, {"facts"}) /\ u.sent = vault.sent
  <2>1. VaultOf(u) /\ SameBut(u, vault, {"facts"})
    BY <1>1, <1>4, OneChanged
  <2> QED BY <2>1 DEF SameBut
<1>6. PICK w : w = [u EXCEPT !.sent = m]
  OBVIOUS
<1>7. VaultOf(w) /\ SameBut(w, u, {"sent"})
  BY <1>5, <1>6, OneChanged
<1>8. [u EXCEPT !.sent = @ + 1] = w
  BY <1>3, <1>5, <1>6
<1>9. IngestCommand.vault = [u EXCEPT !.sent = @ + 1]
  BY <1>2, <1>4 DEF IngestCommand, Ok
<1>10. SameBut(w, vault, {"facts", "sent"})
  BY <1>5, <1>7 DEF SameBut
<1>11. VaultWell(w)
  BY <1>1, <1>7, <1>10 DEF VaultWell, SameBut
<1> QED BY <1>8, <1>9, <1>10, <1>11

SourceEffect(c, v, a) ==
    /\ SameBut(v, vault, {"connected"})
    /\ c.cmd = "list_sources" => v.connected = vault.connected /\ a = vault.connected

LEMMA SourceHandled ==
    ASSUME VaultShape, NEW c, c.cmd \in {"list_sources", "connect_source", "disconnect_source"}
    PROVE  /\ VaultWell(SourceCommand(c).vault)
           /\ SourceEffect(c, SourceCommand(c).vault, SourceCommand(c).answer)
<1>1. VaultWell(vault) /\ VaultOf(vault)
  BY WellVault DEF VaultWell
<1>2. CASE c.cmd = "list_sources"
  <2>1. SourceCommand(c).vault = vault /\ SourceCommand(c).answer = vault.connected
    BY <1>2 DEF SourceCommand, Ok
  <2> QED BY <1>1, <2>1, SameSame DEF SourceEffect
<1>3. CASE c.cmd # "list_sources"
  <2>1. PICK x : x = (c.cmd = "connect_source")
    OBVIOUS
  <2>2. PICK w : w = [vault EXCEPT !.connected = x]
    OBVIOUS
  <2>3. VaultOf(w) /\ SameBut(w, vault, {"connected"})
    BY <1>1, <2>2, OneChanged
  <2>4. SourceCommand(c).vault = w
    <3>1. CASE c.cmd = "connect_source"
      <4>1. x = TRUE
        BY <2>1, <3>1
      <4> QED BY <2>2, <3>1, <4>1 DEF SourceCommand, Ok
    <3>2. CASE c.cmd = "disconnect_source"
      <4>1. x = FALSE
        BY <2>1, <3>2
      <4> QED BY <2>2, <3>2, <4>1 DEF SourceCommand, Ok
    <3> QED BY <1>3, <3>1, <3>2
  <2>5. VaultWell(w)
    BY <1>1, <2>3 DEF VaultWell, SameBut
  <2> QED BY <1>3, <2>3, <2>4, <2>5 DEF SourceEffect
<1> QED BY <1>2, <1>3

HistoryEffect(c, v, a) ==
    /\ SameBut(v, vault, {"thread"})
    /\ c.cmd = "persona_history_load" => v.thread = vault.thread /\ a = vault.thread
    /\ c.cmd = "persona_history_save" => v.thread = c.arg.thread

LEMMA HistoryHandled ==
    ASSUME VaultShape, NEW c, c.cmd \in {"persona_history_load", "persona_history_save"}
    PROVE  /\ VaultWell(HistoryCommand(c).vault)
           /\ HistoryEffect(c, HistoryCommand(c).vault, HistoryCommand(c).answer)
<1>1. VaultWell(vault) /\ VaultOf(vault)
  BY WellVault DEF VaultWell
<1>2. CASE c.cmd = "persona_history_load"
  <2>1. HistoryCommand(c).vault = vault /\ HistoryCommand(c).answer = vault.thread
    BY <1>2 DEF HistoryCommand, Ok
  <2> QED BY <1>1, <1>2, <2>1, SameSame DEF HistoryEffect
<1>3. CASE c.cmd = "persona_history_save"
  <2>1. PICK w : w = [vault EXCEPT !.thread = c.arg.thread]
    OBVIOUS
  <2>2. VaultOf(w) /\ w.thread = c.arg.thread /\ SameBut(w, vault, {"thread"})
    BY <1>1, <2>1, OneChanged
  <2>3. HistoryCommand(c).vault = w
    BY <1>3, <2>1 DEF HistoryCommand, Ok
  <2>4. VaultWell(w)
    BY <1>1, <2>2 DEF VaultWell, SameBut
  <2> QED BY <1>3, <2>2, <2>3, <2>4 DEF HistoryEffect
<1> QED BY <1>2, <1>3

ScopeEffect(c, v, a) ==
    /\ SameBut(v, vault, {"scope"})
    /\ c.cmd = "get_session_scope" => v.scope = vault.scope /\ a = vault.scope
    /\ c.cmd = "set_session_scope" => v.scope = c.arg.roots

LEMMA ScopeHandled ==
    ASSUME VaultShape, NEW c, c.cmd \in {"get_session_scope", "set_session_scope"}
    PROVE  /\ VaultWell(ScopeCommand(c).vault)
           /\ ScopeEffect(c, ScopeCommand(c).vault, ScopeCommand(c).answer)
<1>1. VaultWell(vault) /\ VaultOf(vault)
  BY WellVault DEF VaultWell
<1>2. CASE c.cmd = "get_session_scope"
  <2>1. ScopeCommand(c).vault = vault /\ ScopeCommand(c).answer = vault.scope
    BY <1>2 DEF ScopeCommand, Ok
  <2> QED BY <1>1, <1>2, <2>1, SameSame DEF ScopeEffect
<1>3. CASE c.cmd = "set_session_scope"
  <2>1. PICK w : w = [vault EXCEPT !.scope = c.arg.roots]
    OBVIOUS
  <2>2. VaultOf(w) /\ w.scope = c.arg.roots /\ SameBut(w, vault, {"scope"})
    BY <1>1, <2>1, OneChanged
  <2>3. ScopeCommand(c).vault = w
    BY <1>3, <2>1 DEF ScopeCommand, Ok
  <2>4. VaultWell(w)
    BY <1>1, <2>2 DEF VaultWell, SameBut
  <2> QED BY <1>3, <2>2, <2>3, <2>4 DEF ScopeEffect
<1> QED BY <1>2, <1>3

-----------------------------------------------------------------------------
(* The end of a command.                                                   *)

\* A command done: v is the vault after it, a its answer.
Did(c, v, a) ==
    /\ c.cmd \in {"lock", "unlock", "get_status"} => SessionEffect(c, v, a)
    /\ c.cmd \in ConfigReads \cup {"set_transfer_policy", "set_server_enabled"} =>
         ConfigEffect(c, v, a)
    /\ c.cmd = "set_llm_config" => LlmEffect(c, v, a)
    /\ c.cmd \in SharesCmds => SharesEffect(c, v, a)
    /\ c.cmd \in {"get_dashboard", "get_graph", "get_fact", "set_fact_sharing", "persona_chat"} =>
         ViewEffect(c, v, a)
    /\ c.cmd \in {"queue_list", "queue_answer"} => QueueEffect(c, v, a)
    /\ c.cmd = "trigger_ingest" => SameBut(v, vault, {"facts", "sent"})
    /\ c.cmd \in {"list_sources", "connect_source", "disconnect_source"} => SourceEffect(c, v, a)
    /\ c.cmd \in {"persona_history_load", "persona_history_save"} => HistoryEffect(c, v, a)
    /\ c.cmd \in {"get_session_scope", "set_session_scope"} => ScopeEffect(c, v, a)

\* What the end of any command does to the vault, from the tables above.
LEMMA HandledFacts ==
    ASSUME VaultShape, NEW c, Named(c), c.cmd \in Commands, ~Refused(c)
    PROVE  VaultWell(Handled(c).vault) /\ Did(c, Handled(c).vault, Handled(c).answer)
<1>1. PICK h : h = Handled(c)
  OBVIOUS
<1>2. CASE c.cmd \in {"lock", "unlock", "get_status"}
  <2>1. h = SessionCommand(c)
    BY <1>1, <1>2, HandledBy
  <2>2. VaultWell(h.vault) /\ SessionEffect(c, h.vault, h.answer)
    BY <1>2, <2>1, SessionHandled
  <2> QED BY <1>1, <1>2, <2>2 DEF Did, ConfigReads, SharesCmds
<1>3. CASE c.cmd \in ConfigReads \cup {"set_transfer_policy", "set_server_enabled"}
  <2>1. h = ConfigCommand(c)
    BY <1>1, <1>3, HandledBy DEF ConfigReads
  <2>2. VaultWell(h.vault) /\ ConfigEffect(c, h.vault, h.answer)
    BY <1>3, <2>1, ConfigHandled
  <2> QED BY <1>1, <1>3, <2>2 DEF Did, ConfigReads, SharesCmds
<1>4. CASE c.cmd = "set_llm_config"
  <2>1. h = LlmCommand(c)
    BY <1>1, <1>4, HandledBy
  <2>2. VaultWell(h.vault) /\ LlmEffect(c, h.vault, h.answer)
    BY <2>1, LlmHandled
  <2> QED BY <1>1, <1>4, <2>2 DEF Did, ConfigReads, SharesCmds
<1>5. CASE c.cmd \in SharesCmds
  <2>1. h = SharesCommand(c)
    BY <1>1, <1>5, HandledBy
  <2>2. c.cmd = "issue_share_token" => vault.minted # Secrets
    BY DEF Refused
  <2>3. VaultWell(h.vault) /\ SharesEffect(c, h.vault, h.answer)
    BY <1>5, <2>1, <2>2, SharesHandled
  <2> QED BY <1>1, <1>5, <2>3 DEF Did, ConfigReads, SharesCmds
<1>6. CASE c.cmd \in {"get_dashboard", "get_graph", "get_fact", "set_fact_sharing",
                      "persona_chat"}
  <2>1. h = ViewCommand(c)
    BY <1>1, <1>6, HandledBy
  <2>2. VaultWell(h.vault) /\ ViewEffect(c, h.vault, h.answer)
    BY <1>6, <2>1, ViewHandled
  <2> QED BY <1>1, <1>6, <2>2 DEF Did, ConfigReads, SharesCmds
<1>7. CASE c.cmd \in {"queue_list", "queue_answer"}
  <2>1. h = QueueCommand(c)
    BY <1>1, <1>7, HandledBy
  <2>2. VaultWell(h.vault) /\ QueueEffect(c, h.vault, h.answer)
    BY <1>7, <2>1, QueueHandled
  <2> QED BY <1>1, <1>7, <2>2 DEF Did, ConfigReads, SharesCmds
<1>8. CASE c.cmd = "trigger_ingest"
  <2>1. h = IngestCommand
    BY <1>1, <1>8, HandledBy
  <2>2. VaultWell(h.vault) /\ SameBut(h.vault, vault, {"facts", "sent"})
    BY <2>1, IngestHandled
  <2> QED BY <1>1, <1>8, <2>2 DEF Did, ConfigReads, SharesCmds
<1>9. CASE c.cmd \in {"list_sources", "connect_source", "disconnect_source"}
  <2>1. h = SourceCommand(c)
    BY <1>1, <1>9, HandledBy
  <2>2. VaultWell(h.vault) /\ SourceEffect(c, h.vault, h.answer)
    BY <1>9, <2>1, SourceHandled
  <2> QED BY <1>1, <1>9, <2>2 DEF Did, ConfigReads, SharesCmds
<1>10. CASE c.cmd \in {"persona_history_load", "persona_history_save"}
  <2>1. h = HistoryCommand(c)
    BY <1>1, <1>10, HandledBy
  <2>2. VaultWell(h.vault) /\ HistoryEffect(c, h.vault, h.answer)
    BY <1>10, <2>1, HistoryHandled
  <2> QED BY <1>1, <1>10, <2>2 DEF Did, ConfigReads, SharesCmds
<1>11. CASE c.cmd \in {"get_session_scope", "set_session_scope"}
  <2>1. h = ScopeCommand(c)
    BY <1>1, <1>11, HandledBy
  <2>2. VaultWell(h.vault) /\ ScopeEffect(c, h.vault, h.answer)
    BY <1>11, <2>1, ScopeHandled
  <2> QED BY <1>1, <1>11, <2>2 DEF Did, ConfigReads, SharesCmds
<1> QED BY <1>2, <1>3, <1>4, <1>5, <1>6, <1>7, <1>8, <1>9, <1>10, <1>11
        DEF Commands, ConfigReads, SharesCmds

\* A command that is done leaves alone what is not its own.
DidKeeps(c, v) ==
    /\ c.cmd \notin {"lock", "unlock"} => v.open = vault.open
    /\ c.cmd \notin SharesCmds \/ c.cmd = "share_status" => v.shares = vault.shares
    /\ c.cmd # "issue_share_token" => v.minted = vault.minted
    /\ c.cmd \notin {"connect_source", "disconnect_source"} => v.connected = vault.connected
    /\ c.cmd # "queue_answer" => v.pending = vault.pending
    /\ c.cmd \notin {"queue_answer", "trigger_ingest"} => v.facts = vault.facts
    /\ c.cmd # "trigger_ingest" => v.sent = vault.sent
    /\ c.cmd # "persona_history_save" => v.thread = vault.thread
    /\ c.cmd \notin {"set_transfer_policy", "set_server_enabled", "set_llm_config"} =>
         v.config = vault.config
    /\ c.cmd # "set_llm_config" =>
         v.config.model = vault.config.model /\ v.config.keys = vault.config.keys
    /\ c.cmd # "set_session_scope" => v.scope = vault.scope
    /\ c.cmd # "set_fact_sharing" => v.sharing = vault.sharing

LEMMA DidFields ==
    ASSUME NEW c, c.cmd \in Commands, NEW v, NEW a, Did(c, v, a)
    PROVE  DidKeeps(c, v)
<1>1. CASE c.cmd \in {"lock", "unlock", "get_status"}
  BY <1>1 DEF Did, SessionEffect, SameBut, DidKeeps, SharesCmds
<1>2. CASE c.cmd \in ConfigReads \cup {"set_transfer_policy", "set_server_enabled"}
  BY <1>2 DEF Did, ConfigEffect, SameBut, DidKeeps, ConfigReads, SharesCmds
<1>3. CASE c.cmd = "set_llm_config"
  BY <1>3 DEF Did, LlmEffect, SameBut, DidKeeps, SharesCmds
<1>4. CASE c.cmd \in SharesCmds
  BY <1>4 DEF Did, SharesEffect, SameBut, DidKeeps, SharesCmds
<1>5. CASE c.cmd \in {"get_dashboard", "get_graph", "get_fact", "set_fact_sharing",
                      "persona_chat"}
  BY <1>5 DEF Did, ViewEffect, SameBut, DidKeeps, SharesCmds
<1>6. CASE c.cmd \in {"queue_list", "queue_answer"}
  BY <1>6 DEF Did, QueueEffect, SameBut, DidKeeps, SharesCmds
<1>7. CASE c.cmd = "trigger_ingest"
  BY <1>7 DEF Did, SameBut, DidKeeps, SharesCmds
<1>8. CASE c.cmd \in {"list_sources", "connect_source", "disconnect_source"}
  BY <1>8 DEF Did, SourceEffect, SameBut, DidKeeps, SharesCmds
<1>9. CASE c.cmd \in {"persona_history_load", "persona_history_save"}
  BY <1>9 DEF Did, HistoryEffect, SameBut, DidKeeps, SharesCmds
<1>10. CASE c.cmd \in {"get_session_scope", "set_session_scope"}
  BY <1>10 DEF Did, ScopeEffect, SameBut, DidKeeps, SharesCmds
<1> QED BY <1>1, <1>2, <1>3, <1>4, <1>5, <1>6, <1>7, <1>8, <1>9, <1>10
        DEF Commands, ConfigReads, SharesCmds

-----------------------------------------------------------------------------
(* A step of the backend: a command is done, refused, or failed.           *)

Outcome(c, e) ==
    /\ VaultShape' /\ SeenShape'
    /\ spent'.faults = 0 => spent.faults = 0
    /\ \/ e.state = "done" /\ Did(c, vault', e.answer)
       \/ /\ e.state = "failed" /\ c.cmd \notin {"get_status", "list_transfers", "lock"}
          /\ vault' = vault /\ (Refused(c) \/ spent'.faults # 0)
       \/ /\ e.state = "failed" /\ c.cmd \in Stepwise
          /\ spent'.faults # 0 /\ \E a : Did(c, vault', a)

BackStep(c, e) ==
    /\ Ending(c, e) /\ Outcome(c, e)
    /\ Routed(c, ui) /\ Named(c) /\ c.cmd \in Commands

LEMMA RoutedEnd ==
    ASSUME NEW c, NEW e, NEW u, Routed(c, u), e.cmd = c.cmd, e.arg = c.arg, e.for = c.for,
           c.for # "nobody"
    PROVE  Routed(e, u)
<1> QED BY DEF Routed, Named

LEMMA BackendSteps ==
    ASSUME ViewsIInv, NEW i \in DOMAIN inFlight, Handle(i) \/ Refuse(i) \/ Fail(i)
    PROVE  \E c, e : Ending(c, e) /\ Outcome(c, e) /\ Routed(c, ui) /\ Named(c)
                     /\ c.cmd \in Commands
<1>1. PICK c : c = inFlight[i]
  OBVIOUS
<1>2. Shape /\ VaultShape /\ SeenShape
  BY DEF ViewsIInv, Shape
<1>3. Routed(c, ui) /\ Named(c) /\ c.state = "sent"
  BY <1>1, <1>2, CallFacts DEF Handle, Refuse, Fail
<1>4. c.cmd \in Commands
  BY <1>3, KnownCommand
<1>5. ui' = ui /\ seen' = seen
  BY DEF Handle, Refuse, Fail
<1>6. CASE Handle(i)
  <2>1. PICK a : a = Handled(c).answer
    OBVIOUS
  <2>2. vault' = Handled(c).vault /\ Ended(i, "done", a) /\ spent' = spent /\ ~Refused(c)
    BY <1>1, <1>6, <2>1 DEF Handle
  <2>3. PICK e : Ending(c, e) /\ e.state = "done" /\ e.answer = a
    BY <1>1, <1>2, <1>3, <1>5, <2>2, EndedFacts
  <2>4. VaultWell(vault') /\ Did(c, vault', a)
    BY <1>2, <1>3, <1>4, <2>1, <2>2, HandledFacts
  <2>5. VaultShape'
    BY <2>4 DEF VaultShape, VaultWell, VaultOf, Vault
  <2>6. SeenShape'
    BY <1>2, <1>5, <2>2 DEF SeenShape
  <2>7. Outcome(c, e)
    BY <2>2, <2>3, <2>4, <2>5, <2>6 DEF Outcome
  <2> QED BY <1>3, <1>4, <2>3, <2>7
<1>7. CASE Refuse(i)
  <2>1. vault' = vault /\ Ended(i, "failed", Null) /\ spent' = spent /\ Refused(c)
    BY <1>1, <1>7 DEF Refuse
  <2>2. PICK e : Ending(c, e) /\ e.state = "failed"
    BY <1>1, <1>2, <1>3, <1>5, <2>1, EndedFacts
  <2>3. VaultShape' /\ SeenShape'
    BY <1>2, <1>5, <2>1 DEF VaultShape, SeenShape
  <2>4. c.cmd \notin {"get_status", "list_transfers", "lock"}
    BY <2>1 DEF Refused, Anytime
  <2>5. Outcome(c, e)
    BY <2>1, <2>2, <2>3, <2>4 DEF Outcome
  <2> QED BY <1>3, <1>4, <2>2, <2>5
<1>8. CASE Fail(i)
  <2>1. /\ Ended(i, "failed", Null) /\ spent' = [spent EXCEPT !.faults = @ + 1]
        /\ c.cmd \notin {"get_status", "list_transfers", "lock"} /\ ~Refused(c)
        /\ vault' = vault \/ (c.cmd \in Stepwise /\ vault' = Handled(c).vault)
    BY <1>1, <1>8 DEF Fail
  <2>2. PICK e : Ending(c, e) /\ e.state = "failed"
    BY <1>1, <1>2, <1>3, <1>5, <2>1, EndedFacts
  <2>3. SeenShape' /\ spent'.faults # 0
    <3>1. PICK n : n = spent.faults + 1
      OBVIOUS
    <3>2. n \in Nat /\ n # 0
      BY <1>2, <3>1 DEF SeenShape
    <3>3. spent' = [spent EXCEPT !.faults = n]
      BY <2>1, <3>1
    <3>4. spent' = [clicks |-> spent.clicks, opens |-> spent.opens, faults |-> n]
      BY <1>2, <3>3 DEF SeenShape
    <3> QED BY <1>2, <1>5, <3>2, <3>4 DEF SeenShape
  <2>4. CASE vault' = vault
    <3>1. VaultShape'
      BY <1>2, <2>4 DEF VaultShape
    <3>2. Outcome(c, e)
      BY <2>1, <2>2, <2>3, <2>4, <3>1 DEF Outcome
    <3> QED BY <1>3, <1>4, <2>2, <3>2
  <2>5. CASE c.cmd \in Stepwise /\ vault' = Handled(c).vault
    <3>1. VaultWell(vault') /\ Did(c, vault', Handled(c).answer)
      BY <1>2, <1>3, <1>4, <2>1, <2>5, HandledFacts
    <3>2. VaultShape'
      BY <3>1 DEF VaultShape, VaultWell, VaultOf, Vault
    <3>3. Outcome(c, e)
      BY <2>1, <2>2, <2>3, <2>5, <3>1, <3>2 DEF Outcome
    <3> QED BY <1>3, <1>4, <2>2, <3>3
  <2> QED BY <2>1, <2>4, <2>5
<1> QED BY <1>6, <1>7, <1>8

LEMMA OutcomeKeeps ==
    ASSUME NEW c, NEW e, BackStep(c, e)
    PROVE  DidKeeps(c, vault')
<1>1. c.cmd \in Commands /\ Outcome(c, e)
  BY DEF BackStep
<1>2. CASE vault' = vault
  BY <1>2 DEF DidKeeps
<1>3. CASE vault' # vault
  <2>1. PICK a : Did(c, vault', a)
    BY <1>1, <1>3 DEF Outcome
  <2> QED BY <1>1, <2>1, DidFields
<1> QED BY <1>2, <1>3

\* Calls on what the command does not touch stay as they are; it was alone on what it touches.
LEMMA BackCalls ==
    ASSUME Shape, AtMostOne, NEW c, NEW e, BackStep(c, e)
    PROVE  /\ Shape' /\ AtMostOne'
           /\ ui' = ui /\ seen' = seen
           /\ e.cmd = c.cmd /\ e.arg = c.arg /\ e.for = c.for
           /\ c.state = "sent" /\ c \in All(inFlight) /\ CallShape(e)
           /\ \A d \in All(inFlight') : d \in All(inFlight) \/ (d = e /\ c.for # "nobody")
           /\ \A d \in All(inFlight) : d = c \/ d \in All(inFlight')
           /\ c.for # "nobody" => e \in All(inFlight')
           /\ \A r : r \notin Touches(c) => SameOn(r)
           /\ \A r : r \in Touches(c) /\ Alone(r) =>
                On(inFlight, r) = {c} /\ On(inFlight', r) = IF c.for = "nobody" THEN {} ELSE {e}
<1>1. Ending(c, e) /\ Outcome(c, e) /\ Routed(c, ui)
  BY DEF BackStep
<1>2. Touches(e) = Touches(c)
  BY <1>1, TouchesSame DEF Ending
<1>3. \A d \in All(inFlight') : d \in All(inFlight) \/ (d = e /\ c.for # "nobody")
  BY <1>1 DEF Ending
<1>4. \A d \in All(inFlight) : d = c \/ d \in All(inFlight')
  BY <1>1 DEF Ending
<1>5. ASSUME NEW r, r \notin Touches(c) PROVE SameOn(r)
  <2>1. On(inFlight', r) = On(inFlight, r)
    BY <1>2, <1>3, <1>4, <1>5 DEF On
  <2> QED BY <1>1, <2>1 DEF SameOn, Ending
<1>6. ASSUME NEW r, r \in Touches(c), Alone(r)
      PROVE  /\ On(inFlight, r) = {c}
             /\ On(inFlight', r) = IF c.for = "nobody" THEN {} ELSE {e}
  <2>1. OneOn(inFlight, r)
    BY <1>6 DEF AtMostOne
  <2>2. On(inFlight, r) = {c}
    <3>1. c \in All(inFlight)
      BY <1>1 DEF Ending
    <3> QED BY <1>6, <2>1, <3>1 DEF OneOn, On, All
  <2> QED BY <1>1, <1>6, <2>1, <2>2 DEF Ending
<1>7. AtMostOne'
  BY <1>1 DEF AtMostOne, Alone, Ending
<1>8. \A d \in All(inFlight) : CallShape(d) /\ Routed(d, ui)
  BY ShapedCalls DEF Shape, Routing
<1>9. ASSUME NEW d \in All(inFlight') PROVE CallShape(d) /\ Routed(d, ui)
  <2>1. CASE d \in All(inFlight)
    BY <1>8, <2>1
  <2>2. CASE d = e /\ c.for # "nobody"
    <3>1. Routed(e, ui) /\ CallShape(e)
      BY <1>1, <2>2, RoutedEnd DEF Ending
    <3> QED BY <2>2, <3>1
  <2> QED BY <1>3, <2>1, <2>2
<1>10. Shape'
  <2>1. ui' = ui /\ seen' = seen /\ IsSeq(inFlight')
    BY <1>1 DEF Ending
  <2>2. UiShape'
    BY <2>1 DEF Shape, UiShape, InSettings
  <2>3. CallsShape'
    <3>1. Len(inFlight') \in Nat /\ inFlight' = [n \in 1..Len(inFlight') |-> inFlight'[n]]
      BY <2>1, SeqFacts
    <3> QED BY <1>9, <3>1 DEF CallsShape, All
  <2>4. Routing'
    BY <1>9, <2>1 DEF Routing
  <2> QED BY <1>1, <2>2, <2>3, <2>4 DEF Shape, Outcome
<1> QED BY <1>1, <1>3, <1>4, <1>5, <1>6, <1>7, <1>10 DEF Ending

-----------------------------------------------------------------------------
(* The end of a command keeps each part of the invariant.                  *)

\* One lemma per part of the invariant.
LEMMA BackShares ==
    ASSUME ViewsIInv, NEW c, NEW e, BackStep(c, e)
    PROVE  SharesInv'
<1>1. Shape /\ AtMostOne /\ SharesInv
  BY DEF ViewsIInv
<1>2. Named(c) /\ Outcome(c, e) /\ Routed(c, ui)
  BY DEF BackStep
<1>3. ui' = ui /\ seen' = seen
  BY <1>1, BackCalls
<1>4. CASE "shares" \notin Touches(c)
  <2>1. c.cmd \notin SharesCmds
    BY <1>2, <1>4, Touched
  <2>2. vault'.shares = vault.shares
    BY <2>1, OutcomeKeeps DEF DidKeeps
  <2>3. SameOn("shares")
    BY <1>1, <1>4, BackCalls
  <2> QED BY <1>1, <1>3, <2>2, <2>3, SharesAsBefore
<1>5. CASE "shares" \in Touches(c)
  <2> SUFFICES ASSUME Alone("shares") PROVE SharesInv'
    BY <1>3 DEF SharesInv, Alone
  <2>1. c.cmd \in SharesCmds
    BY <1>2, <1>5, Touched
  <2>2. /\ On(inFlight, "shares") = {c}
        /\ On(inFlight', "shares") = IF c.for = "nobody" THEN {} ELSE {e}
    BY <1>1, <1>5, BackCalls
  <2>3. e.cmd = c.cmd /\ e.for = c.for
    BY <1>1, BackCalls
  <2>4. ASSUME e.cmd = "share_status", e.state = "done" PROVE e.answer = vault'.shares
    <3>1. Did(c, vault', e.answer)
      BY <1>2, <2>4 DEF Outcome
    <3> QED BY <2>1, <2>3, <2>4, <3>1 DEF Did, SharesEffect
  <2>5. ui.tab = "sharing" => c.for = "pane"
    BY <1>1, <2>2 DEF SharesInv
  <2>6. \A d \in On(inFlight', "shares") : d = e
    BY <2>2
  <2>7. ui.tab = "sharing" => On(inFlight', "shares") # {}
    BY <2>2, <2>5
  <2> QED BY <1>3, <2>3, <2>4, <2>5, <2>6, <2>7 DEF SharesInv
<1> QED BY <1>4, <1>5

LEMMA BackSources ==
    ASSUME ViewsIInv, NEW c, NEW e, BackStep(c, e)
    PROVE  SourcesInv'
<1>1. Shape /\ AtMostOne /\ SourcesInv
  BY DEF ViewsIInv
<1>2. Named(c) /\ Outcome(c, e) /\ Routed(c, ui)
  BY DEF BackStep
<1>3. ui' = ui /\ seen' = seen
  BY <1>1, BackCalls
<1>4. CASE "sources" \notin Touches(c)
  <2>1. c.cmd \notin {"connect_source", "disconnect_source"}
    BY <1>2, <1>4, Touched
  <2>2. vault'.connected = vault.connected
    BY <2>1, OutcomeKeeps DEF DidKeeps
  <2>3. SameOn("sources")
    BY <1>1, <1>4, BackCalls
  <2> QED BY <1>1, <1>3, <2>2, <2>3, SourcesAsBefore
<1>5. CASE "sources" \in Touches(c)
  <2> SUFFICES ASSUME Alone("sources") PROVE SourcesInv'
    BY <1>3 DEF SourcesInv, Alone
  <2>1. c.cmd \in {"list_sources", "connect_source", "disconnect_source"}
    BY <1>2, <1>5, Touched
  <2>2. /\ On(inFlight, "sources") = {c}
        /\ On(inFlight', "sources") = IF c.for = "nobody" THEN {} ELSE {e}
    BY <1>1, <1>5, BackCalls
  <2>3. e.cmd = c.cmd /\ e.for = c.for
    BY <1>1, BackCalls
  <2>4. ASSUME e.cmd = "list_sources", e.state = "done" PROVE e.answer = vault'.connected
    <3>1. Did(c, vault', e.answer)
      BY <1>2, <2>4 DEF Outcome
    <3> QED BY <2>1, <2>3, <2>4, <3>1 DEF Did, SourceEffect
  <2>5. ui.tab = "sources" => c.for # "nobody"
    BY <1>1, <2>2 DEF SourcesInv
  <2>6. \A d \in On(inFlight', "sources") : d = e
    BY <2>2
  <2>7. ASSUME ui.tab = "sources", e.cmd # "list_sources" /\ e.state # "done",
               Shows(ui.pane.status), ~ui.pane.error
        PROVE  ui.pane.status.data = vault'.connected
    <3>1. ui.pane.status.data = vault.connected
      <4>1. c.state = "sent"
        BY <1>1, BackCalls
      <4> QED BY <1>1, <2>2, <2>3, <2>7, <4>1 DEF SourcesInv
    <3>2. vault' = vault
      BY <1>2, <2>1, <2>7 DEF Outcome, Stepwise
    <3> QED BY <3>1, <3>2
  <2>8. ui.tab = "sources" => e \in On(inFlight', "sources")
    BY <2>2, <2>5
  <2> QED BY <1>3, <2>3, <2>4, <2>5, <2>6, <2>7, <2>8 DEF SourcesInv
<1> QED BY <1>4, <1>5

LEMMA BackTransfers ==
    ASSUME ViewsIInv, NEW c, NEW e, BackStep(c, e)
    PROVE  TransfersInv'
<1>1. Shape /\ AtMostOne /\ TransfersInv
  BY DEF ViewsIInv
<1>2. Named(c) /\ Outcome(c, e)
  BY DEF BackStep
<1>3. ui' = ui /\ seen' = seen
  BY <1>1, BackCalls
<1>4. CASE "transfers" \notin Touches(c)
  <2>1. c.cmd # "trigger_ingest"
    BY <1>2, <1>4, Touched
  <2>2. vault'.sent = vault.sent
    BY <2>1, OutcomeKeeps DEF DidKeeps
  <2>3. SameOn("transfers")
    BY <1>1, <1>4, BackCalls
  <2> QED BY <1>1, <1>3, <2>2, <2>3, TransfersAsBefore
<1>5. CASE "transfers" \in Touches(c)
  <2> SUFFICES ASSUME Alone("transfers"), ui.tab = "transfers" PROVE TransfersInv'
    BY <1>3 DEF TransfersInv, Alone
  <2>1. /\ On(inFlight, "transfers") = {c}
        /\ On(inFlight', "transfers") = IF c.for = "nobody" THEN {} ELSE {e}
    BY <1>1, <1>5, BackCalls
  <2>2. c.cmd = "list_transfers" /\ c.for = "home"
    BY <1>1, <2>1 DEF TransfersInv
  <2>3. On(inFlight', "transfers") = {e}
    BY <2>1, <2>2
  <2>4. e.cmd = "list_transfers" /\ e.for = "home"
    BY <1>1, <2>2, BackCalls
  <2>5. e.state = "done" /\ Did(c, vault', e.answer)
    BY <1>2, <2>2 DEF Outcome, Stepwise
  <2>6. e.answer = vault.sent
    BY <2>2, <2>5 DEF Did, ConfigReads, ConfigEffect
  <2>7. vault'.sent = vault.sent
    BY <2>2, OutcomeKeeps DEF DidKeeps
  <2> QED BY <2>3, <2>4, <2>5, <2>6, <2>7 DEF TransfersInv
<1> QED BY <1>4, <1>5

LEMMA BackQueue ==
    ASSUME ViewsIInv, NEW c, NEW e, BackStep(c, e)
    PROVE  QueueInv'
<1>1. Shape /\ AtMostOne /\ QueueInv
  BY DEF ViewsIInv
<1>2. Named(c) /\ Outcome(c, e) /\ Routed(c, ui)
  BY DEF BackStep
<1>3. ui' = ui /\ seen' = seen
  BY <1>1, BackCalls
<1>4. CASE "queue" \notin Touches(c)
  <2>1. c.cmd # "queue_answer"
    BY <1>2, <1>4, Touched
  <2>2. vault'.pending = vault.pending
    BY <2>1, OutcomeKeeps DEF DidKeeps
  <2>3. SameOn("queue")
    BY <1>1, <1>4, BackCalls
  <2> QED BY <1>1, <1>3, <2>2, <2>3, QueueKept
<1>5. CASE "queue" \in Touches(c)
  <2> SUFFICES ASSUME Alone("queue") PROVE QueueInv'
    BY <1>3 DEF QueueInv, Alone
  <2>1. c.cmd \in {"queue_list", "queue_answer", "trigger_ingest"}
    BY <1>2, <1>5, Touched
  <2>2. /\ On(inFlight, "queue") = {c}
        /\ On(inFlight', "queue") = IF c.for = "nobody" THEN {} ELSE {e}
    BY <1>1, <1>5, BackCalls
  <2>3. e.cmd = c.cmd /\ e.for = c.for
    BY <1>1, BackCalls
  <2>4. c.for # "nobody"
    BY <1>2, <2>1, RoutedFacts
  <2>5. On(inFlight', "queue") = {e}
    BY <2>2, <2>4
  <2>6. ASSUME e.cmd = "queue_list", e.state = "done" PROVE e.answer \subseteq vault'.pending
    <3>1. Did(c, vault', e.answer)
      BY <1>2, <2>6 DEF Outcome
    <3> QED BY <2>3, <2>6, <3>1 DEF Did, QueueEffect
  <2>7. ui.tab = "queue" /\ e.cmd = "queue_answer" => e.for = "pane"
    BY <1>1, <2>2, <2>3 DEF QueueInv
  <2>8. c.cmd # "queue_answer" => vault'.pending = vault.pending
    BY OutcomeKeeps DEF DidKeeps
  <2>9. ASSUME ui.tab = "queue", e.cmd # "queue_answer", Shows(ui.pane.items), ~ui.pane.error
        PROVE  ui.pane.items.data \subseteq vault'.pending
    <3>1. ui.pane.items.data \subseteq vault.pending
      BY <1>1, <2>2, <2>3, <2>9 DEF QueueInv
    <3> QED BY <2>3, <2>8, <2>9, <3>1
  <2> QED BY <1>3, <2>5, <2>6, <2>7, <2>9 DEF QueueInv
<1> QED BY <1>4, <1>5

LEMMA BackGraph ==
    ASSUME ViewsIInv, NEW c, NEW e, BackStep(c, e)
    PROVE  GraphInv'
<1>1. Shape /\ AtMostOne /\ GraphInv
  BY DEF ViewsIInv
<1>2. Named(c) /\ Outcome(c, e)
  BY DEF BackStep
<1>3. ui' = ui /\ seen' = seen
  BY <1>1, BackCalls
<1>4. CASE "graph" \notin Touches(c)
  <2>1. SameOn("graph")
    BY <1>1, <1>4, BackCalls
  <2> QED BY <1>1, <1>3, <2>1 DEF GraphInv, SameOn, Alone
<1>5. CASE "graph" \in Touches(c)
  <2> SUFFICES ASSUME Alone("graph") PROVE GraphInv'
    BY <1>3 DEF GraphInv, Alone
  <2>1. c.cmd = "get_graph"
    BY <1>2, <1>5, Touched
  <2>2. /\ On(inFlight, "graph") = {c}
        /\ On(inFlight', "graph") = IF c.for = "nobody" THEN {} ELSE {e}
    BY <1>1, <1>5, BackCalls
  <2>3. e.cmd = c.cmd /\ e.arg = c.arg
    BY <1>1, BackCalls
  <2>4. ASSUME e.state = "done" PROVE e.answer = GraphSet(e.arg)
    <3>1. Did(c, vault', e.answer)
      BY <1>2, <2>4 DEF Outcome
    <3> QED BY <2>1, <2>3, <3>1 DEF Did, ViewEffect
  <2>5. e.arg = ui.pane.scope
    BY <1>1, <2>2, <2>3 DEF GraphInv
  <2>6. \A d \in On(inFlight', "graph") : d = e
    BY <2>2
  <2>7. ui.tab = "dashboard" /\ Shows(ui.pane.graph) => ui.pane.graph.data = GraphSet(ui.pane.scope)
    BY <1>1 DEF GraphInv
  <2> QED BY <1>3, <2>4, <2>5, <2>6, <2>7 DEF GraphInv
<1> QED BY <1>4, <1>5

LEMMA BackDashboard ==
    ASSUME ViewsIInv, NEW c, NEW e, BackStep(c, e)
    PROVE  DashboardInv'
<1>1. Shape /\ AtMostOne /\ DashboardInv
  BY DEF ViewsIInv
<1>2. Named(c) /\ Outcome(c, e) /\ Routed(c, ui)
  BY DEF BackStep
<1>3. ui' = ui /\ seen' = seen
  BY <1>1, BackCalls
<1>4. e.cmd = c.cmd /\ e.for = c.for /\ c.state = "sent"
  BY <1>1, BackCalls
<1> SUFFICES ASSUME spent'.faults = 0, ui.tab = "dashboard",
                    ~(\E d \in All(inFlight') : Bumps(d))
             PROVE  /\ Shows(ui.pane.stats) => ui.pane.stats.data = Now'
                    /\ \A d \in All(inFlight') :
                         d.cmd = "get_dashboard" /\ d.state = "done" => d.answer = Now'
  BY <1>3 DEF DashboardInv
<1>5. spent.faults = 0
  BY <1>2 DEF Outcome
<1>6. ~(\E d \in All(inFlight) : Bumps(d))
  <2> SUFFICES ASSUME NEW d \in All(inFlight), Bumps(d) PROVE FALSE
    OBVIOUS
  <2>1. d # c
    BY <1>4 DEF Bumps
  <2>2. d \in All(inFlight')
    BY <1>1, <2>1, BackCalls
  <2> QED BY <2>2
<1>7. /\ Shows(ui.pane.stats) => ui.pane.stats.data = Now
      /\ \A d \in All(inFlight) : d.cmd = "get_dashboard" /\ d.state = "done" => d.answer = Now
  BY <1>1, <1>5, <1>6 DEF DashboardInv
<1>8. Now' = Now
  <2>1. CASE c.cmd \in {"queue_answer", "trigger_ingest"}
    <3>1. c.for # "nobody"
      BY <1>2, <2>1, RoutedFacts
    <3>2. e \in All(inFlight')
      BY <1>1, <3>1, BackCalls
    <3>3. e.state # "done"
      BY <1>4, <2>1, <3>2 DEF Bumps
    <3>4. vault' = vault
      BY <1>2, <3>3 DEF Outcome
    <3> QED BY <3>4 DEF Now
  <2>2. CASE c.cmd \notin {"queue_answer", "trigger_ingest"}
    <3>1. vault'.facts = vault.facts /\ vault'.pending = vault.pending
      BY <2>2, OutcomeKeeps DEF DidKeeps
    <3> QED BY <3>1 DEF Now
  <2> QED BY <2>1, <2>2
<1>9. ASSUME NEW d \in All(inFlight'), d.cmd = "get_dashboard", d.state = "done"
      PROVE  d.answer = Now
  <2>1. CASE d \in All(inFlight)
    BY <1>7, <1>9, <2>1
  <2>2. CASE d = e
    <3>1. Did(c, vault', e.answer)
      BY <1>2, <1>9, <2>2 DEF Outcome
    <3> QED BY <1>4, <1>9, <2>2, <3>1 DEF Did, ViewEffect
  <2> QED BY <1>1, <2>1, <2>2, BackCalls
<1> QED BY <1>7, <1>8, <1>9

LEMMA BackLock ==
    ASSUME ViewsIInv, NEW c, NEW e, BackStep(c, e)
    PROVE  LockInv'
<1>1. Shape /\ AtMostOne /\ LockInv
  BY DEF ViewsIInv
<1>2. Named(c) /\ Outcome(c, e) /\ Routed(c, ui)
  BY DEF BackStep
<1>3. ui' = ui /\ seen' = seen
  BY <1>1, BackCalls
<1>4. CASE "lock" \notin Touches(c)
  <2>1. c.cmd \notin {"lock", "unlock"}
    BY <1>2, <1>4, Touched
  <2>2. vault'.open = vault.open
    BY <2>1, OutcomeKeeps DEF DidKeeps
  <2>3. SameOn("lock")
    BY <1>1, <1>4, BackCalls
  <2> QED BY <1>1, <1>3, <2>2, <2>3, LockAsBefore
<1>5. CASE "lock" \in Touches(c)
  <2> SUFFICES ASSUME Alone("lock") PROVE LockInv'
    BY <1>3 DEF LockInv, Alone
  <2>1. c.cmd \in {"lock", "unlock", "get_status"}
    BY <1>2, <1>5, Touched
  <2>2. /\ On(inFlight, "lock") = {c}
        /\ On(inFlight', "lock") = IF c.for = "nobody" THEN {} ELSE {e}
    BY <1>1, <1>5, BackCalls
  <2>3. c.for # "nobody"
    BY <1>2, <2>1, RoutedFacts
  <2>4. On(inFlight', "lock") = {e}
    BY <2>2, <2>3
  <2>5. e.cmd = c.cmd /\ c.state = "sent"
    BY <1>1, BackCalls
  <2>6. /\ c.cmd = "unlock" => ui.tab = "unlock"
        /\ c.cmd = "lock" => ui.tab # "unlock"
        /\ IF c.cmd = "get_status" THEN ui.tab = "unlock" <=> vault.open
           ELSE ui.tab = "unlock" <=> ~vault.open
    BY <1>1, <2>2, <2>5 DEF LockInv
  <2>7. vault.open \in BOOLEAN
    BY <1>1 DEF Shape, VaultShape
  <2>8. CASE e.state = "done"
    <3>1. SessionEffect(c, vault', e.answer)
      BY <1>2, <2>1, <2>8 DEF Outcome, Did
    <3>2. CASE c.cmd = "get_status"
      BY <1>3, <2>4, <2>5, <2>6, <2>8, <3>1, <3>2 DEF LockInv, SessionEffect
    <3>3. CASE c.cmd = "lock"
      BY <1>3, <2>4, <2>5, <2>6, <2>8, <3>1, <3>3 DEF LockInv, SessionEffect
    <3>4. CASE c.cmd = "unlock"
      BY <1>3, <2>4, <2>5, <2>6, <2>8, <3>1, <3>4 DEF LockInv, SessionEffect
    <3> QED BY <2>1, <3>2, <3>3, <3>4
  <2>9. CASE e.state # "done"
    <3>1. c.cmd = "unlock" /\ vault' = vault
      BY <1>2, <2>1, <2>9 DEF Outcome, Stepwise
    <3> QED BY <1>3, <2>4, <2>5, <2>6, <2>9, <3>1 DEF LockInv
  <2> QED BY <2>8, <2>9
<1> QED BY <1>4, <1>5

LEMMA BackConfig ==
    ASSUME ViewsIInv, NEW c, NEW e, BackStep(c, e)
    PROVE  ConfigInv'
<1>1. Shape /\ AtMostOne /\ ConfigInv
  BY DEF ViewsIInv
<1>2. Named(c) /\ Outcome(c, e) /\ Routed(c, ui)
  BY DEF BackStep
<1>3. ui' = ui /\ seen' = seen
  BY <1>1, BackCalls
<1>4. CASE "config" \notin Touches(c)
  <2>1. c.cmd \notin {"set_transfer_policy", "set_server_enabled", "set_llm_config"}
    BY <1>2, <1>4, Touched
  <2>2. vault'.config = vault.config
    BY <2>1, OutcomeKeeps DEF DidKeeps
  <2>3. SameOn("config")
    BY <1>1, <1>4, BackCalls
  <2> QED BY <1>1, <1>3, <2>2, <2>3, ConfigAsBefore
<1>5. CASE "config" \in Touches(c)
  <2> SUFFICES ASSUME Alone("config") PROVE ConfigInv'
    BY <1>3 DEF ConfigInv, Alone
  <2>1. c.cmd \in {"load_settings", "get_config", "set_transfer_policy", "set_server_enabled",
                   "set_llm_config"}
    BY <1>2, <1>5, Touched
  <2>2. /\ On(inFlight, "config") = {c}
        /\ On(inFlight', "config") = IF c.for = "nobody" THEN {} ELSE {e}
    BY <1>1, <1>5, BackCalls
  <2>3. e.cmd = c.cmd /\ e.for = c.for /\ e.arg = c.arg
    BY <1>1, BackCalls
  <2>4. ASSUME e.cmd = "load_settings", e.state = "done" PROVE e.answer.config = vault'.config
    <3>1. Did(c, vault', e.answer)
      BY <1>2, <2>4 DEF Outcome
    <3> QED BY <2>3, <2>4, <3>1 DEF Did, ConfigEffect, ConfigReads
  <2>5. ASSUME e.cmd = "get_config", e.state = "done" PROVE e.answer = vault'.config
    <3>1. Did(c, vault', e.answer)
      BY <1>2, <2>5 DEF Outcome
    <3> QED BY <2>3, <2>5, <3>1 DEF Did, ConfigEffect, ConfigReads
  <2>6. /\ c.cmd = "set_llm_config" /\ "model" \notin c.arg.typed =>
             c.arg.model = vault.config.model
        /\ InSettings =>
             /\ c.for = "home"
             /\ c.cmd # "load_settings" => Shows(ui.home.config)
             /\ c.cmd = "set_llm_config" => c.arg.typed \subseteq ui.home.typed /\ ~ui.home.saved
             /\ "model" \notin ui.home.typed /\ Shows(ui.home.config) =>
                  ui.home.model = vault.config.model
             /\ ui.home.saved =>
                  Shows(ui.home.config) /\ ui.home.config.data.model = vault.config.model
    BY <1>1, <2>2 DEF ConfigInv
  <2>7. /\ c.cmd # "set_llm_config" => vault'.config.model = vault.config.model
        /\ c.cmd = "set_llm_config" => vault'.config.model \in {vault.config.model, c.arg.model}
    <3>1. c.cmd # "set_llm_config" => vault'.config.model = vault.config.model
      BY OutcomeKeeps DEF DidKeeps
    <3>2. ASSUME c.cmd = "set_llm_config"
          PROVE  vault'.config.model \in {vault.config.model, c.arg.model}
      BY <1>2, <3>2 DEF Outcome, Did, LlmEffect
    <3> QED BY <3>1, <3>2
  <2>8. \A d \in On(inFlight', "config") : d = e
    BY <2>2
  <2>9. e.cmd = "set_llm_config" /\ "model" \notin e.arg.typed => e.arg.model = vault'.config.model
    BY <2>3, <2>6, <2>7
  <2>10. ASSUME InSettings, "model" \notin ui.home.typed, Shows(ui.home.config)
         PROVE  ui.home.model = vault'.config.model
    BY <2>6, <2>7, <2>10
  <2>11. ASSUME InSettings, ui.home.saved
         PROVE  Shows(ui.home.config) /\ ui.home.config.data.model = vault'.config.model
    BY <2>6, <2>7, <2>11
  <2>12. InSettings' <=> InSettings
    BY <1>3 DEF InSettings
  <2> QED BY <1>3, <2>3, <2>4, <2>5, <2>6, <2>8, <2>9, <2>10, <2>11, <2>12 DEF ConfigInv
<1> QED BY <1>4, <1>5

LEMMA BackHome ==
    ASSUME ViewsIInv, NEW c, NEW e, BackStep(c, e)
    PROVE  HomeInv'
<1>1. Shape /\ AtMostOne /\ HomeInv /\ ConfigInv
  BY DEF ViewsIInv
<1>2. Named(c) /\ Outcome(c, e) /\ Routed(c, ui)
  BY DEF BackStep
<1>3. ui' = ui /\ seen' = seen
  BY <1>1, BackCalls
<1> SUFFICES ASSUME Alone("config"), Alone("lock"), InSettings,
                    On(inFlight', "config") = {}, On(inFlight', "lock") = {},
                    Shows(ui.home.config), ~ui.home.error
             PROVE  ui.home.config.data = vault'.config
  BY <1>3 DEF HomeInv, Alone, InSettings
<1>4. "config" \notin Touches(c)
  <2> SUFFICES ASSUME "config" \in Touches(c) PROVE FALSE
    OBVIOUS
  <2>1. /\ On(inFlight, "config") = {c}
        /\ On(inFlight', "config") = IF c.for = "nobody" THEN {} ELSE {e}
    BY <1>1, BackCalls
  <2>2. c.for = "home"
    BY <1>1, <2>1 DEF ConfigInv
  <2> QED BY <2>1, <2>2
<1>5. "lock" \notin Touches(c)
  <2> SUFFICES ASSUME "lock" \in Touches(c) PROVE FALSE
    OBVIOUS
  <2>1. On(inFlight', "lock") = IF c.for = "nobody" THEN {} ELSE {e}
    BY <1>1, BackCalls
  <2>2. c.for # "nobody"
    <3>1. c.cmd \in {"lock", "unlock", "get_status"}
      BY <1>2, Touched
    <3> QED BY <1>2, <3>1, RoutedFacts
  <2> QED BY <2>1, <2>2
<1>6. On(inFlight, "config") = {} /\ On(inFlight, "lock") = {}
  BY <1>1, <1>4, <1>5, BackCalls DEF SameOn
<1>7. vault'.config = vault.config
  <2>1. c.cmd \notin {"set_transfer_policy", "set_server_enabled", "set_llm_config"}
    BY <1>2, <1>4, Touched
  <2> QED BY <2>1, OutcomeKeeps DEF DidKeeps
<1> QED BY <1>1, <1>6, <1>7 DEF HomeInv

LEMMA BackScope ==
    ASSUME ViewsIInv, NEW c, NEW e, BackStep(c, e)
    PROVE  ScopeInv'
<1>1. Shape /\ AtMostOne /\ ScopeInv
  BY DEF ViewsIInv
<1>2. Named(c) /\ Outcome(c, e)
  BY DEF BackStep
<1>3. ui' = ui /\ seen' = seen
  BY <1>1, BackCalls
<1>4. CASE "scope" \notin Touches(c)
  <2>1. c.cmd # "set_session_scope"
    BY <1>2, <1>4, Touched
  <2>2. vault'.scope = vault.scope
    BY <2>1, OutcomeKeeps DEF DidKeeps
  <2>3. SameOn("scope")
    BY <1>1, <1>4, BackCalls
  <2> QED BY <1>1, <1>3, <2>2, <2>3, ScopeAsBefore
<1>5. CASE "scope" \in Touches(c)
  <2> SUFFICES ASSUME Alone("scope") PROVE ScopeInv'
    BY <1>3 DEF ScopeInv, Alone
  <2>1. c.cmd \in {"get_session_scope", "set_session_scope"}
    BY <1>2, <1>5, Touched
  <2>2. /\ On(inFlight, "scope") = {c}
        /\ On(inFlight', "scope") = IF c.for = "nobody" THEN {} ELSE {e}
    BY <1>1, <1>5, BackCalls
  <2>3. e.cmd = c.cmd /\ e.arg = c.arg /\ CallShape(e) /\ e.state # "sent"
    BY <1>1, BackCalls DEF BackStep, Ending
  <2>4. ASSUME e.cmd = "get_session_scope", e.state = "done" PROVE e.answer = vault'.scope
    <3>1. Did(c, vault', e.answer)
      BY <1>2, <2>4 DEF Outcome
    <3> QED BY <2>3, <2>4, <3>1 DEF Did, ScopeEffect
  <2>5. vault'.scope = vault.scope \/ (c.cmd = "set_session_scope" /\ vault'.scope = c.arg.roots)
    BY <1>2, <2>1 DEF Outcome, Did, ScopeEffect
  <2>6. \A d \in On(inFlight', "scope") : d = e
    BY <2>2
  <2>7. ASSUME ui.panel.view = "scope", ui.panel.shown
        PROVE  /\ SymDiff(ui.panel.selected, vault'.scope) \subseteq ui.panel.toggled
               /\ e.cmd = "set_session_scope" =>
                    SymDiff(ui.panel.selected, e.arg.roots) \subseteq ui.panel.toggled
    <3>1. /\ SymDiff(ui.panel.selected, vault.scope) \subseteq ui.panel.toggled
          /\ c.cmd = "set_session_scope" =>
               SymDiff(ui.panel.selected, c.arg.roots) \subseteq ui.panel.toggled
      BY <1>1, <2>2, <2>7 DEF ScopeInv
    <3> QED BY <2>3, <2>5, <3>1
  <2> QED BY <1>3, <2>3, <2>4, <2>6, <2>7 DEF ScopeInv
<1> QED BY <1>4, <1>5

LEMMA BackControl ==
    ASSUME ViewsIInv, NEW c, NEW e, BackStep(c, e)
    PROVE  ControlInv'
<1>1. Shape /\ AtMostOne /\ ControlInv
  BY DEF ViewsIInv
<1>2. ui' = ui /\ e.cmd = c.cmd /\ e.for = c.for /\ c \in All(inFlight)
  BY <1>1, BackCalls
<1>3. ASSUME NEW d \in All(inFlight'), Saving(d) PROVE ui.panel.busy /\ ~ui.panel.saved
  <2>1. d \in All(inFlight) \/ d = e
    BY <1>1, BackCalls
  <2>2. \E b \in All(inFlight) : Saving(b)
    BY <1>2, <1>3, <2>1 DEF Saving
  <2> QED BY <1>1, <2>2 DEF ControlInv
<1>4. OneSave(inFlight')
  BY <1>1 DEF ControlInv, BackStep, Ending
<1> QED BY <1>2, <1>3, <1>4 DEF ControlInv

\* A page the command does not touch.
LEMMA BackOther ==
    ASSUME ViewsIInv, NEW c, NEW e, BackStep(c, e), NEW f \in Facts, f \notin Touches(c), Alone(f)
    PROVE  /\ FactCalls(f)'
           /\ ui.panel.view = "control" /\ ui.pane.selected = f =>
                /\ FactSent(f)'
                /\ Shows(ui.panel.fact) => FactShown(f)'
<1>1. Shape /\ AtMostOne /\ FactInv
  BY DEF ViewsIInv
<1>2. Named(c) /\ Outcome(c, e)
  BY DEF BackStep
<1>3. ui' = ui /\ e.cmd = c.cmd /\ e.for = c.for /\ e.arg = c.arg /\ c \in All(inFlight)
  BY <1>1, BackCalls
<1>4. On(inFlight', f) = On(inFlight, f)
  BY <1>1, BackCalls DEF SameOn
<1>5. vault'.sharing[f] = vault.sharing[f]
  <2>1. CASE c.cmd # "set_fact_sharing"
    BY <2>1, OutcomeKeeps DEF DidKeeps
  <2>2. CASE c.cmd = "set_fact_sharing"
    <3>1. c.arg.fact # f
      BY <1>2, <2>2, Touched
    <3>2. CASE vault' = vault
      BY <3>2
    <3>3. CASE vault' # vault
      <4>1. PICK a : Did(c, vault', a)
        BY <1>2, <3>3 DEF Outcome
      <4> QED BY <2>2, <3>1, <4>1 DEF Did, ViewEffect
    <3> QED BY <3>2, <3>3
  <2> QED BY <2>1, <2>2
<1>6. FactCalls(f)'
  <2>1. FactCalls(f)
    BY <1>1 DEF FactInv
  <2> SUFFICES ASSUME NEW d \in On(inFlight, f)
               PROVE  /\ d.cmd = "get_fact" /\ d.state = "done" => d.answer = vault'.sharing[f]
                      /\ d.cmd = "set_fact_sharing" /\ d.state = "sent" => KeptBut(f, d.arg)'
                      /\ d.cmd = "set_fact_sharing" /\ d.state = "done" => Stored(f, d.arg)'
    BY <1>4 DEF FactCalls
  <2>2. d.cmd = "get_fact" /\ d.state = "done" => d.answer = vault.sharing[f]
    BY <2>1 DEF FactCalls
  <2>3. d.cmd = "set_fact_sharing" /\ d.state = "sent" => KeptBut(f, d.arg)
    BY <2>1 DEF FactCalls
  <2>4. d.cmd = "set_fact_sharing" /\ d.state = "done" => Stored(f, d.arg)
    BY <2>1 DEF FactCalls
  <2>5. KeptBut(f, d.arg) => KeptBut(f, d.arg)'
    BY <1>5 DEF KeptBut
  <2>6. Stored(f, d.arg) => Stored(f, d.arg)'
    BY <1>5 DEF Stored
  <2> QED BY <1>5, <2>2, <2>3, <2>4, <2>5, <2>6
<1>7. Elsewhere(f)' => Elsewhere(f)
  <2> SUFFICES ASSUME NEW d \in All(inFlight'), Saving(d), d.arg.fact # f PROVE Elsewhere(f)
    BY DEF Elsewhere
  <2>1. d \in All(inFlight) \/ d = e
    BY <1>1, BackCalls
  <2> QED BY <1>3, <2>1 DEF Elsewhere, Saving
<1>8. ASSUME ui.panel.view = "control", ui.pane.selected = f
      PROVE  FactSent(f)' /\ (Shows(ui.panel.fact) => FactShown(f)')
  <2>1. FactSent(f) /\ (Shows(ui.panel.fact) => FactShown(f))
    BY <1>1, <1>8 DEF FactInv
  <2>2. FactSent(f)'
    BY <1>3, <1>4, <2>1 DEF FactSent
  <2>3. ASSUME Shows(ui.panel.fact) PROVE FactShown(f)'
    BY <1>3, <1>5, <1>7, <2>1, <2>3 DEF FactShown, KeptBut, Stored
  <2> QED BY <2>2, <2>3
<1> QED BY <1>6, <1>8

\* The page the command is about.
LEMMA BackPage ==
    ASSUME ViewsIInv, NEW c, NEW e, BackStep(c, e), NEW f \in Facts, f \in Touches(c), Alone(f)
    PROVE  /\ FactCalls(f)'
           /\ ui.panel.view = "control" /\ ui.pane.selected = f =>
                /\ FactSent(f)'
                /\ Shows(ui.panel.fact) => FactShown(f)'
<1>1. Shape /\ AtMostOne /\ FactInv
  BY DEF ViewsIInv
<1>2. Named(c) /\ Outcome(c, e)
  BY DEF BackStep
<1>3. ui' = ui /\ e.cmd = c.cmd /\ e.for = c.for /\ e.arg = c.arg /\ c \in All(inFlight)
      /\ e.state # "sent"
  BY <1>1, BackCalls DEF BackStep, Ending
<1>4. c.cmd \in {"get_fact", "set_fact_sharing"} /\ c.arg.fact = f
  BY <1>2, Touched
<1>5. /\ On(inFlight, f) = {c}
      /\ On(inFlight', f) = IF c.for = "nobody" THEN {} ELSE {e}
  BY <1>1, BackCalls
<1>6. \/ vault'.sharing[f] = vault.sharing[f] /\ (c.cmd = "set_fact_sharing" => e.state = "failed")
      \/ /\ c.cmd = "set_fact_sharing" /\ e.state = "done"
         /\ vault'.sharing[f] = [visibility |-> c.arg.visibility, category |-> c.arg.category]
  <2>1. CASE c.cmd = "get_fact"
    <3>1. vault'.sharing = vault.sharing
      BY <2>1, OutcomeKeeps DEF DidKeeps
    <3> QED BY <2>1, <3>1
  <2>2. CASE c.cmd = "set_fact_sharing" /\ e.state = "done"
    <3>1. Did(c, vault', e.answer)
      BY <1>2, <2>2 DEF Outcome
    <3> QED BY <1>4, <2>2, <3>1 DEF Did, ViewEffect
  <2>3. CASE c.cmd = "set_fact_sharing" /\ e.state # "done"
    <3>1. vault' = vault /\ e.state = "failed"
      BY <1>2, <2>3 DEF Outcome, Stepwise
    <3> QED BY <3>1
  <2> QED BY <1>4, <2>1, <2>2, <2>3
<1>7. FactCalls(f)'
  <2>1. ASSUME e.cmd = "get_fact", e.state = "done" PROVE e.answer = vault'.sharing[f]
    <3>1. Did(c, vault', e.answer)
      BY <1>2, <2>1 DEF Outcome
    <3>2. e.answer = vault.sharing[f]
      BY <1>3, <1>4, <2>1, <3>1 DEF Did, ViewEffect
    <3> QED BY <1>3, <1>6, <2>1, <3>2
  <2>2. ASSUME e.cmd = "set_fact_sharing", e.state = "done" PROVE Stored(f, e.arg)'
    BY <1>3, <1>6, <2>2 DEF Stored
  <2>3. \A d \in On(inFlight', f) : d = e
    BY <1>5
  <2> QED BY <1>3, <2>1, <2>2, <2>3 DEF FactCalls
<1>8. ASSUME ui.panel.view = "control", ui.pane.selected = f
      PROVE  FactSent(f)' /\ (Shows(ui.panel.fact) => FactShown(f)')
  <2>1. FactSent(f) /\ (Shows(ui.panel.fact) => FactShown(f))
    BY <1>1, <1>8 DEF FactInv
  <2>2. /\ c.for # "nobody"
        /\ c.cmd = "set_fact_sharing" =>
             c.arg.visibility = ui.panel.visibility /\ c.arg.category = ui.panel.category
    BY <1>5, <2>1 DEF FactSent
  <2>3. FactSent(f)'
    <3>1. \A d \in On(inFlight', f) : d = e
      BY <1>5
    <3> QED BY <1>3, <2>2, <3>1 DEF FactSent
  <2>4. ASSUME Shows(ui.panel.fact) PROVE FactShown(f)'
    <3>1. CASE vault'.sharing[f] = vault.sharing[f]
      <4>1. Elsewhere(f)' => Elsewhere(f)
        <5> SUFFICES ASSUME NEW d \in All(inFlight'), Saving(d), d.arg.fact # f
                     PROVE  Elsewhere(f)
          BY DEF Elsewhere
        <5>1. d \in All(inFlight) \/ d = e
          BY <1>1, BackCalls
        <5> QED BY <1>3, <5>1 DEF Elsewhere, Saving
      <4> QED BY <1>3, <2>1, <2>4, <3>1, <4>1 DEF FactShown, KeptBut, Stored
    <3>2. CASE vault'.sharing[f] = [visibility |-> c.arg.visibility, category |-> c.arg.category]
               /\ c.cmd = "set_fact_sharing"
      <4>1. Stored(f, ui.panel)'
        BY <1>3, <2>2, <3>2 DEF Stored
      <4>2. KeptBut(f, ui.panel)'
        BY <1>3, <2>2, <3>2 DEF KeptBut
      <4> QED BY <1>3, <4>1, <4>2 DEF FactShown
    <3> QED BY <1>6, <3>1, <3>2
  <2> QED BY <2>3, <2>4
<1> QED BY <1>7, <1>8

LEMMA BackFacts ==
    ASSUME ViewsIInv, NEW c, NEW e, BackStep(c, e)
    PROVE  FactInv'
<1>1. ui' = ui /\ seen' = seen
  BY BackCalls DEF ViewsIInv
<1> SUFFICES ASSUME NEW f \in Facts, Alone(f)
             PROVE  /\ FactCalls(f)'
                    /\ ui.panel.view = "control" /\ ui.pane.selected = f =>
                         /\ FactSent(f)'
                         /\ Shows(ui.panel.fact) => FactShown(f)'
  BY <1>1 DEF FactInv, Alone
<1> QED BY BackOther, BackPage

LEMMA BackThread ==
    ASSUME ViewsIInv, NEW c, NEW e, BackStep(c, e)
    PROVE  ThreadInv'
<1>1. Shape /\ AtMostOne /\ ThreadInv /\ ThreadShape /\ ThreadKept
  BY DEF ViewsIInv, ThreadInv
<1>2. Named(c) /\ Outcome(c, e) /\ Routed(c, ui)
  BY DEF BackStep
<1>3. ui' = ui /\ seen' = seen
  BY <1>1, BackCalls
<1>4. CASE "thread" \notin Touches(c)
  <2>1. c.cmd # "persona_history_save"
    BY <1>2, <1>4, Touched
  <2>2. vault'.thread = vault.thread
    BY <2>1, OutcomeKeeps DEF DidKeeps
  <2>3. SameOn("thread")
    BY <1>1, <1>4, BackCalls
  <2> QED BY <1>1, <1>3, <2>2, <2>3, ThreadAsBefore
<1>5. CASE "thread" \in Touches(c)
  <2>1. c.cmd \in {"persona_history_load", "persona_history_save"}
    BY <1>2, <1>5, Touched
  <2>2. e.cmd = c.cmd /\ e.arg = c.arg /\ e.for = c.for /\ c \in On(inFlight, "thread")
    BY <1>1, <1>5, BackCalls DEF On
  <2>3. c.cmd = "persona_history_save" => c.for = "nobody" /\ c.arg.thread \in Threads
    BY <1>1, <1>2, <2>2, RoutedFacts DEF ThreadShape
  <2>4. \/ vault'.thread = vault.thread
        \/ c.cmd = "persona_history_save" /\ vault'.thread = c.arg.thread
    <3>1. c.cmd # "persona_history_save" => vault'.thread = vault.thread
      BY OutcomeKeeps DEF DidKeeps
    <3>2. c.cmd = "persona_history_save" =>
            vault' = vault \/ vault'.thread = c.arg.thread
      BY <1>2 DEF Outcome, Did, HistoryEffect
    <3> QED BY <3>1, <3>2
  <2>5. ASSUME e.cmd = "persona_history_load", e.state = "done" PROVE e.answer = vault.thread
    <3>1. Did(c, vault', e.answer)
      BY <1>2, <2>5 DEF Outcome
    <3> QED BY <2>2, <2>5, <3>1 DEF Did, HistoryEffect
  <2>6. \A d \in On(inFlight', "thread") :
           d \in On(inFlight, "thread") \/ (d = e /\ c.cmd = "persona_history_load")
    BY <1>1, <2>1, <2>3, BackCalls DEF On
  <2>7. ThreadShape'
    <3>1. vault.thread \in Threads /\ vault'.thread \in Threads
      BY <1>1, <2>3, <2>4 DEF ThreadShape
    <3>2. ASSUME NEW d \in On(inFlight', "thread")
          PROVE  /\ d.cmd = "persona_history_load" /\ d.state = "done" => d.answer \in Threads
                 /\ d.cmd = "persona_history_save" => d.arg.thread \in Threads
      <4>1. CASE d \in On(inFlight, "thread")
        BY <1>1, <4>1 DEF ThreadShape
      <4>2. CASE d = e /\ c.cmd = "persona_history_load"
        BY <2>2, <2>5, <3>1, <4>2
      <4> QED BY <2>6, <4>1, <4>2
    <3> QED BY <1>1, <1>3, <3>1, <3>2 DEF ThreadShape
  <2>8. ThreadKept'
    <3> SUFFICES ASSUME Alone("thread") PROVE ThreadKept'
      BY <1>3 DEF ThreadKept, Alone
    <3>1. /\ On(inFlight, "thread") = {c}
          /\ On(inFlight', "thread") = IF c.for = "nobody" THEN {} ELSE {e}
      BY <1>1, <1>5, BackCalls
    <3>2. CASE c.cmd = "persona_history_load"
      <4>1. vault'.thread = vault.thread
        BY <2>4, <3>2
      <4>2. ~(ui.tab = "persona" /\ ui.pane.loaded)
        BY <1>1, <3>1, <3>2 DEF ThreadKept
      <4>3. \A d \in On(inFlight', "thread") : d = e
        BY <3>1
      <4> QED BY <1>3, <2>2, <2>5, <3>2, <4>1, <4>2, <4>3 DEF ThreadKept
    <3>3. CASE c.cmd = "persona_history_save"
      <4>1. On(inFlight', "thread") = {}
        BY <2>3, <3>1, <3>3
      <4>2. ASSUME ui.tab = "persona", ui.pane.loaded
            PROVE  ui.pane.fresh \/ Extends(vault'.thread, ui.pane.messages)
        <5>1. c.arg.thread = ui.pane.messages
              /\ (ui.pane.fresh \/ Extends(vault.thread, ui.pane.messages))
          BY <1>1, <3>1, <4>2 DEF ThreadKept
        <5>2. Extends(c.arg.thread, c.arg.thread)
          BY <2>3, <3>3, ExtendsSelf
        <5> QED BY <2>4, <5>1, <5>2
      <4> QED BY <1>3, <4>1, <4>2 DEF ThreadKept
    <3> QED BY <2>1, <3>2, <3>3
  <2> QED BY <2>7, <2>8 DEF ThreadInv
<1> QED BY <1>4, <1>5

LEMMA BackPersona ==
    ASSUME ViewsIInv, NEW c, NEW e, BackStep(c, e)
    PROVE  PersonaInv'
<1>1. Shape /\ AtMostOne /\ PersonaInv /\ ThreadInv /\ LockInv
  BY DEF ViewsIInv
<1>2. Named(c) /\ Outcome(c, e) /\ Routed(c, ui)
  BY DEF BackStep
<1>3. ui' = ui /\ seen' = seen
  BY <1>1, BackCalls
<1> SUFFICES ASSUME Alone("thread"), Alone("lock"), ui.tab = "persona", spent'.faults = 0,
                    vault'.open
             PROVE  /\ \A d \in On(inFlight', "thread") : d.state # "failed"
                    /\ ui.pane.loaded =>
                         ui.pane.messages = vault'.thread \/ On(inFlight', "thread") # {}
  BY <1>3 DEF PersonaInv, Alone
<1>4. spent.faults = 0
  BY <1>2 DEF Outcome
<1>5. vault.open
  <2>1. CASE "lock" \notin Touches(c)
    <3>1. c.cmd \notin {"lock", "unlock"}
      BY <1>2, <2>1, Touched
    <3> QED BY <3>1, OutcomeKeeps DEF DidKeeps
  <2>2. CASE "lock" \in Touches(c)
    <3>1. c.cmd \in {"lock", "unlock", "get_status"}
      BY <1>2, <2>2, Touched
    <3>2. On(inFlight, "lock") = {c}
      BY <1>1, <2>2, BackCalls
    <3>3. c.cmd # "unlock"
      BY <1>1, <3>2 DEF LockInv
    <3>4. c.cmd # "lock"
      <4> SUFFICES ASSUME c.cmd = "lock" PROVE FALSE
        OBVIOUS
      <4>1. e.state = "done" /\ Did(c, vault', e.answer)
        BY <1>2 DEF Outcome, Stepwise
      <4> QED BY <4>1 DEF Did, SessionEffect
    <3> QED BY <3>1, <3>3, <3>4, OutcomeKeeps DEF DidKeeps
  <2> QED BY <2>1, <2>2
<1>6. /\ \A d \in On(inFlight, "thread") : d.state # "failed"
      /\ ui.pane.loaded => ui.pane.messages = vault.thread \/ On(inFlight, "thread") # {}
  BY <1>1, <1>4, <1>5 DEF PersonaInv
<1>7. CASE "thread" \notin Touches(c)
  <2>1. c.cmd # "persona_history_save"
    BY <1>2, <1>7, Touched
  <2>2. vault'.thread = vault.thread
    BY <2>1, OutcomeKeeps DEF DidKeeps
  <2>3. On(inFlight', "thread") = On(inFlight, "thread")
    BY <1>1, <1>7, BackCalls DEF SameOn
  <2> QED BY <1>6, <2>2, <2>3
<1>8. CASE "thread" \in Touches(c)
  <2>1. c.cmd \in {"persona_history_load", "persona_history_save"}
    BY <1>2, <1>8, Touched
  <2>2. e.state = "done" /\ Did(c, vault', e.answer)
    <3>1. ~Refused(c)
      BY <1>5, <2>1 DEF Refused
    <3> QED BY <1>2, <2>1, <3>1 DEF Outcome
  <2>3. /\ On(inFlight, "thread") = {c}
        /\ On(inFlight', "thread") = IF c.for = "nobody" THEN {} ELSE {e}
    BY <1>1, <1>8, BackCalls
  <2>4. \A d \in On(inFlight', "thread") : d.state # "failed"
    BY <2>2, <2>3
  <2>5. ASSUME ui.pane.loaded PROVE ui.pane.messages = vault'.thread
    <3>1. c.cmd = "persona_history_save" /\ c.arg.thread = ui.pane.messages
      BY <1>1, <2>3, <2>5 DEF ThreadInv, ThreadKept
    <3> QED BY <2>2, <3>1 DEF Did, HistoryEffect
  <2> QED BY <2>4, <2>5
<1> QED BY <1>7, <1>8

LEMMA BackMinted ==
    ASSUME ViewsIInv, NEW c, NEW e, BackStep(c, e)
    PROVE  MintedInv'
<1>1. Shape /\ AtMostOne /\ MintedInv
  BY DEF ViewsIInv
<1>2. Outcome(c, e) /\ Routed(c, ui)
  BY DEF BackStep
<1>3. ui' = ui /\ seen' = seen /\ e.cmd = c.cmd /\ e.for = c.for
      /\ c \in All(inFlight) /\ c.state = "sent"
  BY <1>1, BackCalls
<1>4. c.cmd = "issue_share_token" /\ c.for = "nobody" => seen.left
  BY <1>1, <1>3 DEF MintedInv
<1>5. ASSUME c.cmd = "issue_share_token", e.state = "done"
      PROVE  e.answer \in Secrets /\ vault'.minted = vault.minted \cup {e.answer}
  <2>1. Did(c, vault', e.answer)
    BY <1>2, <1>5 DEF Outcome
  <2> QED BY <1>5, <2>1 DEF Did, SharesEffect, SharesCmds
<1>6. ~(c.cmd = "issue_share_token" /\ e.state = "done") => vault'.minted = vault.minted
  <2>1. c.cmd # "issue_share_token" => vault'.minted = vault.minted
    BY OutcomeKeeps DEF DidKeeps
  <2>2. c.cmd = "issue_share_token" /\ e.state # "done" => vault' = vault
    BY <1>2 DEF Outcome, Stepwise
  <2> QED BY <2>1, <2>2
<1>7. ASSUME NEW d \in All(inFlight'), d.cmd = "issue_share_token"
      PROVE  (d.for = "nobody" => seen.left) /\ (d.state = "done" => d.answer \in Secrets)
  <2>1. CASE d \in All(inFlight)
    BY <1>1, <1>7, <2>1 DEF MintedInv
  <2>2. CASE d = e
    BY <1>3, <1>4, <1>5, <1>7, <2>2
  <2> QED BY <1>1, <2>1, <2>2, BackCalls
<1>8. ASSUME ~seen.left, NEW t \in vault'.minted
      PROVE  t \in seen.shown
             \/ \E d \in All(inFlight') : d.cmd = "issue_share_token" /\ d.answer = t
  <2>1. CASE t \in vault.minted
    <3>1. t \in seen.shown \/ \E d \in All(inFlight) : d.cmd = "issue_share_token" /\ d.answer = t
      BY <1>1, <1>8, <2>1, MintedAnswers DEF MintedInv, MintedIsShown
    <3>2. ASSUME NEW d \in All(inFlight), d.cmd = "issue_share_token", d.answer = t
          PROVE  d \in All(inFlight')
      <4>1. t # Null
        BY <1>1, <2>1, ViewsAssumption DEF Shape, VaultShape, ViewsAssumption
      <4>2. CallShape(c)
        BY <1>1, <1>3, ShapedCalls DEF Shape
      <4>3. d # c
        BY <1>3, <3>2, <4>1, <4>2 DEF CallShape
      <4> QED BY <1>1, <4>3, BackCalls
    <3> QED BY <3>1, <3>2
  <2>2. CASE t \notin vault.minted
    <3>1. c.cmd = "issue_share_token" /\ e.state = "done" /\ t = e.answer
      BY <1>5, <1>6, <1>8, <2>2
    <3>2. e \in All(inFlight')
      BY <1>1, <1>4, <1>8, <3>1, BackCalls
    <3> QED BY <1>3, <3>1, <3>2
  <2> QED BY <2>1, <2>2
<1>9. MintedIsShown'
  <2>1. CASE seen.left
    BY <1>3, <2>1 DEF MintedIsShown
  <2>2. CASE ~seen.left
    <3>1. \A t \in vault'.minted :
             t \in seen.shown
             \/ \E j \in DOMAIN inFlight' :
                   inFlight'[j].cmd = "issue_share_token" /\ inFlight'[j].answer = t
      BY <1>8, <2>2 DEF All
    <3> QED BY <1>3, <3>1 DEF MintedIsShown
  <2> QED BY <2>1, <2>2
<1> QED BY <1>3, <1>7, <1>9 DEF MintedInv

\* Together: however a command ends, the invariant holds.
LEMMA BackKeeps ==
    ASSUME ViewsIInv, NEW i \in DOMAIN inFlight, Handle(i) \/ Refuse(i) \/ Fail(i)
    PROVE  ViewsIInv'
<1>1. PICK c, e : BackStep(c, e)
  BY BackendSteps DEF BackStep
<1>2. Shape' /\ AtMostOne'
  BY <1>1, BackCalls DEF ViewsIInv
<1> QED BY <1>1, <1>2, BackMinted, BackShares, BackSources, BackTransfers, BackQueue, BackGraph,
           BackDashboard, BackLock, BackConfig, BackHome, BackScope, BackControl, BackFacts,
           BackThread, BackPersona DEF ViewsIInv

-----------------------------------------------------------------------------
(* Initial states.                                                         *)

\* What the tab that is open at first asks for.
LEMMA FirstAsked ==
    ASSUME NEW t \in Tabs \ {"transfers"}
    PROVE  /\ Sendable(HomeAsked(t) \o Asked(t))
           /\ Asks(LoadsOf(t) \cup ReadsOf(t), All(HomeAsked(t) \o Asked(t)))
<1>1. CASE t # "sharing"
  BY <1>1, HomeAskedFacts
<1>2. CASE t = "sharing"
  <2>1. PICK load, read : /\ load = Cmd("load_settings", Null, "home")
                          /\ read = Cmd("share_status", "mount", "pane")
    OBVIOUS
  <2>2. /\ CallShape(load) /\ load.cmd = "load_settings" /\ load.for = "home"
        /\ CallShape(read) /\ read.cmd = "share_status" /\ read.for = "pane"
        /\ load.state = "sent" /\ read.state = "sent"
    BY <2>1, CmdFacts
  <2>3. /\ HomeAsked(t) = <<load>> /\ Asked(t) = <<read>>
        /\ LoadsOf(t) \cup ReadsOf(t) = {"load_settings", "share_status"}
    BY <1>2, <2>1 DEF HomeAsked, LoadsOf, Asked, ReadsOf, SettingsTabs
  <2>4. HomeAsked(t) \o Asked(t) = <<load, read>>
    BY <2>3, Pair
  <2>5. Touches(load) \cap Touches(read) = {} /\ ~Saving(load)
    BY <2>2, TouchesFacts DEF Saving, SharesCmds
  <2>6. Sendable(<<load, read>>) /\ All(<<load, read>>) = {load, read}
    BY <2>2, <2>5, TwoSendable
  <2> QED BY <2>2, <2>3, <2>4, <2>6 DEF Asks
<1> QED BY <1>1, <1>2

\* The first state: one tab, which reads what it shows.
FirstTab(t) ==
    /\ t \in Tabs \ {"transfers"} /\ ui = View(t, Fresh(t), NoView, HomeOf(t))
    /\ Sendable(inFlight) /\ Asks(LoadsOf(t) \cup ReadsOf(t), All(inFlight))

\* The first state keeps each part.
LEMMA InitTab ==
    ASSUME ViewsInit
    PROVE  \E t : FirstTab(t)
<1>1. PICK t \in Tabs \ {"transfers"} : ui = Mounted(t) /\ inFlight = HomeAsked(t) \o Asked(t)
  BY DEF ViewsInit
<1>2. Fresh(t) = PaneOf(t)
  BY DEF Fresh, Tabs, SettingsTabs
<1>3. ui = View(t, Fresh(t), NoView, HomeOf(t))
  BY <1>1, <1>2 DEF Mounted, View, HomeOf
<1> QED BY <1>1, <1>3, FirstAsked DEF FirstTab

LEMMA InitVault ==
    ASSUME ViewsInit
    PROVE  /\ VaultShape /\ SeenShape
           /\ vault.open = TRUE /\ vault.minted = {} /\ vault.thread \in Threads
<1>1. PICK sharing : sharing = [f \in Facts |-> IF f \in CompanyFacts
                            THEN [visibility |-> "Shared", category |-> "topic"]
                            ELSE [visibility |-> "Private", category |-> "none"]]
  OBVIOUS
<1>2. PICK thread : thread = <<Message("user", "earlier")>>
  OBVIOUS
<1>3. PICK cfg : cfg = [policy |-> CHOOSE p \in Policies : TRUE, server |-> FALSE,
                          model |-> CHOOSE m \in LlmModels : TRUE, keys |-> 0]
  OBVIOUS
<1>4. PICK none : none = {}
  OBVIOUS
<1>5. PICK shares : shares = [enabled |-> TRUE, tunnel |-> FALSE, live |-> none]
  OBVIOUS
<1>6. vault = [open |-> TRUE, sharing |-> sharing, pending |-> Questions,
               facts |-> Cardinality(Facts), thread |-> thread, config |-> cfg,
               shares |-> shares, minted |-> none, connected |-> TRUE, scope |-> none,
               sent |-> 0]
  BY <1>1, <1>2, <1>3, <1>4, <1>5 DEF ViewsInit
<1>7. /\ vault.open = TRUE /\ vault.sharing = sharing /\ vault.thread = thread
      /\ vault.config = cfg /\ vault.shares = shares /\ vault.minted = none
      /\ vault = [open |-> vault.open, sharing |-> vault.sharing, pending |-> vault.pending,
              facts |-> vault.facts, thread |-> vault.thread, config |-> vault.config,
              shares |-> vault.shares, minted |-> vault.minted, connected |-> vault.connected,
              scope |-> vault.scope, sent |-> vault.sent]
  BY <1>6
<1>8. sharing = [f \in Facts |-> sharing[f]]
  BY <1>1
<1>9. \A f \in Facts : sharing[f] = [visibility |-> sharing[f].visibility,
                                      category |-> sharing[f].category]
  BY <1>1
<1>10. /\ cfg = [policy |-> cfg.policy, server |-> cfg.server, model |-> cfg.model, keys |-> cfg.keys]
       /\ shares = [enabled |-> shares.enabled, tunnel |-> shares.tunnel, live |-> shares.live]
  BY <1>3, <1>5
<1>11. SeenShape
  BY DEF ViewsInit, SeenShape
<1>12. thread \in Threads
  <2>1. PICK m : m = Message("user", "earlier")
    OBVIOUS
  <2>2. m \in Turns
    BY <2>1 DEF Message, Turns
  <2>3. <<m>> \in Seq(Turns)
    BY <2>2
  <2> QED BY <1>2, <2>1, <2>3 DEF Threads
<1>13. VaultShape
  BY <1>4, <1>7, <1>8, <1>9, <1>10 DEF VaultShape
<1> QED BY <1>4, <1>7, <1>11, <1>12, <1>13

LEMMA InitShape ==
    ASSUME ViewsInit, NEW t, FirstTab(t)
    PROVE  Shape /\ AtMostOne
<1>1. /\ t \in Tabs /\ ui = View(t, Fresh(t), NoView, HomeOf(t))
      /\ IsSeq(inFlight) /\ \A c \in All(inFlight) : CallShape(c)
      /\ \A r : OneOn(inFlight, r)
      /\ Asks(LoadsOf(t) \cup ReadsOf(t), All(inFlight))
  BY DEF FirstTab, Sendable
<1>2. ui.tab = t /\ ui.pane = Fresh(t) /\ ui.panel = NoView /\ ui.home = HomeOf(t)
  BY <1>1 DEF View
<1>3. UiShape
  <2>1. t \in SettingsTabs => HomeShape(HomeOf(t))
    BY HomeFresh DEF HomeOf
  <2>2. t \notin SettingsTabs => HomeOf(t) = NoView
    BY DEF HomeOf
  <2> QED BY <1>1, <1>2, <2>1, <2>2, FreshFacts DEF UiShape, InSettings
<1>4. CallsShape
  <2>1. /\ Len(inFlight) \in Nat /\ DOMAIN inFlight = 1..Len(inFlight)
        /\ inFlight = [i \in 1..Len(inFlight) |-> inFlight[i]]
    BY <1>1, SeqFacts
  <2> QED BY <1>1, <2>1 DEF CallsShape, All
<1>5. Routing
  <2> SUFFICES ASSUME NEW c \in All(inFlight) PROVE Routed(c, ui)
    BY DEF Routing
  <2>1. /\ c.state = "sent" /\ c.cmd \in LoadsOf(t) \cup ReadsOf(t)
        /\ c.for = IF c.cmd \in {"load_settings", "list_transfers"} THEN "home" ELSE "pane"
    BY <1>1 DEF Asks
  <2>2. \/ c.cmd = "load_settings" /\ t \in SettingsTabs
        \/ c.cmd = "get_dashboard" /\ t = "dashboard"
        \/ c.cmd = "queue_list" /\ t = "queue"
        \/ c.cmd = "persona_history_load" /\ t = "persona"
        \/ c.cmd = "share_status" /\ t = "sharing"
        \/ c.cmd = "list_sources" /\ t = "sources"
        \/ c.cmd = "list_transfers" /\ t = "transfers"
    BY <2>1, ReadsFacts DEF LoadsOf
  <2>3. ui.panel = NoView /\ ui.tab = t
    BY <1>2
  <2> QED BY <2>1, <2>2, <2>3 DEF Routed, Named, Awaiters, PaneOfCmd, SharesCmds, SettingsTabs
<1> QED BY <1>1, <1>3, <1>4, <1>5, InitVault DEF Shape, AtMostOne

\* What holds of the first tab and its reads.
LEMMA FirstFacts ==
    ASSUME NEW t, FirstTab(t)
    PROVE  /\ ui.tab = t /\ ui.pane = Fresh(t) /\ ui.panel = NoView /\ ui.home = HomeOf(t)
           /\ t \in Tabs /\ t \notin {"transfers", "unlock"}
           /\ \A c \in All(inFlight) :
                /\ c.state = "sent"
                /\ c.for = IF c.cmd = "load_settings" THEN "home" ELSE "pane"
                /\ c.cmd \in {"load_settings", "get_dashboard", "queue_list",
                              "persona_history_load", "share_status", "list_sources"}
<1>1. /\ t \in Tabs \ {"transfers"} /\ ui = View(t, Fresh(t), NoView, HomeOf(t))
      /\ Asks(LoadsOf(t) \cup ReadsOf(t), All(inFlight))
  BY DEF FirstTab
<1>2. ui.tab = t /\ ui.pane = Fresh(t) /\ ui.panel = NoView /\ ui.home = HomeOf(t)
  BY <1>1 DEF View
<1>3. t \in Tabs /\ t \notin {"transfers", "unlock"}
  BY <1>1 DEF Tabs, SettingsTabs
<1>4. ASSUME NEW c \in All(inFlight)
      PROVE  /\ c.state = "sent"
             /\ c.for = IF c.cmd = "load_settings" THEN "home" ELSE "pane"
             /\ c.cmd \in {"load_settings", "get_dashboard", "queue_list",
                           "persona_history_load", "share_status", "list_sources"}
  <2>1. /\ c.state = "sent" /\ c.cmd \in LoadsOf(t) \cup ReadsOf(t)
        /\ c.for = IF c.cmd \in {"load_settings", "list_transfers"} THEN "home" ELSE "pane"
    BY <1>1 DEF Asks
  <2>2. c.cmd = "load_settings" \/ c.cmd \in ReadsOf(t)
    BY <2>1 DEF LoadsOf
  <2>3. c.cmd # "list_transfers"
    BY <1>3, <2>2, ReadsFacts
  <2> QED BY <2>1, <2>2, <2>3, ReadsFacts
<1> QED BY <1>2, <1>3, <1>4

LEMMA InitViews ==
    ASSUME ViewsInit, NEW t, FirstTab(t)
    PROVE  /\ MintedInv /\ SharesInv /\ SourcesInv /\ TransfersInv /\ QueueInv
           /\ GraphInv /\ DashboardInv /\ LockInv /\ ScopeInv /\ ControlInv
<1>1. /\ ui.tab = t /\ ui.pane = Fresh(t) /\ ui.panel = NoView
      /\ t \in Tabs /\ t \notin {"transfers", "unlock"}
      /\ \A c \in All(inFlight) :
           /\ c.state = "sent"
           /\ c.for = IF c.cmd = "load_settings" THEN "home" ELSE "pane"
           /\ c.cmd \in {"load_settings", "get_dashboard", "queue_list",
                         "persona_history_load", "share_status", "list_sources"}
  BY FirstFacts
<1>2. /\ \A r : On(inFlight, r) \subseteq All(inFlight)
      /\ Shape /\ AtMostOne
  BY InitShape DEF On
<1>3. vault.open = TRUE /\ vault.minted = {}
  BY InitVault
<1>4. MintedInv
  <2>1. MintedIsShown
    BY <1>3 DEF MintedIsShown
  <2> QED BY <1>1, <2>1 DEF MintedInv
<1>5. SharesInv
  <2>1. t = "sharing" => ~Shows(Fresh(t).status)
    BY FreshFacts, StateFacts
  <2>2. \A c \in On(inFlight, "shares") : c.state = "sent" /\ c.for = "pane"
    <3> SUFFICES ASSUME NEW c \in On(inFlight, "shares") PROVE c.state = "sent" /\ c.for = "pane"
      OBVIOUS
    <3>1. Named(c) /\ c \in All(inFlight) /\ "shares" \in Touches(c)
      BY <1>2 DEF Shape, Routing, Routed, On
    <3>2. c.cmd \in SharesCmds
      BY <3>1, Touched
    <3> QED BY <1>1, <3>1, <3>2 DEF SharesCmds
  <2> QED BY <1>1, <2>1, <2>2 DEF SharesInv
<1>6. SourcesInv
  <2>1. t = "sources" => ~Shows(Fresh(t).status)
    BY FreshFacts, StateFacts
  <2>2. \A c \in On(inFlight, "sources") : c.state = "sent" /\ c.for # "nobody"
    BY <1>1, <1>2
  <2> QED BY <1>1, <2>1, <2>2 DEF SourcesInv
<1>7. TransfersInv
  BY <1>1 DEF TransfersInv
<1>8. QueueInv
  <2>1. t = "queue" => ~Shows(Fresh(t).items)
    BY FreshFacts, StateFacts
  <2>2. \A c \in On(inFlight, "queue") : c.state = "sent" /\ c.cmd # "queue_answer"
    BY <1>1, <1>2
  <2> QED BY <1>1, <2>1, <2>2 DEF QueueInv
<1>9. GraphInv /\ DashboardInv
  <2>1. t = "dashboard" => ~Shows(Fresh(t).graph) /\ ~Shows(Fresh(t).stats)
    BY FreshFacts, StateFacts
  <2>2. On(inFlight, "graph") = {}
    <3> SUFFICES ASSUME NEW c \in On(inFlight, "graph") PROVE FALSE
      OBVIOUS
    <3>1. Named(c) /\ c \in All(inFlight) /\ "graph" \in Touches(c)
      BY <1>2 DEF Shape, Routing, Routed, On
    <3>2. c.cmd = "get_graph"
      BY <3>1, Touched
    <3> QED BY <1>1, <3>1, <3>2
  <2> QED BY <1>1, <2>1, <2>2 DEF GraphInv, DashboardInv
<1>10. LockInv
  <2>1. On(inFlight, "lock") = {}
    <3> SUFFICES ASSUME NEW c \in On(inFlight, "lock") PROVE FALSE
      OBVIOUS
    <3>1. Named(c) /\ c \in All(inFlight) /\ "lock" \in Touches(c)
      BY <1>2 DEF Shape, Routing, Routed, On
    <3>2. c.cmd \in {"lock", "unlock", "get_status"}
      BY <3>1, Touched
    <3> QED BY <1>1, <3>1, <3>2
  <2> QED BY <1>1, <1>3, <2>1 DEF LockInv
<1>11. ScopeInv
  <2>1. ui.panel.view # "scope"
    BY <1>1 DEF NoView
  <2>2. \A c \in On(inFlight, "scope") : c.state = "sent" /\ c.cmd # "set_session_scope"
    BY <1>1, <1>2
  <2> QED BY <2>1, <2>2 DEF ScopeInv
<1>12. ControlInv
  <2>1. \A c \in All(inFlight) : ~Saving(c)
    BY <1>1 DEF Saving
  <2> QED BY <2>1 DEF ControlInv, OneSave, All
<1> QED BY <1>4, <1>5, <1>6, <1>7, <1>8, <1>9, <1>10, <1>11, <1>12

LEMMA InitRest ==
    ASSUME ViewsInit, NEW t, FirstTab(t)
    PROVE  ConfigInv /\ HomeInv /\ FactInv /\ ThreadInv /\ PersonaInv
<1>1. /\ ui.tab = t /\ ui.pane = Fresh(t) /\ ui.panel = NoView /\ ui.home = HomeOf(t)
      /\ t \in Tabs /\ t \notin {"transfers", "unlock"}
      /\ \A c \in All(inFlight) :
           /\ c.state = "sent"
           /\ c.for = IF c.cmd = "load_settings" THEN "home" ELSE "pane"
           /\ c.cmd \in {"load_settings", "get_dashboard", "queue_list",
                         "persona_history_load", "share_status", "list_sources"}
  BY FirstFacts
<1>2. /\ \A r : On(inFlight, r) \subseteq All(inFlight)
      /\ Shape /\ AtMostOne
  BY InitShape DEF On
<1>3. vault.thread \in Threads
  BY InitVault
<1>4. ConfigInv /\ HomeInv
  <2>1. InSettings => ~Shows(ui.home.config) /\ ui.home.typed = {} /\ ~ui.home.saved
    BY <1>1, HomeFresh, StateFacts DEF InSettings, HomeOf
  <2>2. \A c \in On(inFlight, "config") :
          c.state = "sent" /\ c.for = "home" /\ c.cmd = "load_settings"
    <3> SUFFICES ASSUME NEW c \in On(inFlight, "config")
                 PROVE  c.state = "sent" /\ c.for = "home" /\ c.cmd = "load_settings"
      OBVIOUS
    <3>1. Named(c) /\ c \in All(inFlight) /\ "config" \in Touches(c)
      BY <1>2 DEF Shape, Routing, Routed, On
    <3>2. c.cmd \in {"load_settings", "get_config", "set_transfer_policy", "set_server_enabled",
                     "set_llm_config"}
      BY <3>1, Touched
    <3> QED BY <1>1, <3>1, <3>2
  <2> QED BY <2>1, <2>2 DEF ConfigInv, HomeInv
<1>5. FactInv
  <2>1. ui.panel.view # "control"
    BY <1>1 DEF NoView
  <2>2. \A f \in Facts : FactCalls(f)
    BY <1>1, <1>2 DEF FactCalls
  <2> QED BY <2>1, <2>2 DEF FactInv
<1>6. ThreadInv /\ PersonaInv
  <2>1. t = "persona" => Fresh(t).messages = <<>> /\ ~Fresh(t).loaded
    BY FreshFacts
  <2>2. <<>> \in Threads
    BY DEF Threads
  <2>3. \A c \in On(inFlight, "thread") : c.state = "sent" /\ c.cmd # "persona_history_save"
    BY <1>1, <1>2
  <2>4. ThreadShape
    BY <1>1, <1>3, <2>1, <2>2, <2>3 DEF ThreadShape
  <2>5. ThreadKept
    BY <1>1, <2>1, <2>3 DEF ThreadKept
  <2>6. PersonaInv
    BY <1>1, <2>1, <2>3 DEF PersonaInv
  <2> QED BY <2>4, <2>5, <2>6 DEF ThreadInv
<1> QED BY <1>4, <1>5, <1>6

LEMMA InitHolds ==
    ASSUME ViewsInit
    PROVE  ViewsIInv
<1>1. PICK t : FirstTab(t)
  BY InitTab
<1> QED BY <1>1, InitShape, InitViews, InitRest DEF ViewsIInv

-----------------------------------------------------------------------------
(* Every step.                                                             *)

\* The three kinds of steps, and a step that changes nothing.
LEMMA ClickKeeps ==
    ASSUME ViewsIInv, Click
    PROVE  ViewsIInv'
<1>1. \/ \E t \in Tabs : Open(t)
      \/ Lock \/ Unlock
      \/ GraphStep \/ ControlStep \/ QueueStep \/ PersonaStep \/ HomeStep \/ SharingStep
      \/ Sync \/ Disconnect \/ DialogStep
  <2>1. CASE \/ \E t \in Tabs : Open(t)
             \/ Lock \/ Unlock
             \/ RefreshDashboard \/ \E s \in {"all", "Company"} : ChooseScope(s)
             \/ \E f \in Facts : Select(f)
             \/ \E v \in {"Private", "Shared"} : PickVisibility(v)
             \/ \E k \in {"none", "topic"} : PickCategory(k)
             \/ SaveSharing
    BY <2>1 DEF GraphStep, ControlStep
  <2>2. CASE \/ RefreshQueue
             \/ \E q \in Questions, input \in {"yes", "no", "skip"} : AnswerQuestion(q, input)
             \/ Send \/ StartNew
             \/ \E p \in Policies : ChoosePolicy(p)
             \/ \E m \in LlmModels : EditModel(m)
             \/ ToggleServer \/ EditKey \/ SaveLlm
    BY <2>2 DEF QueueStep, PersonaStep, HomeStep
  <2>3. CASE \/ SwitchSharing \/ FillIn \/ IssueToken \/ ToggleTunnel
             \/ \E t \in Secrets : RevokeToken(t)
             \/ Sync \/ Disconnect \/ Connect \/ CloseDialog \/ SaveScope
             \/ \E d \in {ScopeDialog, ConnectDialog} : OpenDialog(d)
             \/ \E p \in Projects : ToggleProject(p)
    BY <2>3 DEF SharingStep, DialogStep
  <2> QED BY <2>1, <2>2, <2>3 DEF Click
<1>2. CASE \E t \in Tabs : Open(t)
  BY <1>2, MountKeeps DEF MountStep
<1>3. CASE Lock \/ Unlock
  BY <1>3, LockKeeps DEF LockStep
<1>4. CASE Sync \/ Disconnect
  BY <1>4, SourcesKeeps DEF SourcesStep
<1> QED BY <1>1, <1>2, <1>3, <1>4, GraphKeeps, ControlKeeps, QueueKeeps, PersonaKeeps, HomeKeeps,
           SharingKeeps, DialogKeeps

LEMMA EndedAnswers ==
    ASSUME ViewsIInv, NEW i \in DOMAIN inFlight, QuestionAnswered(i) \/ SyncEnded(i)
    PROVE  ViewsIInv'
<1>1. CASE inFlight[i].for = "pane"
  <2>1. QueueStep \/ SourcesStep
    BY <1>1 DEF QueueStep, SourcesStep
  <2> QED BY <2>1, QueueKeeps, SourcesKeeps
<1>2. CASE inFlight[i].for = "home"
  <2>1. SyncEnded(i)
    BY <1>2 DEF QuestionAnswered
  <2> QED BY <1>2, <2>1, HomeKeeps DEF HomeStep
<1>3. CASE inFlight[i].for = "shell"
  <2>1. CASE BumpMounts(i)
    BY <2>1, MountKeeps DEF MountStep
  <2>2. CASE ~BumpMounts(i)
    BY <1>3, <2>2, BumpKeeps DEF BumpStill
  <2> QED BY <2>1, <2>2
<1> QED BY <1>1, <1>2, <1>3 DEF QuestionAnswered, SyncEnded

LEMMA AnswerKeeps ==
    ASSUME ViewsIInv, NEW i \in DOMAIN inFlight, Answer(i)
    PROVE  ViewsIInv'
<1>1. CASE QuestionAnswered(i) \/ SyncEnded(i)
  BY <1>1, EndedAnswers
<1>2. CASE StatusAnswered(i)
  <2>1. CASE StatusStill(i)
    BY <2>1, LockKeeps DEF LockStep
  <2>2. CASE ~StatusStill(i)
    BY <1>2, <2>2, MountKeeps DEF MountStep, StatusMounts
  <2> QED BY <2>1, <2>2
<1>3. CASE LockAnswered(i) \/ UnlockAnswered(i)
  BY <1>3, LockKeeps DEF LockStep
<1>4. CASE DashboardAnswered(i) \/ GraphAnswered(i)
  BY <1>4, GraphKeeps DEF GraphStep
<1>5. CASE FactAnswered(i) \/ SharingSaved(i)
  BY <1>5, ControlKeeps DEF ControlStep
<1>6. CASE QueueListed(i)
  BY <1>6, QueueKeeps DEF QueueStep
<1>7. CASE HistoryLoaded(i) \/ Replied(i)
  BY <1>7, PersonaKeeps DEF PersonaStep
<1>8. CASE SettingsLoaded(i) \/ ConfigChanged(i) \/ ConfigRead(i) \/ TransfersListed(i)
  BY <1>8, HomeKeeps DEF HomeStep
<1>9. CASE SharesRead(i) \/ SharesChanged(i) \/ TokenIssued(i)
  BY <1>9, SharingKeeps DEF SharingStep
<1>10. CASE SourcesListed(i) \/ Disconnected(i)
  BY <1>10, SourcesKeeps DEF SourcesStep
<1>11. CASE ConnectAnswered(i) \/ ScopeRead(i) \/ ScopeSaved(i)
  BY <1>11, DialogKeeps DEF DialogStep
<1> QED BY <1>1, <1>2, <1>3, <1>4, <1>5, <1>6, <1>7, <1>8, <1>9, <1>10, <1>11 DEF Answer

LEMMA StepKeeps ==
    ASSUME ViewsIInv, ViewsNext
    PROVE  ViewsIInv'
<1>1. CASE Click
  BY <1>1, ClickKeeps
<1>2. CASE Backend
  BY <1>2, BackKeeps DEF Backend
<1>3. CASE Arrival
  BY <1>3, AnswerKeeps DEF Arrival
<1>4. CASE ToastGone
  BY <1>4, SourcesKeeps DEF SourcesStep
<1> QED BY <1>1, <1>2, <1>3, <1>4 DEF ViewsNext

LEMMA StutterKeeps ==
    ASSUME ViewsIInv, UNCHANGED viewVars
    PROVE  ViewsIInv'
<1>1. ui' = ui /\ inFlight' = inFlight /\ vault' = vault /\ seen' = seen /\ spent' = spent
  BY DEF viewVars
<1>2. \A r : Alone(r)' <=> Alone(r)
  BY <1>1 DEF Alone
<1>3. Shape'
  BY <1>1 DEF ViewsIInv, Shape, UiShape, VaultShape, SeenShape, CallsShape, Routing, InSettings
<1>4. AtMostOne' /\ MintedInv' /\ SharesInv' /\ SourcesInv' /\ TransfersInv' /\ QueueInv'
  BY <1>1 DEF ViewsIInv, AtMostOne, MintedInv, MintedIsShown, SharesInv, SourcesInv,
              TransfersInv, QueueInv, Alone
<1>5. GraphInv' /\ DashboardInv' /\ LockInv'
  BY <1>1 DEF ViewsIInv, GraphInv, DashboardInv, Now, LockInv, Alone
<1>6. ConfigInv' /\ HomeInv' /\ ScopeInv' /\ ControlInv'
  BY <1>1 DEF ViewsIInv, ConfigInv, HomeInv, ScopeInv, ControlInv, InSettings, Alone
<1>7. FactInv'
  <2>1. ASSUME NEW f \in Facts, Alone(f)'
        PROVE  /\ FactCalls(f)'
               /\ ui.panel.view = "control" /\ ui.pane.selected = f =>
                    FactSent(f)' /\ (Shows(ui.panel.fact) => FactShown(f)')
    <3>1. Alone(f)
      BY <1>2, <2>1
    <3>2. /\ FactCalls(f)
          /\ ui.panel.view = "control" /\ ui.pane.selected = f =>
               FactSent(f) /\ (Shows(ui.panel.fact) => FactShown(f))
      BY <3>1 DEF ViewsIInv, FactInv
    <3> QED BY <1>1, <3>2 DEF FactCalls, FactSent, FactShown, KeptBut, Stored, Elsewhere
  <2> QED BY <1>1, <2>1 DEF FactInv
<1>8. ThreadInv' /\ PersonaInv'
  BY <1>1 DEF ViewsIInv, ThreadInv, ThreadShape, ThreadKept, PersonaInv, Alone
<1> QED BY <1>3, <1>4, <1>5, <1>6, <1>7, <1>8 DEF ViewsIInv

\* The inductive invariant of the views: every handler of every view, every command the backend
\* ends or refuses and every answer that arrives keeps each of its parts (App.tsx and the views).
THEOREM ViewsInductive == ViewsSpec => []ViewsIInv
<1>1. ViewsInit => ViewsIInv
  BY InitHolds
<1>2. ViewsIInv /\ [ViewsNext]_viewVars => ViewsIInv'
  BY StepKeeps, StutterKeeps
<1> QED BY <1>1, <1>2, PTL DEF ViewsSpec

\* The parts of ViewsTypeOK, from the shapes and the routing.
LEMMA TypedViews ==
    ASSUME ViewsIInv
    PROVE  ViewsTypeOK
<1>1. UiShape /\ Shape
  BY DEF ViewsIInv, Shape
<1>2. NoView.view = "none"
  BY DEF NoView
<1>3. /\ ui.tab \in Tabs \cup {"unlock"}
      /\ ui.tab \in SettingsTabs <=> ui.home # NoView
  <2>1. HomeShape(ui.home) => ui.home.view = "home"
    BY DEF HomeShape, HomeView
  <2> QED BY <1>1, <1>2, <2>1 DEF UiShape, InSettings
<1>4. /\ ui.panel.view = "control" =>
           /\ ui.tab = "dashboard" /\ ui.pane.selected \in Facts
           /\ Shows(ui.panel.fact) => ui.panel.fact.data = ui.pane.selected
      /\ InDialog => ui.tab = "sources"
  BY <1>1, <1>2 DEF UiShape, InDialog
<1>5. ui.pane.view = (IF ui.tab \in {"general", "transfers"} THEN "none" ELSE ui.tab)
  <2>1. /\ ui.tab = "dashboard" => ui.pane.view = "dashboard"
        /\ ui.tab = "queue" => ui.pane.view = "queue"
        /\ ui.tab = "persona" => ui.pane.view = "persona"
    BY <1>1 DEF UiShape, DashboardShape, DashboardPane, QueueShape, QueuePane, PersonaShape,
                PersonaPane
  <2>2. /\ ui.tab = "sharing" => ui.pane.view = "sharing"
        /\ ui.tab = "sources" => ui.pane.view = "sources"
        /\ ui.tab = "unlock" => ui.pane.view = "unlock"
    BY <1>1 DEF UiShape, SharingShape, SharingPane, SourcesShape, SourcesPane, UnlockShape,
                UnlockPane
  <2>3. ui.tab \in {"general", "transfers"} => ui.pane.view = "none"
    BY <1>1, <1>2 DEF UiShape
  <2> QED BY <1>3, <2>1, <2>2, <2>3 DEF Tabs, SettingsTabs
<1>6. ASSUME NEW i \in DOMAIN inFlight
      PROVE  /\ inFlight[i].state \in {"sent", "done", "failed"}
             /\ inFlight[i].for \in {"load", "panel"} => ui.panel # NoView
             /\ inFlight[i].for = "nobody" =>
                  inFlight[i].state = "sent" /\ inFlight[i].cmd \notin Reads
  <2>1. PICK c : c = inFlight[i]
    OBVIOUS
  <2>2. CallShape(c) /\ Routed(c, ui)
    BY <1>1, <2>1, CallFacts
  <2>3. c.for = "panel" => c.cmd \in {"set_fact_sharing", "get_session_scope", "connect_source",
                                      "set_session_scope"}
    BY <2>2 DEF Routed, Awaiters
  <2>4. c.for = "panel" => ui.panel.view \in {"control", "connect", "scope"}
    BY <2>2, <2>3 DEF Routed, PanelOfCmd
  <2> QED BY <1>2, <2>1, <2>2, <2>4 DEF Routed, CallShape
<1> QED BY <1>3, <1>4, <1>5, <1>6 DEF ViewsTypeOK

\* With nothing in flight each part of the invariant says what its view shows.
LEMMA RestingViews ==
    ASSUME ViewsIInv
    PROVE  RestingViewIsTrue
<1> SUFFICES ASSUME inFlight = <<>> PROVE RestingViewIsTrue
  BY DEF RestingViewIsTrue
<1>1. All(inFlight) = {}
  <2>1. DOMAIN inFlight = {}
    OBVIOUS
  <2> QED BY <2>1 DEF All
<1>2. \A r : On(inFlight, r) = {}
  BY <1>1 DEF On
<1>3. /\ Shape /\ SharesInv /\ SourcesInv /\ TransfersInv /\ QueueInv /\ GraphInv
      /\ DashboardInv /\ LockInv /\ HomeInv /\ PersonaInv
  BY DEF ViewsIInv
<1>4. Alone("lock") => (ui.tab = "unlock" <=> ~vault.open)
  BY <1>2, <1>3 DEF LockInv
<1>5. /\ GraphShown /\ Alone("dashboard") /\ spent.faults = 0 =>
           ui.pane.stats.data = [facts |-> vault.facts, pending |-> Cardinality(vault.pending)]
      /\ GraphShown /\ Shows(ui.pane.graph) /\ Alone("graph") =>
           ui.pane.graph.data = IF ui.pane.scope = "all" THEN Facts ELSE CompanyFacts
  BY <1>1, <1>3 DEF DashboardInv, Now, GraphShown, GraphInv, GraphSet
<1>6. ui.tab = "queue" /\ Shows(ui.pane.items) /\ ~ui.pane.error /\ Alone("queue") =>
         ui.pane.items.data \subseteq vault.pending
  BY <1>2, <1>3 DEF QueueInv
<1>7. ui.tab = "persona" /\ ui.pane.loaded /\ Alone("thread") /\ Alone("lock")
         /\ spent.faults = 0 /\ vault.open =>
         ui.pane.messages = vault.thread
  BY <1>2, <1>3 DEF PersonaInv
<1>8. ui.tab = "sharing" /\ Shows(ui.pane.status) /\ ~ui.pane.error /\ Alone("shares") =>
         ui.pane.status.data = vault.shares
  BY <1>2, <1>3 DEF SharesInv
<1>9. InSettings /\ Shows(ui.home.config) /\ ~ui.home.error /\ Alone("config") /\ Alone("lock") =>
         ui.home.config.data = vault.config
  BY <1>2, <1>3 DEF HomeInv
<1>10. ui.tab = "transfers" /\ Alone("transfers") /\ spent.faults = 0 =>
         ui.home.transfers = vault.sent
  BY <1>2, <1>3 DEF TransfersInv
<1>11. ui.tab = "sources" /\ Shows(ui.pane.status) /\ ~ui.pane.error /\ Alone("sources") =>
         ui.pane.status.data = vault.connected
  BY <1>2, <1>3 DEF SourcesInv
<1> QED BY <1>4, <1>5, <1>6, <1>7, <1>8, <1>9, <1>10, <1>11 DEF RestingViewIsTrue

\* What is marked as saved was stored by the save that marked it.
LEMMA SavedViews ==
    ASSUME ViewsIInv
    PROVE  SavedIsStored
<1>1. /\ UiShape /\ ConfigInv /\ FactInv
  BY DEF ViewsIInv, Shape
<1>2. ASSUME ui.panel.view = "control", ui.panel.saved, Shows(ui.panel.fact),
             Alone(ui.pane.selected)
      PROVE  vault.sharing[ui.pane.selected] =
               [visibility |-> ui.panel.visibility, category |-> ui.panel.category]
  <2>1. PICK f : f = ui.pane.selected
    OBVIOUS
  <2>2. f \in Facts
    BY <1>1, <1>2, <2>1 DEF UiShape, NoView
  <2>3. FactShown(f)
    BY <1>1, <1>2, <2>1, <2>2 DEF FactInv
  <2> QED BY <1>2, <2>1, <2>3 DEF FactShown, Stored
<1>3. InSettings /\ ui.home.saved /\ ~Dirty(ui.home) /\ Alone("config") =>
         vault.config.model = ui.home.model
  BY <1>1 DEF ConfigInv, Dirty
<1> QED BY <1>2, <1>3 DEF SavedIsStored

\* Type correctness: the mounted views and the commands in flight always have the shape the
\* handlers rely on; a command nobody awaits is a write that has not ended.
THEOREM ViewsTyped == ViewsSpec => []ViewsTypeOK
<1> QED BY ViewsInductive, TypedViews, PTL

\* A view at rest, with no command in flight and no error shown, shows what the backend holds,
\* for any number of pages, projects, questions, tokens and commands in flight (UnlockView.tsx,
\* GraphView.tsx, QuestionQueueView.tsx, PersonaChatView.tsx, SharingSettings.tsx, HomeView.tsx).
THEOREM ViewsRestTrue == ViewsSpec => []RestingViewIsTrue
<1> QED BY ViewsInductive, RestingViews, PTL

\* "Saved" is shown only for what is stored, also when another page was selected while the save
\* was in flight (GraphView.tsx SharingControl; HomeView.tsx `llmSaved && !dirty`).
THEOREM ViewsSavedIsStored == ViewsSpec => []SavedIsStored
<1> QED BY ViewsInductive, SavedViews, PTL

\* The secret of every token issued was on the screen, unless the tab was left while it was
\* being issued (SharingSettings.tsx).
THEOREM ViewsMintedIsShown == ViewsSpec => []MintedIsShown
<1>1. ViewsIInv => MintedIsShown
  BY DEF ViewsIInv, MintedInv
<1> QED BY <1>1, ViewsInductive, PTL

-----------------------------------------------------------------------------
(* What is stored changes as the owner changed it.                         *)

\* A page, the configuration, the scope and the thread, in this order.
LEMMA EditedFact ==
    ASSUME ViewsIInv, NEW c, NEW e, BackStep(c, e), NEW f \in Facts,
           NEW field \in {"visibility", "category"}, Alone(f),
           vault'.sharing[f][field] # vault.sharing[f][field]
    PROVE  c.cmd = "set_fact_sharing" /\ c.arg.fact = f /\ field \in c.arg.picked
<1>1. DidKeeps(c, vault')
  BY OutcomeKeeps
<1>2. c.cmd = "set_fact_sharing"
  BY <1>1 DEF DidKeeps
<1>3. PICK a : Did(c, vault', a)
  BY DEF BackStep, Outcome
<1>4. vault'.sharing[f] = IF f = c.arg.fact
                          THEN [visibility |-> c.arg.visibility, category |-> c.arg.category]
                          ELSE vault.sharing[f]
  BY <1>2, <1>3 DEF Did, ViewEffect
<1>5. c.arg.fact = f
  BY <1>4
<1>6. vault'.sharing[f] = [visibility |-> c.arg.visibility, category |-> c.arg.category]
  BY <1>4, <1>5
<1>7. vault'.sharing[f].visibility = c.arg.visibility /\ vault'.sharing[f].category = c.arg.category
  BY <1>6
<1>8. c.state = "sent" /\ c \in On(inFlight, f)
  BY <1>2, <1>5, TouchesFacts DEF BackStep, Ending, On
<1>9. KeptBut(f, c.arg)
  BY <1>2, <1>8 DEF ViewsIInv, FactInv, FactCalls
<1>10. ASSUME field \notin c.arg.picked PROVE FALSE
  <2>1. c.arg[field] = vault.sharing[f][field]
    BY <1>9, <1>10 DEF KeptBut
  <2> QED BY <1>7, <2>1
<1> QED BY <1>2, <1>5, <1>10

LEMMA EditedConfig ==
    ASSUME ViewsIInv, NEW c, NEW e, BackStep(c, e), Alone("config")
    PROVE  /\ vault'.config.model # vault.config.model =>
                c.cmd = "set_llm_config" /\ "model" \in c.arg.typed
           /\ vault'.config.keys # vault.config.keys =>
                c.cmd = "set_llm_config" /\ "key" \in c.arg.typed
<1> SUFFICES ASSUME \/ vault'.config.model # vault.config.model
                    \/ vault'.config.keys # vault.config.keys
             PROVE  /\ c.cmd = "set_llm_config"
                    /\ vault'.config.model # vault.config.model => "model" \in c.arg.typed
                    /\ vault'.config.keys # vault.config.keys => "key" \in c.arg.typed
  OBVIOUS
<1>1. DidKeeps(c, vault')
  BY OutcomeKeeps
<1>2. c.cmd = "set_llm_config"
  BY <1>1 DEF DidKeeps
<1>3. PICK a : Did(c, vault', a)
  BY DEF BackStep, Outcome
<1>4. /\ vault'.config.model = c.arg.model
      /\ "key" \notin c.arg.typed => vault'.config.keys = vault.config.keys
  BY <1>2, <1>3 DEF Did, LlmEffect
<1>5. c \in On(inFlight, "config")
  BY <1>2, TouchesFacts DEF BackStep, Ending, On
<1>6. "model" \notin c.arg.typed => c.arg.model = vault.config.model
  BY <1>2, <1>5 DEF ViewsIInv, ConfigInv
<1> QED BY <1>2, <1>4, <1>6

LEMMA EditedScope ==
    ASSUME ViewsIInv, NEW c, NEW e, BackStep(c, e), Alone("scope"), vault'.scope # vault.scope
    PROVE  c.cmd = "set_session_scope" /\ SymDiff(vault'.scope, vault.scope) \subseteq c.arg.toggled
<1>1. DidKeeps(c, vault')
  BY OutcomeKeeps
<1>2. c.cmd = "set_session_scope"
  BY <1>1 DEF DidKeeps
<1>3. PICK a : Did(c, vault', a)
  BY DEF BackStep, Outcome
<1>4. vault'.scope = c.arg.roots
  BY <1>2, <1>3 DEF Did, ScopeEffect
<1>5. c \in On(inFlight, "scope") /\ c.state = "sent"
  BY <1>2, TouchesFacts DEF BackStep, Ending, On
<1>6. SymDiff(c.arg.roots, vault.scope) \subseteq c.arg.toggled
  BY <1>2, <1>5 DEF ViewsIInv, ScopeInv
<1> QED BY <1>2, <1>4, <1>6

LEMMA EditedThread ==
    ASSUME ViewsIInv, NEW c, NEW e, BackStep(c, e), Alone("thread"), vault'.thread # vault.thread
    PROVE  \/ IsPrefix(Texts(vault.thread), Texts(vault'.thread))
           \/ c.cmd = "persona_history_save" /\ c.arg.fresh /\ c.arg.thread = vault'.thread
<1>1. DidKeeps(c, vault')
  BY OutcomeKeeps
<1>2. c.cmd = "persona_history_save"
  BY <1>1 DEF DidKeeps
<1>3. PICK a : Did(c, vault', a)
  BY DEF BackStep, Outcome
<1>4. vault'.thread = c.arg.thread
  BY <1>2, <1>3 DEF Did, HistoryEffect
<1>5. c \in On(inFlight, "thread") /\ c.state = "sent"
  BY <1>2, TouchesFacts DEF BackStep, Ending, On
<1>6. c.arg.fresh \/ Extends(vault.thread, c.arg.thread)
  BY <1>2, <1>5 DEF ViewsIInv, ThreadInv, ThreadKept
<1> QED BY <1>2, <1>4, <1>6 DEF Extends

LEMMA BackEdits ==
    ASSUME ViewsIInv, NEW i \in DOMAIN inFlight, Handle(i) \/ Refuse(i) \/ Fail(i)
    PROVE  SettingsAreEdited /\ ThreadIsKept
<1>1. PICK c, e : BackStep(c, e)
  BY BackendSteps DEF BackStep
<1>2. PICK j \in DOMAIN inFlight : c = inFlight[j]
  BY <1>1 DEF BackStep, Ending, All
<1>3. ASSUME NEW f \in Facts, NEW field \in {"visibility", "category"}, Alone(f),
             vault'.sharing[f][field] # vault.sharing[f][field]
      PROVE  SentBy("set_fact_sharing", LAMBDA arg : arg.fact = f /\ field \in arg.picked)
  <2>1. c.cmd = "set_fact_sharing" /\ c.arg.fact = f /\ field \in c.arg.picked
    BY <1>1, <1>3, EditedFact
  <2> QED BY <1>2, <2>1 DEF SentBy

<1>4. Alone("config") =>
        /\ vault'.config.model # vault.config.model =>
             SentBy("set_llm_config", LAMBDA arg : "model" \in arg.typed)
        /\ vault'.config.keys # vault.config.keys =>
             SentBy("set_llm_config", LAMBDA arg : "key" \in arg.typed)
  <2> SUFFICES ASSUME Alone("config")
               PROVE  /\ vault'.config.model # vault.config.model =>
                           SentBy("set_llm_config", LAMBDA arg : "model" \in arg.typed)
                      /\ vault'.config.keys # vault.config.keys =>
                           SentBy("set_llm_config", LAMBDA arg : "key" \in arg.typed)
    OBVIOUS
  <2>1. /\ vault'.config.model # vault.config.model =>
             c.cmd = "set_llm_config" /\ "model" \in c.arg.typed
        /\ vault'.config.keys # vault.config.keys =>
             c.cmd = "set_llm_config" /\ "key" \in c.arg.typed
    BY <1>1, EditedConfig
  <2>2. vault'.config.model # vault.config.model =>
          SentBy("set_llm_config", LAMBDA arg : "model" \in arg.typed)
    BY <1>2, <2>1 DEF SentBy
  <2>3. vault'.config.keys # vault.config.keys =>
          SentBy("set_llm_config", LAMBDA arg : "key" \in arg.typed)
    BY <1>2, <2>1 DEF SentBy
  <2> QED BY <2>2, <2>3
<1>5. ASSUME Alone("scope"), vault'.scope # vault.scope
      PROVE  SentBy("set_session_scope",
                    LAMBDA arg : SymDiff(vault'.scope, vault.scope) \subseteq arg.toggled)
  <2>1. /\ c.cmd = "set_session_scope"
        /\ SymDiff(vault'.scope, vault.scope) \subseteq c.arg.toggled
    BY <1>1, <1>5, EditedScope
  <2> QED BY <1>2, <2>1 DEF SentBy
<1>6. ASSUME Alone("thread"), vault'.thread # vault.thread
      PROVE  \/ IsPrefix(Texts(vault.thread), Texts(vault'.thread))
             \/ SentBy("persona_history_save", LAMBDA arg : arg.fresh /\ arg.thread = vault'.thread)
  <2>1. \/ IsPrefix(Texts(vault.thread), Texts(vault'.thread))
        \/ c.cmd = "persona_history_save" /\ c.arg.fresh /\ c.arg.thread = vault'.thread
    BY <1>1, <1>6, EditedThread
  <2>2. ASSUME c.cmd = "persona_history_save", c.arg.fresh, c.arg.thread = vault'.thread
        PROVE  SentBy("persona_history_save", LAMBDA arg : arg.fresh /\ arg.thread = vault'.thread)
    BY <1>2, <2>2 DEF SentBy
  <2> QED BY <2>1, <2>2
<1>7. SettingsAreEdited
  BY <1>3, <1>4, <1>5 DEF SettingsAreEdited
<1>8. ThreadIsKept
  BY <1>6 DEF ThreadIsKept
<1> QED BY <1>7, <1>8

LEMMA UneditedVault ==
    ASSUME vault' = vault
    PROVE  SettingsAreEdited /\ ThreadIsKept
<1> QED BY DEF SettingsAreEdited, ThreadIsKept

\* A click stores nothing itself.
LEMMA ClickStoresNone ==
    ASSUME Click
    PROVE  vault' = vault
<1>1. CASE \/ \E t \in Tabs : Open(t)
           \/ Lock \/ Unlock
           \/ RefreshDashboard \/ \E s \in {"all", "Company"} : ChooseScope(s)
           \/ \E f \in Facts : Select(f)
           \/ \E v \in {"Private", "Shared"} : PickVisibility(v)
           \/ \E k \in {"none", "topic"} : PickCategory(k)
           \/ SaveSharing
  BY <1>1 DEF Open, Lock, Unlock, RefreshDashboard, ChooseScope, Select, PickVisibility,
              PickCategory, SaveSharing, Clicked
<1>2. CASE \/ RefreshQueue
           \/ \E q \in Questions, input \in {"yes", "no", "skip"} : AnswerQuestion(q, input)
           \/ Send \/ StartNew
           \/ \E p \in Policies : ChoosePolicy(p)
           \/ \E m \in LlmModels : EditModel(m)
           \/ ToggleServer \/ EditKey \/ SaveLlm
  BY <1>2 DEF RefreshQueue, AnswerQuestion, Send, StartNew, ChoosePolicy, EditModel,
              ToggleServer, EditKey, SaveLlm, Clicked
<1>3. CASE \/ SwitchSharing \/ FillIn \/ IssueToken \/ ToggleTunnel
           \/ \E t \in Secrets : RevokeToken(t)
           \/ Sync \/ Disconnect \/ Connect \/ CloseDialog \/ SaveScope
           \/ \E d \in {ScopeDialog, ConnectDialog} : OpenDialog(d)
           \/ \E p \in Projects : ToggleProject(p)
  BY <1>3 DEF SwitchSharing, FillIn, IssueToken, ToggleTunnel, RevokeToken, Sync, Disconnect,
              Connect, CloseDialog, SaveScope, OpenDialog, ToggleProject, Clicked
<1> QED BY <1>1, <1>2, <1>3 DEF Click

\* Nor does an answer.
LEMMA AnswerStoresNone ==
    ASSUME NEW i \in DOMAIN inFlight, Answer(i)
    PROVE  vault' = vault
<1>1. CASE \/ LockAnswered(i) \/ UnlockAnswered(i) \/ StatusAnswered(i)
           \/ DashboardAnswered(i) \/ GraphAnswered(i) \/ FactAnswered(i) \/ SharingSaved(i)
  BY <1>1 DEF LockAnswered, UnlockAnswered, StatusAnswered, DashboardAnswered, GraphAnswered,
              FactAnswered, SharingSaved, Answered
<1>2. CASE \/ QueueListed(i) \/ QuestionAnswered(i) \/ HistoryLoaded(i) \/ Replied(i)
           \/ SettingsLoaded(i) \/ ConfigChanged(i) \/ ConfigRead(i) \/ TransfersListed(i)
  BY <1>2 DEF QueueListed, QuestionAnswered, Bump, HistoryLoaded, Replied, SettingsLoaded,
              ConfigChanged, ConfigRead, TransfersListed, Answered
<1>3. CASE \/ SharesRead(i) \/ SharesChanged(i) \/ TokenIssued(i)
           \/ SourcesListed(i) \/ SyncEnded(i) \/ Disconnected(i) \/ ConnectAnswered(i)
           \/ ScopeRead(i) \/ ScopeSaved(i)
  BY <1>3 DEF SharesRead, SharesChanged, TokenIssued, SharesFailed, SourcesListed, SyncEnded,
              Bump, Disconnected, ConnectAnswered, ScopeRead, ScopeSaved, Answered
<1> QED BY <1>1, <1>2, <1>3 DEF Answer

LEMMA StepEdits ==
    ASSUME ViewsIInv, [ViewsNext]_viewVars
    PROVE  SettingsAreEdited /\ ThreadIsKept
<1>1. CASE Backend
  BY <1>1, BackEdits DEF Backend
<1>2. CASE Click \/ Arrival \/ ToastGone \/ UNCHANGED viewVars
  <2>1. vault' = vault
    BY <1>2, ClickStoresNone, AnswerStoresNone DEF Arrival, ToastGone, viewVars
  <2> QED BY <2>1, UneditedVault
<1> QED BY <1>1, <1>2 DEF ViewsNext

\* Nothing that is stored changes but as the owner changed it on the screen, and the stored
\* conversation only grows (GraphView.tsx, HomeView.tsx, SessionScopeDialog, PersonaChatView.tsx).
THEOREM ViewsEditsOnly == ViewsSpec => OnlyEditsAreSaved
<1>1. ViewsIInv /\ [ViewsNext]_viewVars => [SettingsAreEdited /\ ThreadIsKept]_viewVars
  BY StepEdits
<1> QED BY <1>1, ViewsInductive, PTL DEF ViewsSpec, OnlyEditsAreSaved

=============================================================================
