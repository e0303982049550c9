------------------------------ MODULE Desktop ------------------------------
(***************************************************************************)
(* The desktop client as a chain of processes (client/src/desktop.rs,      *)
(* client/src/main.rs, ClientCli::load in shared/src/cli.rs): a process    *)
(* reads its settings and its configuration file, starts the tunnels and   *)
(* the watcher of the file, and is replaced by a new process when the file *)
(* changes or the tray menu asks for it.                                   *)
(*                                                                         *)
(* The environment is what a replacement inherits: whether a configuration *)
(* file is named by a flag, by LFP_PIPE_CONFIG or by LFP_PIPE_CONFIG_FILE, *)
(* and one other setting with its _FILE form.  The file's content is one   *)
(* of "one" and "other" (a valid route each), "two" (two valid routes),    *)
(* "central" (a management bootstrap) and "bad".  A process that leaves    *)
(* still handles the change events in its queue, and may start another     *)
(* replacement when leaving takes it longer than 300 ms.  The model        *)
(* follows the last one, from the moment the old process has left.         *)
(***************************************************************************)
EXTENDS Naturals

CONSTANTS
    Contents,  \* the contents the file may be given
    Launches,  \* the environments the first process may be started in
    ClientId,  \* whether --client-id or LFP_PIPE_CLIENT_ID is given
    MaxEdits,  \* bound on the changes of the file and of the mounted value
    MaxMenu,   \* bound on the uses of the tray menu
    MaxFaults  \* bound on the replacements that cannot be started

Events == 2    \* bound on the change events waiting in the event loop

VARIABLES
    file,    \* content of the configuration file
    mounted, \* content of the file the other setting may be read from
    env,     \* environment and arguments of the process
    heir,    \* those of the replacement it has started
    told,    \* those of the first process
    remote,  \* remote_managed in desktop.json
    proc,    \* "starting", "loaded", "running", "leaving" or "gone"
    mode,    \* "local", "managed" or "idle"
    routes,  \* the configuration its tunnels run
    value,   \* the other setting, as the process uses it
    events,  \* change events not yet handled
    recent,  \* the last handled change is less than 300 ms old
    spawned, \* replacements this process has started
    late,    \* spans of 300 ms that ended while it was leaving
    warned,  \* the tray shows a warning
    tunnel,  \* "up" or "down": the tunnels of local mode
    delay,   \* seconds before they are started again
    asked,   \* what the menu last asked for: "none", "managed" or "local"
    life,    \* "new", "ran" or "quit"
    edits, menus, faults

process == <<proc, mode, routes, value, env, heir, events, recent, spawned,
             late, warned, tunnel, delay>>
bounds == <<edits, menus, faults>>
desktopVars == <<process, file, mounted, told, remote, asked, life, bounds>>

HasConfig(e) == e.flag \/ e.var
Valid(c) == c \in {"one", "other", "two"}

DesktopInit ==
    /\ file \in Contents
    /\ mounted = 1
    /\ told \in Launches
    /\ env = told /\ heir = told
    /\ remote = TRUE
    /\ proc = "starting"
    /\ mode = "idle" /\ routes = "none" /\ value = 0
    /\ events = 0 /\ recent = FALSE /\ spawned = 0 /\ late = 0
    /\ warned = FALSE
    /\ tunnel = "up" /\ delay = 1
    /\ asked = "none" /\ life = "new"
    /\ edits = 0 /\ menus = 0 /\ faults = 0

(* hydrate_file_backed_environment: a value read from a file is put into   *)
(* the process environment, where a direct value of 0 stands for none.     *)
Hydrated(e) ==
    [e EXCEPT !.var = @ \/ e.file,
              !.direct = IF @ = 0 /\ e.mount THEN mounted ELSE @]

(* parse_client_runtime and the choice of mode in desktop::run.  The       *)
(* client-id override demands exactly one local route.                     *)
Loads(e) ==
    LET c == IF HasConfig(e) THEN file ELSE "none"
    IN /\ c # "bad"
       /\ ClientId => c \in {"one", "other"}
Start ==
    /\ proc = "starting"
    /\ LET e == Hydrated(env)
       IN \/ /\ Loads(e)
             /\ env' = e
             /\ value' = e.direct
             /\ routes' = IF HasConfig(e) /\ Valid(file) THEN file ELSE "none"
             /\ mode' = IF HasConfig(e) /\ Valid(file) THEN "local"
                        ELSE IF HasConfig(e) \/ remote THEN "managed" ELSE "idle"
             /\ proc' = "loaded"
          \/ /\ ~Loads(e)
             /\ proc' = "gone"
             /\ UNCHANGED <<env, value, routes, mode>>
    /\ UNCHANGED <<heir, events, recent, spawned, late, warned, tunnel, delay, file,
                   mounted, told, remote, asked, life, bounds>>

(* The watcher is set up after the configuration was read.                 *)
Watch ==
    /\ proc = "loaded"
    /\ proc' = "running"
    /\ life' = "ran"
    /\ UNCHANGED <<mode, routes, value, env, heir, events, recent, spawned, late,
                   warned, tunnel, delay, file, mounted, told, remote, asked,
                   bounds>>

(* A save, seen as one or two events by a watcher that is listening.       *)
Watched == proc \in {"running", "leaving"} /\ mode # "managed" /\ HasConfig(env)
Edit ==
    /\ edits < MaxEdits
    /\ edits' = edits + 1
    /\ \/ /\ \E c \in Contents \ {file} : file' = c
          /\ IF Watched /\ events < Events
             THEN events' \in (events + 1)..Events ELSE UNCHANGED events
          /\ UNCHANGED mounted
       \/ /\ mounted' = mounted + 1
          /\ UNCHANGED <<file, events>>
    /\ UNCHANGED <<proc, mode, routes, value, env, heir, recent, spawned, late,
                   warned, tunnel, delay, told, remote, asked, life, menus,
                   faults>>

(* Starting a replacement with environment e: it may fail.                 *)
WithoutConfig(e) == [e EXCEPT !.flag = FALSE, !.var = FALSE]
Replace(e) ==
    \/ /\ spawned' = spawned + 1
       /\ heir' = e
       /\ proc' = "leaving"
       /\ UNCHANGED <<warned, faults>>
    \/ /\ faults < MaxFaults
       /\ faults' = faults + 1
       /\ warned' = TRUE
       /\ UNCHANGED <<spawned, heir, proc>>

(* config_changed: only the first of the changes within 300 ms counts.     *)
ConfigChanged ==
    /\ proc \in {"running", "leaving"} /\ events > 0
    /\ events' = events - 1
    /\ \/ /\ recent
          /\ UNCHANGED <<recent, spawned, heir, proc, warned, faults>>
       \/ /\ ~recent
          /\ recent' = TRUE
          /\ IF Valid(file) THEN Replace(env)
             ELSE warned' = TRUE /\ UNCHANGED <<spawned, heir, proc, faults>>
    /\ UNCHANGED <<mode, routes, value, env, late, tunnel, delay, file, mounted,
                   told, remote, asked, life, edits, menus>>

(* 300 ms pass, also while the process is leaving.                         *)
DebounceEnds ==
    /\ recent
    /\ recent' = FALSE
    /\ late' = IF proc = "leaving" THEN late + 1 ELSE late
    /\ UNCHANGED <<proc, mode, routes, value, env, heir, events, spawned,
                   warned, tunnel, delay, file, mounted, told, remote, asked,
                   life, bounds>>

(* The old process ends and its replacement begins.                        *)
Leave ==
    /\ proc = "leaving"
    /\ proc' = "starting"
    /\ env' = heir
    /\ mode' = "idle" /\ routes' = "none" /\ value' = 0
    /\ events' = 0 /\ recent' = FALSE /\ spawned' = 0 /\ late' = 0
    /\ warned' = FALSE
    /\ tunnel' = "up" /\ delay' = 1
    /\ UNCHANGED <<heir, file, mounted, told, remote, asked, life, bounds>>

(***************************************************************************)
(* The tray menu.                                                          *)
(***************************************************************************)
Clicked == /\ proc = "running" /\ menus < MaxMenu
           /\ menus' = menus + 1
           /\ UNCHANGED <<mode, routes, value, env, events, recent, late, tunnel,
                          delay, file, mounted, told, edits>>

(* "Remote managed": the preference is saved, then a replacement is        *)
(* started without the configuration override.                             *)
ToggleRemote ==
    /\ Clicked
    /\ remote' = (mode # "managed")
    /\ asked' = IF mode # "managed" THEN "managed" ELSE "local"
    /\ Replace(WithoutConfig(env))
    /\ UNCHANGED life

(* "Change management server", with a valid address.                       *)
ChangeServer ==
    /\ Clicked
    /\ Replace(IF mode = "managed" THEN WithoutConfig(env) ELSE env)
    /\ UNCHANGED <<remote, asked, life>>

Exit ==
    /\ Clicked
    /\ proc' = "gone" /\ life' = "quit"
    /\ UNCHANGED <<heir, spawned, warned, remote, asked, faults>>

(***************************************************************************)
(* run_local_forever.                                                      *)
(***************************************************************************)
NextDelay(d) == IF 2 * d > 30 THEN 30 ELSE 2 * d

TunnelStops ==
    /\ mode = "local" /\ proc \in {"loaded", "running"} /\ tunnel = "up"
    /\ tunnel' = "down" /\ warned' = TRUE
    /\ UNCHANGED <<proc, mode, routes, value, env, heir, events, recent,
                   spawned, late, delay, file, mounted, told, remote, asked, life,
                   bounds>>

TunnelRestarts ==
    /\ tunnel = "down" /\ proc \in {"loaded", "running"}
    /\ tunnel' = "up"
    /\ delay' = NextDelay(delay)
    /\ UNCHANGED <<proc, mode, routes, value, env, heir, events, recent,
                   spawned, late, warned, file, mounted, told, remote, asked, life,
                   bounds>>

DesktopNext ==
    \/ Start \/ Watch \/ Edit \/ ConfigChanged \/ DebounceEnds \/ Leave
    \/ ToggleRemote \/ ChangeServer \/ Exit \/ TunnelStops \/ TunnelRestarts

DesktopSpec == DesktopInit /\ [][DesktopNext]_desktopVars

(* The operating system runs a started process, delivers its events and    *)
(* timers; nobody has to edit, click or fail.                              *)
DesktopFairSpec ==
    /\ DesktopSpec
    /\ WF_desktopVars(Start \/ Watch \/ Leave)
    /\ WF_desktopVars(ConfigChanged)
    /\ WF_desktopVars(DebounceEnds)
    /\ WF_desktopVars(TunnelRestarts)

(***************************************************************************)
(* Properties.                                                             *)
(***************************************************************************)
(* Types; the retry delay of run_local_forever doubles from one second and *)
(* stays within thirty.                                                    *)
DesktopTypeOK ==
    /\ proc \in {"starting", "loaded", "running", "leaving", "gone"}
    /\ mode \in {"local", "managed", "idle"}
    /\ routes \in Contents \cup {"none"}
    /\ (mode = "local") = (routes # "none")
    /\ events \in 0..Events
    /\ delay \in {1, 2, 4, 8, 16, 30}

(* However often a save is reported, and however saves follow each other,  *)
(* a process that has left within 300 ms has started one replacement for   *)
(* itself, and otherwise one more at most for each further 300 ms, as long *)
(* as the menu is not used: two claim the same requests under one client   *)
(* id.                                                                     *)
OneReplacement == menus = 0 => spawned <= 1 + late

(* Why: a process that starts a replacement because of a change has just   *)
(* handled one, so that whatever follows is within its 300 ms until they   *)
(* have passed.                                                            *)
Succession ==
    menus = 0 => IF proc = "leaving" THEN spawned <= late + (IF recent THEN 1 ELSE 0)
                                     ELSE spawned = 0 /\ late = 0

(* A valid change that a running process is told of more than 300 ms after *)
(* the last one it handled is applied: a process runs that content, unless *)
(* the file changes again, the replacement cannot be started or the user   *)
(* toggles remote management or quits.                                     *)
QuietChangeApplied ==
    \A c \in {"one", "other"} :
        (proc = "running" /\ events > 0 /\ ~recent /\ file = c)
            ~> (routes = c \/ file # c \/ warned \/ life = "quit"
                    \/ asked # "none")

(* Tunnels of local mode that stopped are started again, after any number  *)
(* of failures, unless the process is replaced or ends.                    *)
TunnelsReturn == (tunnel = "down") ~> (tunnel = "up" \/ proc \in {"leaving", "gone"})
=============================================================================
