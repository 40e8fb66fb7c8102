---------------------------- MODULE SitesWatcher ----------------------------
(***************************************************************************)
(* scripts/caddy_sites_watcher.py: the list of site folders is written to  *)
(* a file that Caddy imports, and Caddy is told to reload.  Three kinds of *)
(* threads run write_and_reload with no lock around it: the main one, at   *)
(* the start and every 30 seconds, and one per timer that fired (a timer   *)
(* that already runs cannot be cancelled).  A reload is two steps: "caddy  *)
(* reload" reads the file, and the server takes the result over.           *)
(***************************************************************************)
EXTENDS Integers, FiniteSets

CONSTANTS
  Names,       \* folders that may appear in SITES_DIR
  Skipped,     \* those list_site_domains leaves out (SKIP_DIRS, SITE_RE)
  Links,       \* symbolic links to folders: listed, but resolve() moves them
               \* out of SITES_DIR, so their events are ignored
  Main, Timers,                         \* the threads: as many timers as may
                                        \* run at once
  MaxChanges, MaxStops, MaxOutages      \* bounds

ASSUME WatcherAssumption ==
  /\ Skipped \subseteq Names /\ Links \subseteq Names /\ Main \notin Timers
  /\ MaxChanges \in Nat /\ MaxStops \in Nat /\ MaxOutages \in Nat

Writers == {Main} \cup Timers

VARIABLES
  sites,            \* the folders of SITES_DIR
  file,             \* OUTPUT: the list at its start, and its length
  served,           \* the sites Caddy has routes for
  pc, domains,      \* of each writer: where it is, the list it works on
  config,           \* of each reload in flight: what it read
  earlier, late,    \* reloads that read before another; those it overtook
  lost,             \* the last word Caddy heard was refused or overtaken
  watching, snapshot, armed,            \* the observer and the timer
  changes, stops, outages

disk     == <<sites, changes>>
reloads  == <<served, config, earlier, late, lost>>
observer == <<watching, snapshot, armed>>
counts   == <<stops, outages>>
watcherVars == <<disk, file, pc, domains, reloads, observer, counts>>

list_site_domains == sites \ Skipped

(* A file is a list and a length; a longer rest of another text after the  *)
(* list makes it unreadable for Caddy.  The empty list has a text too.     *)
Length(list) == Cardinality(list) + 1
render_caddy(list) == [list |-> list, size |-> Length(list)]
Emptied == [list |-> {}, size |-> 0]
readable == file.size \in {0, Length(file.list)}

forced_bug(w) == FALSE
forced(w) == w = Main /\ ~watching
goto(w, label) == pc' = [pc EXCEPT ![w] = label]
forget(w) == domains' = [domains EXCEPT ![w] = {}]

(*------------------------- write_and_reload -----------------------------*)
list(w) ==
  /\ pc[w] = "list"
  /\ domains' = [domains EXCEPT ![w] = list_site_domains]
  /\ goto(w, "compare")
  /\ UNCHANGED <<disk, file, reloads, observer, counts>>

compare(w) ==
  /\ pc[w] = "compare"
  /\ IF ~forced(w) /\ file = render_caddy(domains[w])
     THEN goto(w, "idle") /\ forget(w)
     ELSE goto(w, "open") /\ UNCHANGED domains
  /\ UNCHANGED <<disk, file, reloads, observer, counts>>

openOutput(w) ==
  /\ pc[w] = "open"
  /\ file' = Emptied
  /\ goto(w, "write")
  /\ UNCHANGED <<disk, domains, reloads, observer, counts>>

writeOutput_bug(w) ==
  /\ pc[w] = "write"
  /\ file' = render_caddy(domains[w])
  /\ goto(w, IF domains[w] = {} THEN "idle" ELSE "reload") /\ forget(w)
  /\ UNCHANGED <<disk, reloads, observer, counts>>

(* Both writers start at the beginning: a shorter text leaves the end of a *)
(* longer one that another writer has put there since.                     *)
writeOutput(w) ==
  LET text == render_caddy(domains[w])
  IN  /\ pc[w] = "write"
      /\ file' = IF text.size >= file.size THEN text
                 ELSE [text EXCEPT !.size = file.size]
      /\ goto(w, "reload") /\ forget(w)
      /\ UNCHANGED <<disk, reloads, observer, counts>>

(* "caddy reload" reads the file; one it cannot parse ends the command.    *)
readConfig(w) ==
  /\ pc[w] = "reload"
  /\ IF readable
     THEN /\ config' = [config EXCEPT ![w] = file.list]
          /\ earlier' = [earlier EXCEPT ![w] = {v \in Writers : pc[v] = "apply"}]
          /\ goto(w, "apply")
     ELSE goto(w, "idle") /\ UNCHANGED <<config, earlier>>
  /\ UNCHANGED <<disk, file, domains, served, late, lost, observer, counts>>

(* A reload ends: those that read before it and are still under way are    *)
(* overtaken.                                                              *)
reloadEnds(w) ==
  /\ late' = (late \cup earlier[w]) \ {w}
  /\ earlier' = [v \in Writers |-> IF v = w THEN {} ELSE earlier[v] \ {w}]
  /\ config' = [config EXCEPT ![w] = {}]
  /\ goto(w, "idle")
  /\ UNCHANGED <<disk, file, domains, observer>>

applyConfig(w) ==
  /\ pc[w] = "apply"
  /\ served' = config[w]
  /\ lost' = (w \in late)
  /\ reloadEnds(w)
  /\ UNCHANGED counts

(* Docker or Caddy refuses: reload_caddy logs it and returns.              *)
refused(w) ==
  /\ pc[w] = "apply" /\ outages < MaxOutages
  /\ outages' = outages + 1
  /\ lost' = (lost \/ w \notin late)
  /\ reloadEnds(w)
  /\ UNCHANGED <<served, stops>>

write_and_reload(w) ==
  \/ list(w) \/ compare(w) \/ openOutput(w) \/ writeOutput(w)
  \/ readConfig(w) \/ applyConfig(w)

(*------------------------- the threads ----------------------------------*)
startObserver ==
  /\ ~watching /\ pc[Main] = "idle"
  /\ watching' = TRUE /\ snapshot' = sites
  /\ UNCHANGED <<disk, file, pc, domains, reloads, armed, counts>>

poll ==
  /\ watching /\ pc[Main] = "idle"
  /\ goto(Main, "list")
  /\ UNCHANGED <<disk, file, domains, reloads, observer, counts>>

tracked == Names \ (Skipped \cup Links)

(* The polling observer finds folders made, removed or renamed; _schedule  *)
(* replaces a waiting timer by a new one.                                  *)
observe ==
  /\ watching /\ snapshot # sites
  /\ snapshot' = sites
  /\ armed' = (armed \/ \E n \in tracked : (n \in snapshot) # (n \in sites))
  /\ UNCHANGED <<disk, file, pc, domains, reloads, watching, counts>>

fire(t) ==
  /\ armed /\ pc[t] = "idle"
  /\ armed' = FALSE
  /\ goto(t, "list")
  /\ UNCHANGED <<disk, file, domains, reloads, watching, snapshot, counts>>

(* The process ends with all its threads, wherever they are; a reload that *)
(* was under way has reached Caddy or has not.                             *)
stop ==
  /\ pc[Main] # "down" /\ stops < MaxStops
  /\ stops' = stops + 1
  /\ pc' = [w \in Writers |-> IF w = Main THEN "down" ELSE "idle"]
  /\ served' \in {served} \cup {config[w] : w \in {v \in Writers : pc[v] = "apply"}}
  /\ earlier' = [w \in Writers |-> {}] /\ late' = {}
  /\ domains' = [w \in Writers |-> {}] /\ config' = [w \in Writers |-> {}]
  /\ watching' = FALSE /\ snapshot' = {} /\ armed' = FALSE
  /\ UNCHANGED <<disk, file, lost, outages>>

start ==
  /\ pc[Main] = "down"
  /\ goto(Main, "list")
  /\ UNCHANGED <<disk, file, domains, reloads, observer, counts>>

(* Somebody makes or removes a folder.                                     *)
changeSites ==
  /\ changes < MaxChanges
  /\ changes' = changes + 1
  /\ \E n \in Names : sites' = IF n \in sites THEN sites \ {n} ELSE sites \cup {n}
  /\ UNCHANGED <<file, pc, domains, reloads, observer, counts>>

WatcherInit ==
  /\ sites = {} /\ file = Emptied /\ served = {}
  /\ pc = [w \in Writers |-> IF w = Main THEN "list" ELSE "idle"]
  /\ domains = [w \in Writers |-> {}] /\ config = [w \in Writers |-> {}]
  /\ earlier = [w \in Writers |-> {}] /\ late = {} /\ lost = FALSE
  /\ watching = FALSE /\ snapshot = {} /\ armed = FALSE
  /\ changes = 0 /\ stops = 0 /\ outages = 0

WatcherNext ==
  \/ \E w \in Writers : write_and_reload(w) \/ refused(w)
  \/ \E t \in Timers : fire(t)
  \/ startObserver \/ poll \/ observe \/ stop \/ start \/ changeSites

(* Threads are scheduled, main() goes round its loop and a stopped watcher *)
(* is started again.  Neither events nor timers need to come.              *)
WatcherSpec ==
  /\ WatcherInit /\ [][WatcherNext]_watcherVars
  /\ \A w \in Writers : WF_watcherVars(write_and_reload(w))
  /\ WF_watcherVars(startObserver \/ poll) /\ WF_watcherVars(start)

(*------------------------- properties -----------------------------------*)
(* After the start, while nobody is between opening the file and the end   *)
(* of the reload, and the last reload was neither refused nor overtaken,   *)
(* Caddy serves what the file lists: no interleaving of the main thread    *)
(* with timers, and no half-written file, leaves the two apart (80-93).    *)
QuietMeansServed ==
  (/\ watching /\ \A w \in Writers : pc[w] \in {"idle", "list", "compare"}
   /\ ~lost /\ readable)
    => served = file.list

(* Once folders stop changing, Caddy serves them: a lost event, a torn     *)
(* file, or a stop between the write and the reload is made good by the    *)
(* next poll or start.  The exception is what write_and_reload does not    *)
(* notice: a reload refused or overtaken after the file was right (80-93). *)
CaddyCatchesUp == <>[](lost \/ served = list_site_domains)
=============================================================================
