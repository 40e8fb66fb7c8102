---------------------------- MODULE Threads_proofs ----------------------------
(***************************************************************************)
(* What holds of the two programs that do several things at once, for any  *)
(* number of threads, folders, nonces and work blocks: the sites watcher,  *)
(* and the searchers of the miner.                                         *)
(***************************************************************************)
EXTENDS SitesWatcher, GPUSearcher, Collections_proofs

-----------------------------------------------------------------------------
(* The sites watcher: types, and which reloads are under way                 *)

Labels == {"idle", "list", "compare", "open", "write", "reload", "apply", "down"}

WatcherType ==
  /\ sites \subseteq Names /\ file.list \subseteq Names
  /\ pc \in [Writers -> Labels]
  /\ domains \in [Writers -> SUBSET Names] /\ config \in [Writers -> SUBSET Names]
  /\ earlier \in [Writers -> SUBSET Writers] /\ late \subseteq Writers

\* Only reloads that are under way are older than another, or overtaken.
ReloadInv ==
  /\ \A w \in late : pc[w] = "apply"
  /\ \A w \in Writers : \A v \in earlier[w] : v # w /\ pc[v] = "apply"

\* The reload that read last: it has what the file holds, and nobody overtakes it.
Latest(w) ==
  /\ pc[w] = "apply" /\ config[w] = file.list /\ w \notin late
  /\ \A v \in Writers \ {w} : /\ w \notin earlier[v]
                              /\ pc[v] = "apply" => v \in earlier[w] \cup late
\* It is over, and those that still come were overtaken.
Settled ==
  /\ lost \/ served = file.list
  /\ \A v \in Writers : pc[v] = "apply" => v \in late
\* A writer that will read the file after its last change.
WillRead == \E w \in Writers : pc[w] \in {"open", "write", "reload"}

ToldCaddy == WillRead \/ ~readable \/ (\E w \in Writers : Latest(w)) \/ Settled

\* Until the main thread has come to its first write, nothing is promised.
starting == ~watching /\ pc[Main] \in {"down", "list", "compare"}
CaddyInv == WatcherType /\ ReloadInv /\ (starting \/ ToldCaddy)

LEMMA WatcherStarts == WatcherInit => CaddyInv
  BY WatcherAssumption
  DEF WatcherInit, CaddyInv, WatcherType, ReloadInv, starting, Labels, Writers, Emptied

\* A step of one thread that is neither the start nor the end of a reload.
LEMMA ThreadMoves ==
  ASSUME CaddyInv, NEW w \in Writers, NEW l \in Labels \ {"apply"}, pc' = [pc EXCEPT ![w] = l],
         pc[w] # "apply", UNCHANGED <<config, earlier, late>>
  PROVE  /\ pc' \in [Writers -> Labels] /\ config' \in [Writers -> SUBSET Names]
         /\ earlier' \in [Writers -> SUBSET Writers] /\ late' \subseteq Writers
         /\ ReloadInv' /\ pc'[w] = l /\ \A v \in Writers \ {w} : pc'[v] = pc[v]
<1>1. /\ pc \in [Writers -> Labels] /\ config \in [Writers -> SUBSET Names]
      /\ earlier \in [Writers -> SUBSET Writers] /\ late \subseteq Writers /\ ReloadInv
  BY DEF CaddyInv, WatcherType
<1>2. pc' \in [Writers -> Labels] /\ pc'[w] = l /\ \A v \in Writers \ {w} : pc'[v] = pc[v]
  BY <1>1
<1>3. ReloadInv'
  BY <1>1, <1>2 DEF ReloadInv
<1> QED
  BY <1>1, <1>2, <1>3

\* What Caddy was told stays told while nobody touches file or reloads.
LEMMA ToldStays ==
  ASSUME CaddyInv, NEW w \in Writers, NEW l \in Labels \ {"apply"}, pc' = [pc EXCEPT ![w] = l],
         pc[w] \in {"idle", "list", "compare", "down"}, l \notin {"open", "write", "reload"},
         UNCHANGED <<file, served, lost, config, earlier, late>>, ToldCaddy
  PROVE  ToldCaddy'
<1>1. pc'[w] = l /\ \A v \in Writers \ {w} : pc'[v] = pc[v]
  BY ThreadMoves
<1>2. l \notin {"open", "write", "reload", "apply"}
  OBVIOUS
<1>3. CASE WillRead
  <2>1. PICK v \in Writers : pc[v] \in {"open", "write", "reload"}
    BY <1>3 DEF WillRead
  <2>2. WillRead'
    BY <1>1, <2>1 DEF WillRead
  <2> QED
    BY <2>2 DEF ToldCaddy
<1>4. CASE ~readable
  BY <1>4 DEF ToldCaddy, readable
<1>5. CASE \E v \in Writers : Latest(v)
  <2>1. PICK v \in Writers : Latest(v)
    BY <1>5
  <2>2. Latest(v)'
    BY <1>1, <1>2, <2>1 DEF Latest
  <2> QED
    BY <2>2 DEF ToldCaddy
<1>6. CASE Settled
  <2>1. Settled'
    BY <1>1, <1>2, <1>6 DEF Settled
  <2> QED
    BY <2>1 DEF ToldCaddy
<1> QED
  BY <1>3, <1>4, <1>5, <1>6 DEF ToldCaddy

\* A step that leaves the threads alone.
LEMMA ThreadsStay ==
  ASSUME CaddyInv, UNCHANGED <<file, pc, domains, reloads>>, sites' \subseteq Names,
         watching' = watching
  PROVE  CaddyInv'
<1>1. UNCHANGED <<file, pc, domains, served, config, earlier, late, lost>>
  BY DEF reloads
<1>2. WatcherType' /\ ReloadInv' /\ (starting' <=> starting)
  BY <1>1 DEF CaddyInv, WatcherType, ReloadInv, starting
<1>3. ToldCaddy' <=> ToldCaddy
  BY <1>1 DEF ToldCaddy, WillRead, readable, Latest, Settled
<1> QED
  BY <1>2, <1>3 DEF CaddyInv

\* A step of a thread between two looks at the folders.
LEMMA ThreadLooks ==
  ASSUME CaddyInv, NEW w \in Writers, NEW l \in {"idle", "list", "compare", "open"},
         pc' = [pc EXCEPT ![w] = l], pc[w] \in {"idle", "list", "compare", "down"},
         UNCHANGED <<disk, file, reloads>>, domains' \in [Writers -> SUBSET Names],
         starting => \/ starting' \/ l = "open", watching' = watching \/ ~starting
  PROVE  CaddyInv'
<1>1. UNCHANGED <<sites, file, served, config, earlier, late, lost>>
  BY DEF disk, reloads
<1>2. /\ pc' \in [Writers -> Labels] /\ config' \in [Writers -> SUBSET Names]
      /\ earlier' \in [Writers -> SUBSET Writers] /\ late' \subseteq Writers
      /\ ReloadInv' /\ pc'[w] = l
  BY <1>1, ThreadMoves DEF Labels
<1>3. WatcherType'
  BY <1>1, <1>2 DEF CaddyInv, WatcherType
<1>4. CASE l = "open"
  <2>1. WillRead'
    BY <1>2, <1>4 DEF WillRead
  <2> QED
    BY <1>2, <1>3, <2>1 DEF CaddyInv, ToldCaddy
<1>5. CASE l # "open"
  <2>1. ToldCaddy => ToldCaddy'
    BY <1>1, <1>5, ToldStays DEF Labels
  <2> QED
    BY <1>2, <1>3, <1>5, <2>1 DEF CaddyInv
<1> QED
  BY <1>4, <1>5

LEMMA ListKeeps ==
  ASSUME CaddyInv, NEW w \in Writers, list(w) \/ compare(w)
  PROVE  CaddyInv'
<1>1. /\ UNCHANGED <<disk, file, reloads>> /\ watching' = watching
      /\ pc[w] \in {"list", "compare"}
  BY DEF list, compare, observer
<1>2. domains \in [Writers -> SUBSET Names] /\ sites \subseteq Names
      /\ pc \in [Writers -> Labels]
  BY DEF CaddyInv, WatcherType
<1>3. domains' \in [Writers -> SUBSET Names]
  BY <1>2 DEF list, compare, forget, list_site_domains
<1>4. CASE list(w)
  <2>1. pc' = [pc EXCEPT ![w] = "compare"]
    BY <1>4 DEF list, goto
  <2>2. starting => starting'
    BY <1>1, <1>2, <2>1 DEF starting
  <2> QED
    BY <1>1, <1>3, <2>1, <2>2, ThreadLooks
<1>5. CASE compare(w)
  <2>1. CASE ~forced(w) /\ file = render_caddy(domains[w])
    <3>1. pc' = [pc EXCEPT ![w] = "idle"]
      BY <1>5, <2>1 DEF compare, goto
    <3>2. starting => starting'
      BY <1>1, <1>2, <2>1, <3>1 DEF starting, forced
    <3> QED
      BY <1>1, <1>3, <3>1, <3>2, ThreadLooks
  <2>2. CASE ~(~forced(w) /\ file = render_caddy(domains[w]))
    <3>1. pc' = [pc EXCEPT ![w] = "open"]
      BY <1>5, <2>2 DEF compare, goto
    <3> QED
      BY <1>1, <1>3, <3>1, ThreadLooks
  <2> QED
    BY <2>1, <2>2
<1> QED
  BY <1>4, <1>5

\* Whoever opens or writes the file will read it.
LEMMA WriteKeeps ==
  ASSUME CaddyInv, NEW w \in Writers, openOutput(w) \/ writeOutput(w)
  PROVE  CaddyInv'
<1>1. /\ UNCHANGED disk /\ UNCHANGED reloads /\ pc[w] \in {"open", "write"}
      /\ file'.list \subseteq Names /\ domains' \in [Writers -> SUBSET Names]
  <2>1. domains \in [Writers -> SUBSET Names] /\ domains[w] \subseteq Names
    BY DEF CaddyInv, WatcherType
  <2>2. CASE openOutput(w)
    BY <2>1, <2>2 DEF openOutput, Emptied
  <2>3. CASE writeOutput(w)
    <3>1. PICK text : text = render_caddy(domains[w])
      OBVIOUS
    <3>2. text.list \subseteq Names /\ text = [list |-> text.list, size |-> text.size]
      BY <2>1, <3>1 DEF render_caddy
    <3>3. file' = text \/ file' = [text EXCEPT !.size = file.size]
      BY <2>3, <3>1 DEF writeOutput
    <3>4. file'.list \subseteq Names
      BY <3>2, <3>3
    <3>5. /\ UNCHANGED disk /\ UNCHANGED reloads /\ pc[w] = "write"
          /\ domains' = [domains EXCEPT ![w] = {}]
      BY <2>3 DEF writeOutput, forget
    <3> QED
      BY <2>1, <3>4, <3>5
  <2> QED
    BY <2>2, <2>3
<1>2. UNCHANGED <<sites, config, earlier, late>>
  BY <1>1 DEF disk, reloads
<1>3. PICK l \in {"write", "reload"} : pc' = [pc EXCEPT ![w] = l]
  BY DEF openOutput, writeOutput, goto
<1>4. /\ pc' \in [Writers -> Labels] /\ config' \in [Writers -> SUBSET Names]
      /\ earlier' \in [Writers -> SUBSET Writers] /\ late' \subseteq Writers
      /\ ReloadInv' /\ pc'[w] = l
  BY <1>1, <1>2, <1>3, ThreadMoves DEF Labels
<1>5. WatcherType'
  BY <1>1, <1>2, <1>4 DEF CaddyInv, WatcherType
<1>6. WillRead'
  BY <1>4 DEF WillRead
<1> QED
  BY <1>4, <1>5, <1>6 DEF CaddyInv, ToldCaddy

\* The one that reads is the latest, if the file can be read.
LEMMA ReadKeeps ==
  ASSUME CaddyInv, NEW w \in Writers, readConfig(w)
  PROVE  CaddyInv'
<1>1. /\ sites \subseteq Names /\ file.list \subseteq Names
      /\ pc \in [Writers -> Labels]
      /\ domains \in [Writers -> SUBSET Names] /\ config \in [Writers -> SUBSET Names]
      /\ earlier \in [Writers -> SUBSET Writers] /\ late \subseteq Writers /\ ReloadInv
  BY DEF CaddyInv, WatcherType
<1>2. /\ pc[w] = "reload" /\ UNCHANGED <<sites, file, domains, served, late, lost>>
  BY DEF readConfig, disk
<1>3. CASE readable
  <2>1. PICK E : E = {v \in Writers : pc[v] = "apply"}
    OBVIOUS
  <2>2. /\ config' = [config EXCEPT ![w] = file.list] /\ earlier' = [earlier EXCEPT ![w] = E]
        /\ pc' = [pc EXCEPT ![w] = "apply"]
    BY <1>3, <2>1 DEF readConfig, goto
  <2>3. WatcherType'
    BY <1>1, <1>2, <2>1, <2>2 DEF WatcherType, Labels
  <2>4. pc'[w] = "apply" /\ config'[w] = file.list /\ earlier'[w] = E
        /\ \A v \in Writers \ {w} : pc'[v] = pc[v] /\ earlier'[v] = earlier[v]
    BY <1>1, <2>2
  <2>5. ReloadInv'
    BY <1>1, <1>2, <2>1, <2>4 DEF ReloadInv
  <2>6. Latest(w)'
    <3>1. w \notin late /\ \A v \in Writers : w \notin earlier[v]
      BY <1>1, <1>2 DEF ReloadInv
    <3>2. \A v \in Writers \ {w} : pc'[v] = "apply" => v \in E
      BY <2>1, <2>4
    <3> QED
      BY <1>2, <2>4, <3>1, <3>2 DEF Latest
  <2> QED
    BY <2>3, <2>5, <2>6 DEF CaddyInv, ToldCaddy
<1>4. CASE ~readable
  <2>1. pc' = [pc EXCEPT ![w] = "idle"] /\ UNCHANGED <<config, earlier>>
    BY <1>4 DEF readConfig, goto
  <2>2. WatcherType' /\ ReloadInv'
    BY <1>1, <1>2, <2>1, ThreadMoves DEF WatcherType, Labels
  <2>3. ~readable'
    BY <1>2, <1>4 DEF readable
  <2> QED
    BY <2>2, <2>3 DEF CaddyInv, ToldCaddy
<1> QED
  BY <1>3, <1>4

\* The end of the latest reload settles it; the end of another one leaves it so, or
\* leaves word that Caddy was told something else.
LEMMA EndKeeps ==
  ASSUME CaddyInv, NEW w \in Writers, applyConfig(w) \/ refused(w)
  PROVE  CaddyInv'
<1>1. /\ sites \subseteq Names /\ file.list \subseteq Names
      /\ pc \in [Writers -> Labels]
      /\ domains \in [Writers -> SUBSET Names] /\ config \in [Writers -> SUBSET Names]
      /\ earlier \in [Writers -> SUBSET Writers] /\ late \subseteq Writers /\ ReloadInv
  BY DEF CaddyInv, WatcherType
<1>2. /\ pc[w] = "apply" /\ reloadEnds(w)
      /\ \/ served' = config[w] /\ lost' = (w \in late)
         \/ served' = served /\ lost' = (lost \/ w \notin late)
  BY DEF applyConfig, refused
<1>3. /\ UNCHANGED <<sites, file, domains, watching>>
      /\ late' = (late \cup earlier[w]) \ {w}
      /\ earlier' = [v \in Writers |-> IF v = w THEN {} ELSE earlier[v] \ {w}]
      /\ config' = [config EXCEPT ![w] = {}] /\ pc' = [pc EXCEPT ![w] = "idle"]
  BY <1>2 DEF reloadEnds, goto, disk, observer
<1>4. /\ pc'[w] = "idle" /\ earlier'[w] = {}
      /\ \A v \in Writers \ {w} : /\ pc'[v] = pc[v] /\ config'[v] = config[v]
                                  /\ earlier'[v] = earlier[v] \ {w}
  BY <1>1, <1>3
<1>5. WatcherType'
  BY <1>1, <1>3 DEF WatcherType, Labels
<1>6. ReloadInv'
  BY <1>1, <1>3, <1>4 DEF ReloadInv
<1>7. starting => starting'
  BY <1>2, <1>3, <1>4 DEF starting
<1>8. ASSUME ToldCaddy PROVE ToldCaddy'
  <2>1. CASE WillRead
    <3>1. PICK v \in Writers \ {w} : pc[v] \in {"open", "write", "reload"}
      BY <1>2, <2>1 DEF WillRead
    <3>2. WillRead'
      BY <1>4, <3>1 DEF WillRead
    <3> QED
      BY <3>2 DEF ToldCaddy
  <2>2. CASE ~readable
    BY <1>3, <2>2 DEF ToldCaddy, readable
  <2>3. CASE Latest(w)
    <3>1. config[w] = file.list /\ w \notin late
          /\ \A v \in Writers \ {w} : pc[v] = "apply" => v \in earlier[w] \cup late
      BY <2>3 DEF Latest
    <3>2. lost' \/ served' = file.list
      BY <1>2, <3>1
    <3>3. \A v \in Writers : pc'[v] = "apply" => v \in late'
      BY <1>3, <1>4, <3>1
    <3>4. Settled'
      BY <1>3, <3>2, <3>3 DEF Settled
    <3> QED
      BY <3>4 DEF ToldCaddy
  <2>4. ASSUME NEW u \in Writers \ {w}, Latest(u) PROVE ToldCaddy'
    <3>1. /\ pc[u] = "apply" /\ config[u] = file.list /\ u \notin late
          /\ \A v \in Writers \ {u} : /\ u \notin earlier[v]
                                      /\ pc[v] = "apply" => v \in earlier[u] \cup late
      BY <2>4 DEF Latest
    <3>2. pc'[u] = "apply" /\ config'[u] = file.list /\ u \notin late'
          /\ earlier'[u] = earlier[u] \ {w}
      BY <1>3, <1>4, <2>4, <3>1
    <3>3. ASSUME NEW v \in Writers \ {u}
          PROVE  u \notin earlier'[v] /\ (pc'[v] = "apply" => v \in earlier'[u] \cup late')
      <4>1. CASE v = w
        BY <1>4, <4>1
      <4>2. CASE v # w
        BY <1>3, <1>4, <3>1, <3>2, <4>2
      <4> QED
        BY <4>1, <4>2
    <3>4. Latest(u)'
      BY <1>3, <3>2, <3>3 DEF Latest
    <3> QED
      BY <3>4 DEF ToldCaddy
  <2>5. CASE Settled
    <3>1. w \in late /\ (lost \/ served = file.list)
          /\ \A v \in Writers : pc[v] = "apply" => v \in late
      BY <1>2, <2>5 DEF Settled
    <3>2. lost' \/ served' = file.list
      BY <1>2, <3>1
    <3>3. \A v \in Writers : pc'[v] = "apply" => v \in late'
      BY <1>3, <1>4, <3>1
    <3>4. Settled'
      BY <1>3, <3>2, <3>3 DEF Settled
    <3> QED
      BY <3>4 DEF ToldCaddy
  <2> QED
    BY <1>8, <2>1, <2>2, <2>3, <2>4, <2>5 DEF ToldCaddy
<1> QED
  BY <1>5, <1>6, <1>7, <1>8 DEF CaddyInv

\* All threads end; the main one will write again.
LEMMA StopKeeps ==
  ASSUME CaddyInv, stop
  PROVE  CaddyInv'
<1>1. /\ sites' = sites /\ file' = file
      /\ pc' = [w \in Writers |-> IF w = Main THEN "down" ELSE "idle"]
      /\ earlier' = [w \in Writers |-> {}] /\ late' = {}
      /\ domains' = [w \in Writers |-> {}] /\ config' = [w \in Writers |-> {}]
      /\ watching' = FALSE
  BY DEF stop, disk
<1>2. sites \subseteq Names /\ file.list \subseteq Names
  BY DEF CaddyInv, WatcherType
<1>3. WatcherType' /\ ReloadInv'
  BY <1>1, <1>2 DEF WatcherType, ReloadInv, Labels
<1>4. starting'
  BY <1>1 DEF starting, Writers
<1> QED
  BY <1>3, <1>4 DEF CaddyInv

LEMMA WatcherMoves ==
  ASSUME CaddyInv, [WatcherNext]_watcherVars
  PROVE  CaddyInv'
<1>1. /\ sites \subseteq Names /\ pc \in [Writers -> Labels]
      /\ domains \in [Writers -> SUBSET Names] /\ Main \in Writers
  BY DEF CaddyInv, WatcherType, Writers
<1>2. ASSUME NEW w \in Writers, write_and_reload(w) \/ refused(w) PROVE CaddyInv'
  BY <1>2, ListKeeps, WriteKeeps, ReadKeeps, EndKeeps DEF write_and_reload
<1>3. ASSUME NEW t \in Timers, fire(t) PROVE CaddyInv'
  <2>1. /\ t \in Writers /\ t # Main /\ pc[t] = "idle" /\ pc' = [pc EXCEPT ![t] = "list"]
        /\ UNCHANGED disk /\ UNCHANGED file /\ UNCHANGED reloads
        /\ domains' = domains /\ watching' = watching
    BY <1>3, WatcherAssumption DEF fire, goto, Writers
  <2>2. starting => starting'
    BY <1>1, <2>1 DEF starting
  <2> QED
    BY <1>1, <2>1, <2>2, ThreadLooks
<1>4. CASE startObserver
  <2>1. UNCHANGED <<sites, file, pc, domains, served, config, earlier, late, lost>>
        /\ pc[Main] = "idle"
    BY <1>4 DEF startObserver, disk, reloads
  <2>2. WatcherType' /\ ReloadInv' /\ ~starting
    BY <2>1 DEF CaddyInv, WatcherType, ReloadInv, starting
  <2>3. ToldCaddy' <=> ToldCaddy
    BY <2>1 DEF ToldCaddy, WillRead, readable, Latest, Settled
  <2> QED
    BY <2>2, <2>3 DEF CaddyInv
<1>5. CASE poll
  <2>1. /\ pc[Main] = "idle" /\ pc' = [pc EXCEPT ![Main] = "list"] /\ ~starting
        /\ UNCHANGED disk /\ UNCHANGED file /\ UNCHANGED reloads /\ domains' = domains
        /\ watching' = watching
    BY <1>5 DEF poll, goto, starting, observer
  <2> QED
    BY <1>1, <2>1, ThreadLooks
<1>6. CASE start
  <2>1. /\ pc[Main] = "down" /\ pc' = [pc EXCEPT ![Main] = "list"]
        /\ UNCHANGED disk /\ UNCHANGED file /\ UNCHANGED reloads /\ domains' = domains
        /\ watching' = watching
    BY <1>6 DEF start, goto, observer
  <2>2. starting => starting'
    BY <1>1, <2>1 DEF starting
  <2> QED
    BY <1>1, <2>1, <2>2, ThreadLooks
<1>7. CASE stop
  BY <1>7, StopKeeps
<1>8. CASE observe
  BY <1>1, <1>8, ThreadsStay DEF observe, disk
<1>9. CASE changeSites
  BY <1>1, <1>9, ThreadsStay DEF changeSites, observer
<1>10. CASE UNCHANGED watcherVars
  BY <1>1, <1>10, ThreadsStay DEF watcherVars, disk, observer
<1> QED
  BY <1>2, <1>3, <1>4, <1>5, <1>6, <1>7, <1>8, <1>9, <1>10 DEF WatcherNext

\* When the threads are quiet and the last word Caddy heard was neither refused nor
\* overtaken, it serves what the file lists, for any number of timers that interleave
\* with the main thread and of stops (scripts/caddy_sites_watcher.py:80-93).
THEOREM QuietIsServed == WatcherSpec => []QuietMeansServed
<1>1. CaddyInv => QuietMeansServed
  <2> SUFFICES ASSUME CaddyInv, watching, ~lost, readable,
                      \A w \in Writers : pc[w] \in {"idle", "list", "compare"}
               PROVE  served = file.list
    BY DEF QuietMeansServed
  <2>1. ~starting /\ ~WillRead /\ \A w \in Writers : ~Latest(w)
    BY DEF starting, WillRead, Latest
  <2>2. Settled
    BY <2>1 DEF CaddyInv, ToldCaddy
  <2> QED
    BY <2>2 DEF Settled
<1> QED
  BY <1>1, WatcherStarts, WatcherMoves, PTL DEF WatcherSpec

-----------------------------------------------------------------------------
(* Numbers of four limbs *)

Values == 0 .. BASE * BASE * BASE * BASE - 1

LEMMA DivIs ==
  ASSUME NEW a \in Nat, NEW b \in Nat \ {0}, NEW q \in Nat, NEW r \in 0 .. b - 1, a = b * q + r
  PROVE  a \div b = q
<1> DEFINE u == a \div b
<1>1. u \in Nat /\ b * u <= a /\ a < b * (u + 1)
  OBVIOUS
<1> HIDE DEF u
<1>2. b * q <= a /\ a < b * (q + 1)
  OBVIOUS
<1>3. b * u < b * (q + 1) /\ b * q < b * (u + 1)
  BY <1>1, <1>2
<1>4. u < q + 1 /\ q < u + 1
  BY <1>1, <1>3
<1> QED
  BY <1>1, <1>4 DEF u

LEMMA Splits ==
  ASSUME NEW a \in Nat, NEW b \in Nat \ {0}
  PROVE  /\ a \div b \in Nat /\ a % b \in 0 .. b - 1
         /\ a = b * (a \div b) + (a % b)
  OBVIOUS

\* Dividing twice is dividing by the product.
LEMMA DivDiv ==
  ASSUME NEW a \in Nat, NEW b \in Nat \ {0}, NEW c \in Nat \ {0}
  PROVE  (a \div b) \div c = a \div (b * c)
<1>1. PICK q \in Nat, r \in 0 .. b - 1 : q = a \div b /\ a = b * q + r
  BY Splits
<1>2. PICK p \in Nat, s \in 0 .. c - 1 : p = q \div c /\ q = c * p + s
  BY Splits
<1>3. b * c \in Nat \ {0} /\ b * s \in Nat /\ b * s + r \in Nat
  BY <1>1, <1>2
<1>4. b * s <= b * (c - 1)
  BY <1>2
<1>5. b * (c - 1) + b = b * c
  OBVIOUS
<1>6. b * s + r \in 0 .. b * c - 1
  BY <1>1, <1>2, <1>3, <1>4, <1>5
<1>7. a = (b * c) * p + (b * s + r)
  <2>1. c * p \in Nat /\ s \in Nat /\ p \in Nat
    BY <1>2
  <2>2. b * (c * p + s) = b * (c * p) + b * s
    BY <2>1
  <2>3. b * (c * p) = (b * c) * p
    BY <2>1
  <2>4. b * q + r = b * (c * p + s) + r
    BY <1>2
  <2>5. (b * c) * p \in Nat /\ r \in Nat
    BY <1>1, <1>3, <2>1
  <2> QED
    BY <1>1, <1>3, <2>2, <2>3, <2>4, <2>5
<1>8. a \div (b * c) = p
  BY <1>2, <1>3, <1>6, <1>7, DivIs
<1> QED
  BY <1>1, <1>2, <1>8

\* The number is what its limbs are worth.
LEMMA LimbsOf ==
  ASSUME NEW n \in Values
  PROVE  \E a, b, c, d \in 0 .. BASE - 1 :
           /\ target_to_limbs(n) = [i \in 0 .. 3 |-> IF i = 0 THEN a ELSE IF i = 1 THEN b
                                                     ELSE IF i = 2 THEN c ELSE d]
           /\ n = BASE * (BASE * (BASE * a + b) + c) + d
<1>1. PICK B \in Nat \ {0} : B = BASE
  BY SearcherAssumption
<1>2. n \in Nat /\ n < B * B * B * B /\ B * B \in Nat \ {0} /\ B * B * B \in Nat \ {0}
  <2>1. B * B \in Nat \ {0}
    OBVIOUS
  <2>2. PICK S \in Nat \ {0} : S = B * B
    BY <2>1
  <2>3. S * B \in Nat \ {0}
    BY <2>2
  <2>4. PICK C \in Nat \ {0} : C = S * B
    BY <2>3
  <2>5. n \in 0 .. C * B - 1 /\ C * B \in Nat
    BY <1>1, <2>2, <2>4 DEF Values
  <2>6. PICK D \in Nat : D = C * B
    BY <2>5
  <2>7. n \in Nat /\ n < D
    BY <2>5, <2>6
  <2>8. D = B * B * B * B /\ C = B * B * B
    BY <2>2, <2>4, <2>6
  <2> QED
    BY <2>1, <2>4, <2>7, <2>8, Zenon
<1>3. PICK n1 \in Nat, d \in 0 .. B - 1 : n1 = n \div B /\ d = n % B /\ n = B * n1 + d
  <2>1. n \in Nat
    BY <1>2
  <2> QED
    BY <2>1, Splits
<1>4. PICK n2 \in Nat, c \in 0 .. B - 1 : n2 = n1 \div B /\ c = n1 % B /\ n1 = B * n2 + c
  BY Splits
<1>5. PICK n3 \in Nat, b \in 0 .. B - 1 : n3 = n2 \div B /\ b = n2 % B /\ n2 = B * n3 + b
  BY Splits
<1>6. n \div (B * B) = n2
  <2>1. (n \div B) \div B = n \div (B * B)
    BY <1>2, DivDiv
  <2> QED
    BY <1>3, <1>4, <2>1
<1>7. n \div (B * B * B) = n3
  <2>1. \A S \in Nat \ {0} : (n \div S) \div B = n \div (S * B)
    BY <1>2, DivDiv
  <2>2. (n \div (B * B)) \div B = n \div ((B * B) * B)
    BY <1>2, <2>1
  <2> QED
    BY <1>5, <1>6, <2>2
<1>8. n3 < B
  <2>1. SUFFICES ASSUME n3 >= B PROVE FALSE
    BY <1>1, <1>5
  <2>2. n2 >= B * B
    BY <1>1, <1>5, <2>1
  <2>3. n1 >= B * (B * B)
    BY <1>1, <1>2, <1>4, <2>2
  <2>4. n >= B * (B * (B * B))
    BY <1>1, <1>2, <1>3, <2>3
  <2>5. B * (B * (B * B)) = B * B * B * B
    BY <1>1
  <2> QED
    BY <1>2, <2>4, <2>5
<1>9. n3 \in 0 .. B - 1 /\ n3 % B = n3
  BY <1>1, <1>5, <1>8
<1>10. target_to_limbs(n) = [i \in 0 .. 3 |-> IF i = 0 THEN n3 ELSE IF i = 1 THEN b
                                             ELSE IF i = 2 THEN c ELSE d]
  <2> DEFINE T(i) == (n \div (IF i = 0 THEN B * B * B ELSE
                              IF i = 1 THEN B * B ELSE
                              IF i = 2 THEN B ELSE 1)) % B
             L(i) == IF i = 0 THEN n3 ELSE IF i = 1 THEN b ELSE IF i = 2 THEN c ELSE d
  <2>1. n \div 1 = n
    BY <1>2
  <2>2. T(0) = n3 /\ T(1) = b /\ T(2) = c /\ T(3) = d
    BY <1>3, <1>4, <1>5, <1>6, <1>7, <1>9, <2>1
  <2>3. L(0) = n3 /\ L(1) = b /\ L(2) = c /\ L(3) = d
    OBVIOUS
  <2>4. \A i \in 0 .. 3 : i = 0 \/ i = 1 \/ i = 2 \/ i = 3
    OBVIOUS
  <2>5. target_to_limbs(n) = [i \in 0 .. 3 |-> T(i)]
    BY <1>1 DEF target_to_limbs
  <2> HIDE DEF T, L
  <2>6. \A i \in 0 .. 3 : T(i) = L(i)
    BY <2>2, <2>3, <2>4
  <2>7. target_to_limbs(n) = [i \in 0 .. 3 |-> L(i)]
    BY <2>5, <2>6
  <2> QED
    BY <2>7 DEF L
<1>11. n = B * (B * (B * n3 + b) + c) + d
  BY <1>3, <1>4, <1>5
<1> QED
  BY <1>1, <1>9, <1>10, <1>11

LEMMA DigitLess ==
  ASSUME NEW B \in Nat, NEW p \in Nat, NEW q \in Nat, p < q,
         NEW x \in 0 .. B - 1, NEW y \in 0 .. B - 1
  PROVE  B * p + x < B * q + y
<1>1. B * (p + 1) <= B * q
  OBVIOUS
<1>2. B * (p + 1) = B * p + B /\ B * p \in Nat /\ B * q \in Nat
  OBVIOUS
<1> QED
  BY <1>1, <1>2

\* Comparing limb by limb, the highest first, is comparing the numbers.
LEMMA LimbOrder ==
  ASSUME NEW h \in Values, NEW t \in Values
  PROVE  hash_below_target(target_to_limbs(h), target_to_limbs(t)) <=> h < t
<1>1. PICK B \in Nat : B = BASE
  BY SearcherAssumption
<1>2. PICK a, b, c, d \in 0 .. B - 1 :
           /\ target_to_limbs(h) = [i \in 0 .. 3 |-> IF i = 0 THEN a ELSE IF i = 1 THEN b
                                                     ELSE IF i = 2 THEN c ELSE d]
           /\ h = B * (B * (B * a + b) + c) + d
  BY <1>1, LimbsOf
<1>3. PICK p, q, r, s \in 0 .. B - 1 :
           /\ target_to_limbs(t) = [i \in 0 .. 3 |-> IF i = 0 THEN p ELSE IF i = 1 THEN q
                                                     ELSE IF i = 2 THEN r ELSE s]
           /\ t = B * (B * (B * p + q) + r) + s
  BY <1>1, LimbsOf
<1>4. PICK H, T : H = target_to_limbs(h) /\ T = target_to_limbs(t)
  OBVIOUS
<1>5. /\ H[0] = a /\ H[1] = b /\ H[2] = c /\ H[3] = d
      /\ T[0] = p /\ T[1] = q /\ T[2] = r /\ T[3] = s
  BY <1>2, <1>3, <1>4
<1>6. hash_below_target(H, T) <=>
        \/ a < p
        \/ a = p /\ b < q
        \/ a = p /\ b = q /\ c < r
        \/ a = p /\ b = q /\ c = r /\ d < s
  <2>1. hash_below_target(H, T) <=>
          \/ H[0] < T[0] /\ \A j \in 0 .. 0 - 1 : H[j] = T[j]
          \/ H[1] < T[1] /\ \A j \in 0 .. 1 - 1 : H[j] = T[j]
          \/ H[2] < T[2] /\ \A j \in 0 .. 2 - 1 : H[j] = T[j]
          \/ H[3] < T[3] /\ \A j \in 0 .. 3 - 1 : H[j] = T[j]
    <3>1. \A i \in 0 .. 3 : i = 0 \/ i = 1 \/ i = 2 \/ i = 3
      OBVIOUS
    <3>2. 0 \in 0 .. 3 /\ 1 \in 0 .. 3 /\ 2 \in 0 .. 3 /\ 3 \in 0 .. 3
      OBVIOUS
    <3> QED
      BY <3>1, <3>2, Zenon DEF hash_below_target
  <2>2. /\ \A j \in 0 .. 0 - 1 : H[j] = T[j]
        /\ (\A j \in 0 .. 1 - 1 : H[j] = T[j]) <=> a = p
        /\ (\A j \in 0 .. 2 - 1 : H[j] = T[j]) <=> a = p /\ b = q
        /\ (\A j \in 0 .. 3 - 1 : H[j] = T[j]) <=> a = p /\ b = q /\ c = r
    <3>1. \A j : /\ j \notin 0 .. 0 - 1
                 /\ j \in 0 .. 1 - 1 <=> j = 0
                 /\ j \in 0 .. 2 - 1 <=> j = 0 \/ j = 1
                 /\ j \in 0 .. 3 - 1 <=> j = 0 \/ j = 1 \/ j = 2
      OBVIOUS
    <3> QED
      BY <1>5, <3>1
  <2> QED
    BY <1>5, <2>1, <2>2
<1> DEFINE h2 == B * a + b
           t2 == B * p + q
           h1 == B * h2 + c
           t1 == B * t2 + r
<1>7. /\ h2 \in Nat /\ t2 \in Nat
      /\ a < p => h2 < t2
      /\ p < a => t2 < h2
      /\ a = p => (h2 < t2 <=> b < q) /\ (h2 = t2 <=> b = q)
  <2>1. a \in Nat /\ b \in Nat /\ p \in Nat /\ q \in Nat
    OBVIOUS
  <2>2. B * a \in Nat /\ B * p \in Nat
    BY <2>1
  <2> QED
    BY <2>1, <2>2, DigitLess
<1>8. h2 < t2 <=> a < p \/ (a = p /\ b < q)
  BY <1>7
<1>9. h2 = t2 <=> a = p /\ b = q
  BY <1>7
<1> HIDE DEF h2, t2
<1>10. /\ h1 \in Nat /\ t1 \in Nat
       /\ h2 < t2 => h1 < t1
       /\ t2 < h2 => t1 < h1
       /\ h2 = t2 => (h1 < t1 <=> c < r) /\ (h1 = t1 <=> c = r)
  <2>1. c \in Nat /\ r \in Nat /\ B * h2 \in Nat /\ B * t2 \in Nat
    BY <1>7
  <2> QED
    BY <1>7, <2>1, DigitLess
<1>11. h1 < t1 <=> h2 < t2 \/ (h2 = t2 /\ c < r)
  BY <1>7, <1>10
<1>12. h1 = t1 <=> h2 = t2 /\ c = r
  BY <1>7, <1>10
<1>13. h = B * h1 + d /\ t = B * t1 + s
  BY <1>2, <1>3 DEF h2, t2
<1> HIDE DEF h1, t1
<1>14. /\ h1 < t1 => h < t
       /\ t1 < h1 => t < h
       /\ h1 = t1 => (h < t <=> d < s)
  <2>1. d \in Nat /\ s \in Nat /\ B * h1 \in Nat /\ B * t1 \in Nat
    BY <1>10
  <2> QED
    BY <1>10, <1>13, <2>1, DigitLess
<1>15. h \in Nat /\ t \in Nat
  BY DEF Values
<1>16. h < t <=> h1 < t1 \/ (h1 = t1 /\ d < s)
  BY <1>10, <1>14, <1>15
<1> QED
  BY <1>4, <1>6, <1>8, <1>9, <1>11, <1>12, <1>16

-----------------------------------------------------------------------------
(* The searchers                                                             *)

Slots == [running: BOOLEAN, base: Nat, val: Nat, t: {target_to_limbs(n) : n \in Values}]
Answers == {None} \cup {Found(n) : n \in Nat}

SearcherType ==
  /\ hash \in [of: Hashes, gpu: BOOLEAN]
  /\ chain \in [height: 0 .. MaxHeight, target: Targets]
  /\ miner \in [pc: {"block", "target", "search", "collect"}, workBlock: 0 .. MaxHeight,
                target: Values, nonce: Nat, last: Answers, tried: Nat]
  /\ gpu \in [workBlock: 0 .. MaxHeight \cup {NoBlock}, hot: 0 .. 1, hotNonce: Nat,
              slot: 0 .. 1]
  /\ slots \in [0 .. 1 -> Slots]
  /\ chunks \subseteq 0 .. Workers - 1
  /\ clear \in [nonces: SUBSET Nat, next: Nat]

\* No nonce is further from a start than what was tried since.
InReach(n) == \E s \in Starts : n <= s + miner.tried
ReachInv ==
  /\ miner.pc \in {"search", "collect"} => InReach(miner.nonce)
  /\ miner.pc = "collect" => miner.tried < MaxTried

AnswerInv ==
  /\ miner.last.none \/ HashOf(miner.last.nonce) < miner.target
  /\ miner.pc = "target" => miner.last.none

ClearInv ==
  /\ miner.pc = "target" => clear.nonces = {}
  /\ miner.pc \in {"search", "collect"} => \A n \in clear.nonces : HashOf(n) >= miner.target

\* The proofs of a slot's batch, and the result of its kernel.
Proofs(slot, workBlock) ==
  {n \in Batch(slot.base, batch_size) :
     hash_below_target(target_to_limbs(hash.of[<<workBlock, n>>]), slot.t)}
Result(slot, workBlock) == Min({INT64_MAX} \cup Proofs(slot, workBlock))

\* The slot that is collected holds the batch after those collected, the hot one the
\* batch after that.
Aligned ==
  /\ InReach(clear.next)
  /\ slots[gpu.hot].base = gpu.hotNonce
  /\ miner.pc = "collect" => /\ gpu.slot = 1 - gpu.hot
                             /\ slots[gpu.slot].base = clear.next
                             /\ gpu.hotNonce = clear.next + batch_size
  /\ miner.pc # "collect" => gpu.hotNonce = clear.next

Kernels ==
  \A s \in 0 .. 1 :
    slots[s].val = IF slots[s].running THEN INT64_MAX ELSE Result(slots[s], gpu.workBlock)

GpuInv ==
  /\ gpu.workBlock # NoBlock => hash.gpu /\ Aligned /\ Kernels
  /\ gpu.workBlock = NoBlock => \A s \in 0 .. 1 : ~slots[s].running
  /\ hash.gpu /\ miner.pc = "collect" => gpu.workBlock = miner.workBlock

\* The chunks that are finished hold no proof.
CpuInv ==
  /\ chunks # {} => miner.pc = "collect" /\ ~hash.gpu /\ clear.next = miner.nonce
  /\ miner.pc = "collect" /\ ~hash.gpu =>
       \A j \in (0 .. Workers - 1) \ chunks : \A n \in Batch(miner.nonce + j * chunk, chunk) :
         HashOf(n) >= miner.target

SearcherInv == SearcherType /\ ReachInv /\ AnswerInv /\ ClearInv /\ GpuInv /\ CpuInv

LEMMA Numbers ==
  /\ batch_size \in Nat \ {0} /\ Workers \in Nat \ {0} /\ MaxTried \in Nat /\ MaxHeight \in Nat
  /\ INT64_MAX \in Nat /\ Starts \subseteq Nat /\ 0 \in Values /\ Targets \subseteq Values
  /\ Values \subseteq Nat
<1>1. BASE \in Nat \ {0} /\ BASE * BASE \in Nat \ {0}
  BY SearcherAssumption
<1>2. (BASE * BASE) * BASE \in Nat \ {0}
  BY <1>1
<1>3. ((BASE * BASE) * BASE) * BASE \in Nat \ {0}
  BY <1>1, <1>2
<1>4. PICK N \in Nat \ {0} : N = BASE * BASE * BASE * BASE
  BY <1>3
<1>5. 0 \in Values /\ Values \subseteq Nat
  BY <1>4 DEF Values
<1>6. Targets \subseteq Values
  BY SearcherAssumption DEF Values
<1> QED
  BY <1>5, <1>6, SearcherAssumption

\* What is in reach stays below the sentinel, with two batches or all the chunks.
LEMMA Room ==
  ASSUME NEW n \in Nat, NEW tried \in Nat, tried < MaxTried, \E s \in Starts : n <= s + tried
  PROVE  n + 2 * batch_size < INT64_MAX /\ n + batch_size + Workers < INT64_MAX
<1>1. PICK s \in Starts : n <= s + tried
  OBVIOUS
<1>2. PICK b \in Nat \ {0}, W \in Nat \ {0} : b = batch_size /\ W = Workers
  BY Numbers
<1>3. s \in Nat /\ MaxTried \in Nat /\ INT64_MAX \in Nat
  BY Numbers
<1>4. s + MaxTried + (W + 2) * b < INT64_MAX
  BY <1>2, SearcherAssumption
<1>5. (W + 2) * b = W * b + 2 * b /\ W * b >= W /\ W * b \in Nat
  <2>1. W * b \in Nat
    OBVIOUS
  <2>2. (W + 2) * b = W * b + 2 * b
    OBVIOUS
  <2>3. W * 1 <= W * b
    OBVIOUS
  <2> QED
    BY <2>1, <2>2, <2>3
<1>6. n + 2 * b < INT64_MAX /\ n + b + W < INT64_MAX
  BY <1>1, <1>2, <1>3, <1>4, <1>5
<1> QED
  BY <1>2, <1>6

LEMMA Hashed ==
  ASSUME SearcherType, NEW w \in 0 .. MaxHeight, NEW n \in Nat, n < INT64_MAX
  PROVE  hash.of[<<w, n>>] \in Values
<1>1. hash.of \in [(0 .. MaxHeight) \X (0 .. INT64_MAX - 1) -> Values]
  BY SearcherAssumption DEF SearcherType, Values
<1>2. <<w, n>> \in (0 .. MaxHeight) \X (0 .. INT64_MAX - 1)
  BY Numbers
<1> QED
  BY <1>1, <1>2

\* A set of natural numbers has a least one.
LEMMA LeastIn ==
  ASSUME NEW S \in SUBSET Nat, S # {}
  PROVE  Min(S) \in S /\ \A x \in S : Min(S) <= x
<1>1. PICK y \in Nat : y \in S
  OBVIOUS
<1> DEFINE P == {k \in 1 .. y + 1 : k - 1 \in S}
<1>2. y + 1 \in Nat /\ y + 1 \in 1 .. y + 1 /\ y + 1 \in P
  BY <1>1
<1>3. PICK i \in 1 .. y + 1 : i \in P /\ \A j \in 1 .. i - 1 : j \notin P
  <2> HIDE DEF P
  <2> QED
    BY <1>2, FirstPlace
<1>4. PICK m \in Nat : m = i - 1 /\ m \in S
  BY <1>3
<1>5. ASSUME NEW x \in S PROVE m <= x
  <2>1. SUFFICES ASSUME x < m PROVE FALSE
    BY <1>4
  <2>2. x \in Nat /\ x + 1 \in 1 .. i - 1 /\ x + 1 \in 1 .. y + 1 /\ (x + 1) - 1 = x
    BY <1>3, <1>4, <2>1
  <2>3. x + 1 \in P
    BY <2>2
  <2> QED
    BY <1>3, <2>2, <2>3
<1>6. \E x \in S : \A z \in S : x =< z
  BY <1>4, <1>5
<1> QED
  BY <1>6 DEF Min

LEMMA ResultIs ==
  ASSUME NEW slot, slot.base \in Nat, NEW w
  PROVE  /\ Proofs(slot, w) \subseteq Nat /\ Result(slot, w) \in Nat
         /\ Result(slot, w) \in {INT64_MAX} \cup Proofs(slot, w)
         /\ \A n \in Proofs(slot, w) : Result(slot, w) <= n
<1>1. Proofs(slot, w) \subseteq Nat
  BY Numbers DEF Proofs, Batch
<1>2. {INT64_MAX} \cup Proofs(slot, w) \in SUBSET Nat
  BY <1>1, Numbers
<1> QED
  BY <1>1, <1>2, LeastIn DEF Result

\* Without an answer for the target that the batch was launched with, it has no proof.
LEMMA NothingFound ==
  ASSUME SearcherType, NEW slot, slot.base \in Nat, slot.base + batch_size < INT64_MAX,
         slot.val = Result(slot, miner.workBlock), slot.t = target_to_limbs(miner.target),
         collected(slot.val).none,
         NEW n \in Batch(slot.base, batch_size)
  PROVE  HashOf(n) >= miner.target
<1>1. miner.workBlock \in 0 .. MaxHeight /\ miner.target \in Values
  BY DEF SearcherType
<1>2. ASSUME NEW m \in Batch(slot.base, batch_size)
      PROVE  /\ m \in Nat /\ m < INT64_MAX /\ HashOf(m) \in Values
             /\ m \in Proofs(slot, miner.workBlock) <=> HashOf(m) < miner.target
  <2>1. m \in Nat /\ m < INT64_MAX
    BY Numbers DEF Batch
  <2>2. HashOf(m) \in Values
    BY <1>1, <2>1, Hashed DEF HashOf
  <2>3. hash_below_target(target_to_limbs(HashOf(m)), slot.t) <=> HashOf(m) < miner.target
    BY <1>1, <2>2, LimbOrder
  <2>4. m \in Proofs(slot, miner.workBlock)
          <=> hash_below_target(target_to_limbs(HashOf(m)), slot.t)
    BY Zenon DEF Proofs, HashOf
  <2>5. m \in Proofs(slot, miner.workBlock) <=> HashOf(m) < miner.target
    BY <2>3, <2>4, Zenon
  <2> QED
    BY <2>1, <2>2, <2>5
<1>3. SUFFICES ASSUME HashOf(n) < miner.target PROVE FALSE
  <2>1. HashOf(n) \in Nat /\ miner.target \in Nat
    BY <1>1, <1>2, Numbers
  <2> QED
    BY <2>1
<1>4. n \in Proofs(slot, miner.workBlock)
  BY <1>2, <1>3
<1>5. slot.val \in Nat /\ slot.val <= n /\ slot.val \in {INT64_MAX} \cup Proofs(slot, miner.workBlock)
  BY <1>4, ResultIs
<1>6. slot.val # INT64_MAX
  BY <1>2, <1>5, Numbers
<1>7. slot.val \in Proofs(slot, miner.workBlock) /\ slot.val \in Batch(slot.base, batch_size)
  BY <1>5, <1>6 DEF Proofs
<1>8. HashOf(slot.val) < miner.target
  BY <1>2, <1>7
<1> QED
  BY <1>6, <1>8 DEF collected, Found

\* The chunks cover the batch, and go past its end by less than a nonce per thread.
LEMMA ChunksCover ==
  /\ chunk \in Nat
  /\ \A j \in 0 .. Workers - 1 : j * chunk \in Nat /\ j * chunk + chunk < batch_size + Workers
  /\ \A k \in 0 .. batch_size - 1 :
       \E j \in 0 .. Workers - 1 : j * chunk <= k /\ k < j * chunk + chunk
<1>1. PICK b \in Nat \ {0}, W \in Nat \ {0} : b = batch_size /\ W = Workers
  BY Numbers
<1>2. PICK c \in Nat : c = chunk /\ W * c <= b + W - 1 /\ b + W - 1 < W * (c + 1)
  <2>1. PICK a \in Nat : a = b + W - 1
    BY <1>1
  <2>2. PICK q \in Nat : q = a \div W /\ W * q <= a /\ a < W * (q + 1)
    OBVIOUS
  <2> QED
    BY <1>1, <2>1, <2>2 DEF chunk
<1>3. W * (c + 1) = W * c + W /\ W * c \in Nat
  BY <1>2
<1>4. b <= W * c /\ W * c < b + W
  BY <1>1, <1>2, <1>3
<1>5. c # 0
  <2>1. SUFFICES ASSUME c = 0 PROVE FALSE
    OBVIOUS
  <2> QED
    BY <1>1, <1>4, <2>1
<1>6. ASSUME NEW j \in 0 .. W - 1
      PROVE  j * c \in Nat /\ j * c + c < b + W
  <2>1. j \in Nat /\ (j + 1) * c <= W * c /\ (j + 1) * c = j * c + c /\ j * c \in Nat
    BY <1>2
  <2> QED
    BY <1>1, <1>2, <1>3, <1>4, <2>1
<1>7. ASSUME NEW k \in 0 .. b - 1
      PROVE  \E j \in 0 .. W - 1 : j * c <= k /\ k < j * c + c
  <2>1. PICK j \in Nat : j = k \div c /\ c * j <= k /\ k < c * (j + 1)
    BY <1>2, <1>5
  <2>2. c * j = j * c /\ c * (j + 1) = j * c + c
    BY <1>2
  <2>3. c * j < c * W
    BY <1>1, <1>3, <1>4, <2>1
  <2>4. j < W
    BY <1>1, <1>2, <2>1, <2>3
  <2> QED
    BY <1>1, <2>1, <2>2, <2>4
<1> QED
  BY <1>1, <1>2, <1>6, <1>7

-----------------------------------------------------------------------------
(* The searchers' steps                                                      *)

LEMMA SearchStarts == SearcherInit => SearcherInv
<1> SUFFICES ASSUME SearcherInit PROVE SearcherInv
  OBVIOUS
<1>1. /\ hash \in [of: Hashes, gpu: BOOLEAN]
      /\ chain \in [height: 0 .. MaxHeight, target: Targets]
  BY Numbers DEF SearcherInit
<1>2. /\ miner = [pc |-> "block", workBlock |-> 0, target |-> 0, nonce |-> 0,
                  last |-> None, tried |-> 0]
      /\ gpu = [workBlock |-> NoBlock, hot |-> 1, hotNonce |-> 0, slot |-> 0]
      /\ clear = [nonces |-> {}, next |-> 0] /\ chunks = {}
  BY DEF SearcherInit
<1>3. slots \in [0 .. 1 -> Slots] /\ \A s \in 0 .. 1 : slots[s].running = FALSE
  BY Numbers DEF SearcherInit, Slots
<1>4. None \in Answers /\ None.none
  BY DEF Answers, None
<1>5. SearcherType
  BY <1>1, <1>2, <1>3, <1>4, Numbers DEF SearcherType
<1>6. ReachInv /\ AnswerInv /\ ClearInv /\ CpuInv
  BY <1>2, <1>4 DEF ReachInv, AnswerInv, ClearInv, CpuInv
<1>7. GpuInv
  BY <1>2, <1>3 DEF GpuInv
<1> QED
  BY <1>5, <1>6, <1>7 DEF SearcherInv

LEMMA Launches ==
  ASSUME SearcherType, NEW slot, NEW base \in Nat
  PROVE  /\ launched(slot, base) \in Slots /\ launched(slot, base).running
         /\ launched(slot, base).base = base /\ launched(slot, base).val = INT64_MAX
<1>1. miner.target \in Values
  BY DEF SearcherType
<1> QED
  BY <1>1, Numbers DEF launched, Slots

LEMMA ColdStartKeeps == SearcherInv /\ coldStart => SearcherInv'
<1> SUFFICES ASSUME SearcherInv, coldStart PROVE SearcherInv'
  OBVIOUS
<1> USE DEF SearcherInv
<1>1. /\ SearcherType /\ miner.pc = "search" /\ miner.tried < MaxTried /\ hash.gpu
      /\ miner' = [miner EXCEPT !.pc = "collect"]
      /\ clear' = [clear EXCEPT !.next = miner.nonce]
      /\ gpu' = [workBlock |-> miner.workBlock, hot |-> 1,
                 hotNonce |-> miner.nonce + batch_size, slot |-> 0]
      /\ hash' = hash /\ chain' = chain /\ chunks' = chunks
  BY DEF coldStart, searching
<1>2. slots' = [s \in 0 .. 1 |-> launched(slots[s], miner.nonce + s * batch_size)]
  BY DEF coldStart
<1>3. miner.nonce \in Nat /\ batch_size \in Nat
  BY <1>1, Numbers DEF SearcherType
<1>4. /\ slots' \in [0 .. 1 -> Slots]
      /\ \A s \in 0 .. 1 : slots'[s].running /\ slots'[s].val = INT64_MAX
      /\ slots'[0].base = miner.nonce /\ slots'[1].base = miner.nonce + batch_size
  <2>1. \A s \in 0 .. 1 : miner.nonce + s * batch_size \in Nat
    BY <1>3
  <2>2. miner.nonce + 0 * batch_size = miner.nonce
        /\ miner.nonce + 1 * batch_size = miner.nonce + batch_size
    BY <1>3
  <2>3. ASSUME NEW s \in 0 .. 1
        PROVE  /\ slots'[s] \in Slots /\ slots'[s].running /\ slots'[s].val = INT64_MAX
               /\ slots'[s].base = miner.nonce + s * batch_size
    <3>1. slots'[s] = launched(slots[s], miner.nonce + s * batch_size)
      BY <1>2
    <3> QED
      BY <1>1, <2>1, <3>1, Launches
  <2>4. slots' \in [0 .. 1 -> Slots]
    BY <1>2, <2>3
  <2> QED
    BY <2>2, <2>3, <2>4
<1>5. SearcherType'
  BY <1>1, <1>3, <1>4 DEF SearcherType
<1>6. ReachInv'
  BY <1>1 DEF ReachInv, InReach, SearcherType
<1>7. miner'.workBlock = miner.workBlock /\ miner'.target = miner.target
      /\ miner'.last = miner.last /\ miner'.pc = "collect" /\ clear'.nonces = clear.nonces
      /\ miner'.tried = miner.tried /\ clear'.next = miner.nonce
  BY <1>1 DEF SearcherType
<1>8. AnswerInv' /\ ClearInv'
  BY <1>1, <1>7 DEF AnswerInv, ClearInv, HashOf
<1>9. Aligned'
  <2>1. InReach(clear.next)'
    BY <1>1, <1>7 DEF ReachInv, InReach
  <2> QED
    BY <1>1, <1>4, <1>7, <2>1 DEF Aligned
<1>10. Kernels'
  BY <1>4 DEF Kernels
<1>11. GpuInv'
  <2>1. gpu'.workBlock = miner'.workBlock /\ gpu'.workBlock # NoBlock
    BY <1>1, <1>7, Numbers DEF SearcherType, NoBlock
  <2> QED
    BY <1>1, <1>9, <1>10, <2>1 DEF GpuInv
<1>12. CpuInv'
  BY <1>1 DEF CpuInv
<1> QED
  BY <1>5, <1>6, <1>8, <1>11, <1>12

LEMMA HotPathKeeps == SearcherInv /\ hotPath => SearcherInv'
<1> SUFFICES ASSUME SearcherInv, hotPath PROVE SearcherInv'
  OBVIOUS
<1> USE DEF SearcherInv
<1>1. /\ SearcherType /\ miner.pc = "search" /\ miner.tried < MaxTried /\ hash.gpu
      /\ gpu.workBlock = miner.workBlock
      /\ miner' = [miner EXCEPT !.pc = "collect"]
      /\ hash' = hash /\ chain' = chain /\ chunks' = chunks /\ clear' = clear
  BY DEF hotPath, searching, contextChanged
<1>2. /\ slots' = [slots EXCEPT ![1 - gpu.hot] = launched(@, gpu.hotNonce + batch_size)]
      /\ gpu' = [gpu EXCEPT !.hot = 1 - gpu.hot, !.hotNonce = gpu.hotNonce + batch_size,
                            !.slot = gpu.hot]
  BY DEF hotPath
<1>3. PICK b \in Nat, hot \in 0 .. 1, next \in Nat :
        b = batch_size /\ hot = gpu.hot /\ next = gpu.hotNonce
  BY <1>1, Numbers DEF SearcherType
<1>4. /\ slots' \in [0 .. 1 -> Slots] /\ slots'[hot] = slots[hot]
      /\ slots'[1 - hot].running /\ slots'[1 - hot].val = INT64_MAX
      /\ slots'[1 - hot].base = next + b
  <2>1. PICK l \in Slots : /\ l = launched(slots[1 - hot], next + b)
                           /\ l.running /\ l.base = next + b /\ l.val = INT64_MAX
    BY <1>1, Launches
  <2>2. slots' = [slots EXCEPT ![1 - hot] = l]
    BY <1>2, <1>3, <2>1
  <2>3. slots \in [0 .. 1 -> Slots] /\ 1 - hot \in 0 .. 1 /\ 1 - hot # hot
    BY <1>1 DEF SearcherType
  <2> QED
    BY <2>1, <2>2, <2>3
<1>5. /\ gpu'.workBlock = gpu.workBlock /\ gpu'.hot = 1 - hot /\ gpu'.hotNonce = next + b
      /\ gpu'.slot = hot
      /\ gpu' \in [workBlock: 0 .. MaxHeight \cup {NoBlock}, hot: 0 .. 1, hotNonce: Nat,
                   slot: 0 .. 1]
  <2>1. gpu' = [gpu EXCEPT !.hot = 1 - hot, !.hotNonce = next + b, !.slot = hot]
    BY <1>2, <1>3
  <2>2. gpu \in [workBlock: 0 .. MaxHeight \cup {NoBlock}, hot: 0 .. 1, hotNonce: Nat,
                 slot: 0 .. 1]
    BY <1>1 DEF SearcherType
  <2>3. 1 - hot \in 0 .. 1 /\ next + b \in Nat /\ hot \in 0 .. 1
    BY <1>3
  <2> QED
    BY <2>1, <2>2, <2>3
<1>6. SearcherType'
  BY <1>1, <1>4, <1>5 DEF SearcherType
<1>7. ReachInv'
  BY <1>1 DEF ReachInv, InReach, SearcherType
<1>8. miner'.workBlock = miner.workBlock /\ miner'.target = miner.target
      /\ miner'.last = miner.last /\ miner'.pc = "collect" /\ miner'.tried = miner.tried
  BY <1>1 DEF SearcherType
<1>9. AnswerInv' /\ ClearInv'
  BY <1>1, <1>8 DEF AnswerInv, ClearInv, HashOf
<1>10. gpu.workBlock # NoBlock /\ Aligned /\ Kernels
  BY <1>1, Numbers DEF SearcherType, NoBlock, GpuInv
<1>11. Aligned'
  <2>1. InReach(clear.next)'
    BY <1>1, <1>8, <1>10 DEF Aligned, InReach
  <2>2. slots[hot].base = next /\ next = clear.next
    BY <1>1, <1>3, <1>10 DEF Aligned
  <2>3. hot = 1 - (1 - hot)
    OBVIOUS
  <2> QED
    BY <1>1, <1>3, <1>4, <1>5, <1>8, <2>1, <2>2, <2>3 DEF Aligned
<1>12. Kernels'
  <2>1. ASSUME NEW s \in 0 .. 1
        PROVE  slots'[s].val = IF slots'[s].running THEN INT64_MAX
                               ELSE Result(slots[s], gpu.workBlock)'
    <3>1. CASE s = hot
      <4>1. Result(slots[s], gpu.workBlock)' = Result(slots[s], gpu.workBlock)
        BY <1>1, <1>4, <1>5, <3>1 DEF Result, Proofs
      <4> QED
        BY <1>4, <1>10, <3>1, <4>1 DEF Kernels
    <3>2. CASE s = 1 - hot
      BY <1>4, <3>2
    <3> QED
      BY <3>1, <3>2
  <2> QED
    BY <2>1 DEF Kernels
<1>13. GpuInv'
  BY <1>1, <1>5, <1>8, <1>10, <1>11, <1>12 DEF GpuInv
<1>14. CpuInv'
  BY <1>1 DEF CpuInv
<1> QED
  BY <1>6, <1>7, <1>9, <1>13, <1>14

\* What search() returns, handed to the caller.
LEMMA ReturnKeeps ==
  ASSUME SearcherType, ReachInv, miner.pc = "collect", NEW r \in Answers, returned(r),
         UNCHANGED <<hash, chain>>, ~r.none => HashOf(r.nonce) < miner.target
  PROVE  /\ miner' \in [pc: {"block", "target", "search", "collect"}, workBlock: 0 .. MaxHeight,
                        target: Values, nonce: Nat, last: Answers, tried: Nat]
         /\ miner'.pc \in {"search", "block"} /\ (miner'.pc = "search" => r.none)
         /\ miner'.workBlock = miner.workBlock /\ miner'.target = miner.target
         /\ miner'.tried = miner.tried + batch_size
         /\ ReachInv' /\ AnswerInv'
<1>1. PICK p \in {"search", "block"} :
        /\ p = "search" => r.none
        /\ miner' = [miner EXCEPT !.pc = p, !.nonce = @ + batch_size, !.last = r,
                                  !.tried = @ + batch_size]
  BY DEF returned
<1>2. PICK b \in Nat, n \in Nat, t \in Nat :
        b = batch_size /\ n = miner.nonce /\ t = miner.tried
  BY Numbers DEF SearcherType
<1>3. miner' = [miner EXCEPT !.pc = p, !.nonce = n + b, !.last = r, !.tried = t + b]
  BY <1>1, <1>2
<1>4. miner \in [pc: {"block", "target", "search", "collect"}, workBlock: 0 .. MaxHeight,
                 target: Values, nonce: Nat, last: Answers, tried: Nat]
  BY DEF SearcherType
<1>5. /\ miner'.pc = p /\ miner'.nonce = n + b /\ miner'.last = r /\ miner'.tried = t + b
      /\ miner'.workBlock = miner.workBlock /\ miner'.target = miner.target
  BY <1>3, <1>4
<1>6. miner' \in [pc: {"block", "target", "search", "collect"}, workBlock: 0 .. MaxHeight,
                  target: Values, nonce: Nat, last: Answers, tried: Nat]
  <2>1. p \in {"block", "target", "search", "collect"} /\ n + b \in Nat /\ t + b \in Nat
    BY <1>1, <1>2
  <2>2. PICK m, q, u : m = n + b /\ q = t + b /\ u = r
    OBVIOUS
  <2>3. miner' = [miner EXCEPT !.pc = p, !.nonce = m, !.last = u, !.tried = q]
    BY <1>3, <2>2, Zenon
  <2>4. m \in Nat /\ q \in Nat /\ u \in Answers
    BY <2>1, <2>2
  <2> QED
    BY <1>4, <2>1, <2>3, <2>4
<1>7. ReachInv'
  <2>1. PICK s \in Starts : n <= s + t
    BY <1>2 DEF ReachInv, InReach
  <2>2. s \in Nat /\ n + b <= s + (t + b)
    BY <2>1, Numbers
  <2>3. InReach(miner.nonce)'
    BY <1>5, <2>2 DEF InReach
  <2> QED
    BY <1>5, <2>3 DEF ReachInv
<1>8. AnswerInv'
  <2>1. hash' = hash
    OBVIOUS
  <2> QED
    BY <1>5, <2>1 DEF AnswerInv, HashOf
<1> QED
  BY <1>1, <1>2, <1>5, <1>6, <1>7, <1>8

LEMMA KernelKeeps ==
  ASSUME SearcherInv, NEW s \in 0 .. 1, kernel(s)
  PROVE  SearcherInv'
<1> USE DEF SearcherInv
<1>1. /\ slots[s].running
      /\ slots' = [slots EXCEPT ![s].running = FALSE,
                                ![s].val = kernelResult(slots[s], gpu.workBlock)]
      /\ hash' = hash /\ chain' = chain /\ miner' = miner /\ gpu' = gpu /\ chunks' = chunks
      /\ clear' = clear
  BY DEF kernel
<1>2. gpu.workBlock # NoBlock /\ hash.gpu /\ Aligned /\ Kernels
  BY <1>1 DEF GpuInv
<1>3. slots \in [0 .. 1 -> Slots] /\ slots[s] \in Slots /\ slots[s].base \in Nat
  BY DEF SearcherType, Slots
<1>4. PICK v \in Nat : v = kernelResult(slots[s], gpu.workBlock)
                       /\ v = Result(slots[s], gpu.workBlock)
  <2>1. slots[s].val = INT64_MAX
    BY <1>1, <1>2 DEF Kernels
  <2>2. kernelResult(slots[s], gpu.workBlock) = Result(slots[s], gpu.workBlock)
    BY <2>1, Zenon DEF kernelResult, Result, Proofs
  <2> QED
    BY <1>3, <2>2, ResultIs
<1>5. /\ slots' \in [0 .. 1 -> Slots]
      /\ slots'[s].running = FALSE /\ slots'[s].val = v /\ slots'[s].base = slots[s].base
      /\ slots'[s].t = slots[s].t /\ \A o \in (0 .. 1) \ {s} : slots'[o] = slots[o]
  <2>1. slots' = [slots EXCEPT ![s].running = FALSE, ![s].val = v]
    BY <1>1, <1>4
  <2>2. slots'[s] = [slots[s] EXCEPT !.running = FALSE, !.val = v]
    BY <1>3, <2>1
  <2>3. \A o \in (0 .. 1) \ {s} : slots'[o] = slots[o]
    BY <1>3, <2>1
  <2>4. slots'[s] \in Slots /\ slots'[s].running = FALSE /\ slots'[s].val = v
        /\ slots'[s].base = slots[s].base /\ slots'[s].t = slots[s].t
    BY <1>3, <2>2 DEF Slots
  <2>5. slots' \in [0 .. 1 -> Slots]
    BY <1>3, <2>1, <2>3, <2>4
  <2> QED
    BY <2>3, <2>4, <2>5
<1>6. SearcherType'
  BY <1>1, <1>5 DEF SearcherType
<1>7. ReachInv' /\ AnswerInv' /\ ClearInv' /\ CpuInv'
  BY <1>1 DEF ReachInv, InReach, AnswerInv, ClearInv, HashOf, CpuInv
<1>8. \A o \in 0 .. 1 : slots'[o].base = slots[o].base
  BY <1>5
<1>9. Aligned'
  <2>1. gpu.hot \in 0 .. 1 /\ gpu.slot \in 0 .. 1
    BY DEF SearcherType
  <2>2. InReach(clear.next)'
    BY <1>1, <1>2 DEF Aligned, InReach
  <2> QED
    BY <1>1, <1>2, <1>8, <2>1, <2>2 DEF Aligned
<1>10. Kernels'
  <2>1. ASSUME NEW o \in 0 .. 1
        PROVE  slots'[o].val = IF slots'[o].running THEN INT64_MAX
                               ELSE Result(slots[o], gpu.workBlock)'
    <3>1. Result(slots[o], gpu.workBlock)' = Result(slots[o], gpu.workBlock)
      <4>1. slots'[o].base = slots[o].base /\ slots'[o].t = slots[o].t
        BY <1>5
      <4>2. Proofs(slots[o], gpu.workBlock)' = Proofs(slots[o], gpu.workBlock)
        BY <1>1, <4>1 DEF Proofs
      <4> QED
        BY <4>2, Zenon DEF Result
    <3>2. CASE o = s
      BY <1>4, <1>5, <3>1, <3>2
    <3>3. CASE o # s
      BY <1>2, <1>5, <3>1, <3>3 DEF Kernels
    <3> QED
      BY <3>2, <3>3
  <2> QED
    BY <2>1 DEF Kernels
<1>11. GpuInv'
  BY <1>1, <1>2, <1>9, <1>10 DEF GpuInv
<1> QED
  BY <1>6, <1>7, <1>11

LEMMA CollectKeeps == SearcherInv /\ collect => SearcherInv'
<1> SUFFICES ASSUME SearcherInv, collect PROVE SearcherInv'
  OBVIOUS
<1> USE DEF SearcherInv
<1>1. PICK slot, r : slot = slots[gpu.slot] /\ r = collected(slot.val)
  OBVIOUS
<1>2. /\ miner.pc = "collect" /\ hash.gpu
      /\ slot.running = FALSE
      /\ hash' = hash /\ chain' = chain /\ gpu' = gpu /\ slots' = slots /\ chunks' = chunks
  <2>1. slot \in Slots
    BY <1>1 DEF SearcherType
  <2> QED
    BY <1>1, <2>1 DEF collect, Slots
<1>3. returned(r)
  BY <1>1, Zenon DEF collect
<1>4. declared(r, slot.t = target_to_limbs(miner.target))
  BY <1>1, Zenon DEF collect
<1>5. gpu.workBlock = miner.workBlock /\ gpu.workBlock # NoBlock /\ Aligned /\ Kernels
  BY <1>2, Numbers DEF SearcherType, NoBlock, GpuInv
<1>6. slot \in Slots /\ slot.base = clear.next /\ gpu.hotNonce = clear.next + batch_size
      /\ slot.val = Result(slot, miner.workBlock) /\ slot.base \in Nat /\ slot.val \in Nat
  <2>1. gpu.slot \in 0 .. 1 /\ slot \in Slots
    BY <1>1 DEF SearcherType
  <2>2. slot.base \in Nat /\ slot.val \in Nat
    BY <2>1 DEF Slots
  <2>3. slot.val = Result(slot, miner.workBlock)
    BY <1>1, <1>2, <1>5, <2>1 DEF Kernels
  <2> QED
    BY <1>1, <1>2, <1>5, <2>1, <2>2, <2>3 DEF Aligned
<1>7. r \in Answers /\ (~r.none => HashOf(r.nonce) < miner.target)
  BY <1>1, <1>6 DEF collected, Answers, None, Found
<1>8. /\ miner' \in [pc: {"block", "target", "search", "collect"}, workBlock: 0 .. MaxHeight,
                     target: Values, nonce: Nat, last: Answers, tried: Nat]
      /\ miner'.pc \in {"search", "block"} /\ (miner'.pc = "search" => r.none)
      /\ miner'.workBlock = miner.workBlock /\ miner'.target = miner.target
      /\ miner'.tried = miner.tried + batch_size
      /\ ReachInv' /\ AnswerInv'
  BY <1>2, <1>3, <1>7, ReturnKeeps
<1>9. PICK b \in Nat : b = batch_size
  BY Numbers
<1>10. clear.next \in Nat /\ clear.nonces \in SUBSET Nat
  BY DEF SearcherType
<1>11. /\ clear'.next = clear.next + b
       /\ clear'.nonces \in {clear.nonces, clear.nonces \cup Batch(clear.next, batch_size)}
       /\ clear'.nonces # clear.nonces =>
            r.none /\ slot.t = target_to_limbs(miner.target)
       /\ clear' \in [nonces: SUBSET Nat, next: Nat]
  <2>1. PICK S : /\ clear' = [next |-> clear.next + b, nonces |-> S]
                 /\ S \in {clear.nonces, clear.nonces \cup Batch(clear.next, batch_size)}
                 /\ S # clear.nonces => r.none /\ slot.t = target_to_limbs(miner.target)
    BY <1>4, <1>9 DEF declared
  <2>2. Batch(clear.next, batch_size) \in SUBSET Nat /\ clear.next + b \in Nat
    BY <1>9, <1>10 DEF Batch
  <2>3. S \in SUBSET Nat
    BY <1>10, <2>1, <2>2
  <2> QED
    BY <2>1, <2>2, <2>3
<1>12. SearcherType'
  BY <1>2, <1>8, <1>11 DEF SearcherType
<1>13. InReach(clear.next)
  BY <1>5 DEF Aligned
<1>14. PICK tried \in Nat : tried = miner.tried /\ tried < MaxTried
  BY <1>2 DEF SearcherType, ReachInv
<1>15. ClearInv'
  <2>1. ASSUME miner'.pc = "search", NEW n \in clear'.nonces PROVE HashOf(n) >= miner.target
    <3>1. CASE n \in clear.nonces
      BY <1>2, <3>1 DEF ClearInv
    <3>2. CASE n \notin clear.nonces
      <4>1. r.none /\ slot.t = target_to_limbs(miner.target) /\ n \in Batch(slot.base, batch_size)
        BY <1>6, <1>11, <3>2
      <4>2. slot.base + batch_size < INT64_MAX
        <5>1. clear.next + 2 * batch_size < INT64_MAX
          BY <1>10, <1>13, <1>14, Room DEF InReach
        <5> QED
          BY <1>6, <5>1, Numbers
      <4>3. collected(slot.val).none
        BY <1>1, <4>1
      <4> QED
        BY <1>6, <4>1, <4>2, <4>3, NothingFound
    <3> QED
      BY <3>1, <3>2
  <2>2. \A n : HashOf(n)' = HashOf(n)
    BY <1>2, <1>8 DEF HashOf
  <2> QED
    BY <1>8, <2>1, <2>2 DEF ClearInv
<1>16. Aligned'
  <2>1. InReach(clear.next)'
    <3>1. PICK s \in Starts : clear.next <= s + tried
      BY <1>13, <1>14 DEF InReach
    <3>2. s \in Nat /\ clear.next + b <= s + (tried + b)
      BY <1>10, <3>1, Numbers
    <3> QED
      BY <1>8, <1>9, <1>11, <1>14, <3>2 DEF InReach
  <2>2. slots[gpu.hot].base = gpu.hotNonce
    BY <1>5 DEF Aligned
  <2> QED
    BY <1>2, <1>6, <1>8, <1>9, <1>11, <2>1, <2>2 DEF Aligned
<1>17. Kernels'
  BY <1>2, <1>5 DEF Kernels, Result, Proofs
<1>18. GpuInv'
  BY <1>2, <1>5, <1>8, <1>16, <1>17 DEF GpuInv
<1>19. CpuInv'
  BY <1>2, <1>8 DEF CpuInv
<1> QED
  BY <1>8, <1>12, <1>15, <1>18, <1>19

LEMMA SubmitKeeps == SearcherInv /\ submitChunks => SearcherInv'
<1> SUFFICES ASSUME SearcherInv, submitChunks PROVE SearcherInv'
  OBVIOUS
<1> USE DEF SearcherInv
<1>1. /\ SearcherType /\ miner.pc = "search" /\ miner.tried < MaxTried /\ ~hash.gpu
      /\ miner' = [miner EXCEPT !.pc = "collect"] /\ chunks' = 0 .. Workers - 1
      /\ clear' = [clear EXCEPT !.next = miner.nonce]
      /\ hash' = hash /\ chain' = chain /\ gpu' = gpu /\ slots' = slots
  BY DEF submitChunks, searching
<1>2. /\ miner'.workBlock = miner.workBlock /\ miner'.target = miner.target
      /\ miner'.last = miner.last /\ miner'.pc = "collect" /\ clear'.nonces = clear.nonces
      /\ miner'.tried = miner.tried /\ clear'.next = miner.nonce /\ miner'.nonce = miner.nonce
  BY <1>1 DEF SearcherType
<1>3. SearcherType'
  BY <1>1, <1>2 DEF SearcherType
<1>4. ReachInv'
  BY <1>1, <1>2 DEF ReachInv, InReach
<1>5. AnswerInv' /\ ClearInv'
  BY <1>1, <1>2 DEF AnswerInv, ClearInv, HashOf
<1>6. gpu.workBlock = NoBlock
  BY <1>1 DEF GpuInv
<1>7. GpuInv'
  BY <1>1, <1>6 DEF GpuInv
<1>8. CpuInv'
  BY <1>1, <1>2 DEF CpuInv
<1> QED
  BY <1>3, <1>4, <1>5, <1>7, <1>8

LEMMA FinishKeeps ==
  ASSUME SearcherInv, NEW i \in 0 .. Workers - 1, finishChunk(i)
  PROVE  SearcherInv'
<1> USE DEF SearcherInv
<1>1. PICK r : r = _search_chunk(i)
  OBVIOUS
<1>2. /\ i \in chunks
      /\ hash' = hash /\ chain' = chain /\ gpu' = gpu /\ slots' = slots
      /\ IF r.none /\ chunks # {i}
           THEN chunks' = chunks \ {i} /\ miner' = miner /\ clear' = clear
           ELSE chunks' = {} /\ returned(r) /\ declared(r, TRUE)
  BY <1>1 DEF finishChunk
<1>3. miner.pc = "collect" /\ ~hash.gpu /\ clear.next = miner.nonce
  BY <1>2 DEF CpuInv
<1>4. gpu.workBlock = NoBlock
  BY <1>3 DEF GpuInv
<1>5. PICK nonce \in Nat, w \in 0 .. MaxHeight, tried \in Nat, b \in Nat, W \in Nat, c \in Nat :
        /\ nonce = miner.nonce /\ w = miner.workBlock /\ tried = miner.tried
        /\ b = batch_size /\ W = Workers /\ c = chunk
  BY Numbers, ChunksCover DEF SearcherType
<1>6. nonce + b + W < INT64_MAX
  BY <1>3, <1>5, Room DEF ReachInv, InReach
<1>7. miner.target \in Nat
  BY Numbers DEF SearcherType
<1>8. ASSUME NEW j \in 0 .. Workers - 1, NEW n \in Batch(miner.nonce + j * chunk, chunk)
      PROVE  n \in Nat /\ HashOf(n) \in Nat
  <2>1. PICK k \in Nat : k = j * chunk /\ k + c < b + W
    BY <1>5, ChunksCover
  <2>2. n \in Nat /\ n < nonce + k + c
    BY <1>5, <2>1 DEF Batch
  <2>3. n < INT64_MAX
    BY <1>5, <1>6, <2>1, <2>2, Numbers
  <2>4. HashOf(n) \in Values
    BY <1>5, <2>2, <2>3, Hashed DEF HashOf
  <2> QED
    BY <2>2, <2>4, Numbers
<1>9. PICK hits : hits = {n \in Batch(miner.nonce + i * chunk, chunk) : HashOf(n) < miner.target}
  OBVIOUS
<1>10. r = IF hits = {} THEN None ELSE Found(Min(hits))
  BY <1>1, <1>9 DEF _search_chunk
<1>11. hits \in SUBSET Nat /\ \A n \in hits : HashOf(n) < miner.target
  BY <1>8, <1>9
<1>12. r \in Answers /\ (~r.none => HashOf(r.nonce) < miner.target) /\ (r.none => hits = {})
  <2>1. CASE hits = {}
    BY <1>10, <2>1 DEF Answers, None
  <2>2. CASE hits # {}
    <3>1. PICK m \in Nat : m = Min(hits) /\ HashOf(m) < miner.target
      BY <1>11, <2>2, LeastIn
    <3> QED
      BY <1>10, <2>2, <3>1 DEF Answers, Found
  <2> QED
    BY <2>1, <2>2
<1>13. ASSUME r.none, NEW n \in Batch(miner.nonce + i * chunk, chunk)
       PROVE  HashOf(n) >= miner.target
  BY <1>7, <1>8, <1>9, <1>12, <1>13
<1>14. ASSUME r.none, NEW j \in ((0 .. Workers - 1) \ chunks) \cup {i},
              NEW n \in Batch(miner.nonce + j * chunk, chunk)
       PROVE  HashOf(n) >= miner.target
  <2>1. CASE j = i
    BY <1>13, <1>14, <2>1
  <2>2. CASE j # i
    BY <1>3, <1>14, <2>2 DEF CpuInv
  <2> QED
    BY <2>1, <2>2
<1>15. CASE r.none /\ chunks # {i}
  <2>1. chunks' = chunks \ {i} /\ miner' = miner /\ clear' = clear
    BY <1>2, <1>15
  <2>2. SearcherType'
    BY <1>2, <2>1 DEF SearcherType
  <2>3. ReachInv' /\ AnswerInv' /\ ClearInv'
    BY <1>2, <2>1 DEF ReachInv, InReach, AnswerInv, ClearInv, HashOf
  <2>4. GpuInv'
    BY <1>2, <1>3, <1>4, <2>1 DEF GpuInv
  <2>5. CpuInv'
    <3>1. \A j \in (0 .. Workers - 1) \ (chunks \ {i}) : j \in ((0 .. Workers - 1) \ chunks) \cup {i}
      OBVIOUS
    <3>2. \A j \in (0 .. Workers - 1) \ (chunks \ {i}) :
            \A n \in Batch(miner.nonce + j * chunk, chunk) : HashOf(n) >= miner.target
      BY <1>14, <1>15, <3>1
    <3> QED
      BY <1>2, <1>3, <2>1, <3>2 DEF CpuInv, HashOf
  <2> QED
    BY <2>2, <2>3, <2>4, <2>5
<1>16. CASE ~(r.none /\ chunks # {i})
  <2>1. chunks' = {}
    BY <1>2, <1>16
  <2>2. returned(r)
    BY <1>2, <1>16, Zenon
  <2>3. declared(r, TRUE)
    BY <1>2, <1>16, Zenon
  <2>4. /\ miner' \in [pc: {"block", "target", "search", "collect"}, workBlock: 0 .. MaxHeight,
                       target: Values, nonce: Nat, last: Answers, tried: Nat]
        /\ miner'.pc \in {"search", "block"} /\ (miner'.pc = "search" => r.none)
        /\ miner'.workBlock = miner.workBlock /\ miner'.target = miner.target
        /\ ReachInv' /\ AnswerInv'
    BY <1>2, <1>3, <1>12, <2>2, ReturnKeeps
  <2>5. clear' \in [nonces: SUBSET Nat, next: Nat]
        /\ clear'.nonces = IF r.none THEN clear.nonces \cup Batch(miner.nonce, batch_size)
                           ELSE clear.nonces
    <3>1. clear' = [next |-> miner.nonce + batch_size,
                    nonces |-> IF r.none THEN clear.nonces \cup Batch(miner.nonce, batch_size)
                               ELSE clear.nonces]
      BY <1>3, <2>3 DEF declared
    <3>2. Batch(miner.nonce, batch_size) \in SUBSET Nat /\ miner.nonce + batch_size \in Nat
      BY <1>5 DEF Batch
    <3>3. clear.nonces \in SUBSET Nat
      BY DEF SearcherType
    <3> QED
      BY <3>1, <3>2, <3>3
  <2>6. SearcherType'
    BY <1>2, <2>1, <2>4, <2>5 DEF SearcherType
  <2>7. ClearInv'
    <3>1. ASSUME r.none, NEW n \in Batch(miner.nonce, batch_size) PROVE HashOf(n) >= miner.target
      <4>1. PICK k \in 0 .. batch_size - 1 : n = miner.nonce + k
        <5>1. n \in nonce .. nonce + b - 1
          BY <1>5 DEF Batch
        <5>2. n - nonce \in 0 .. b - 1 /\ n = nonce + (n - nonce)
          BY <1>5, <5>1
        <5> QED
          BY <1>5, <5>2
      <4>2. PICK j \in 0 .. Workers - 1 : j * chunk <= k /\ k < j * chunk + chunk
        BY ChunksCover
      <4>3. n \in Batch(miner.nonce + j * chunk, chunk)
        <5>1. PICK p \in Nat : p = j * chunk
          BY ChunksCover
        <5> QED
          BY <1>5, <4>1, <4>2, <5>1 DEF Batch
      <4>4. j \in ((0 .. Workers - 1) \ chunks) \cup {i}
        BY <1>16, <3>1
      <4> QED
        BY <1>14, <3>1, <4>3, <4>4
    <3>2. ASSUME r.none, NEW n \in clear'.nonces PROVE HashOf(n) >= miner.target
      BY <1>3, <2>5, <3>1, <3>2 DEF ClearInv
    <3>3. \A n : HashOf(n)' = HashOf(n)
      BY <1>2, <2>4 DEF HashOf
    <3> QED
      BY <2>4, <3>2, <3>3 DEF ClearInv
  <2>8. GpuInv'
    BY <1>2, <1>3, <1>4, <2>4 DEF GpuInv
  <2>9. CpuInv'
    BY <2>1, <2>4 DEF CpuInv
  <2> QED
    BY <2>4, <2>6, <2>7, <2>8, <2>9
<1> QED
  BY <1>15, <1>16

\* Between two searches only the caller and the chain move.
LEMMA RestKeeps ==
  ASSUME SearcherInv, readBlock \/ readTarget \/ nextBlock \/ UNCHANGED searcherVars
  PROVE  SearcherInv'
<1> USE DEF SearcherInv
<1>1. hash' = hash /\ gpu' = gpu /\ slots' = slots /\ chunks' = chunks
  BY DEF readBlock, readTarget, nextBlock, searcherVars
<1>2. CASE readBlock
  <2>1. /\ miner.pc = "block" /\ chain' = chain
        /\ miner' = [miner EXCEPT !.pc = "target", !.workBlock = chain.height, !.last = None]
        /\ clear' = [clear EXCEPT !.nonces = {}]
    BY <1>2 DEF readBlock
  <2>2. /\ miner'.pc = "target" /\ miner'.last = None /\ miner'.tried = miner.tried
        /\ clear'.nonces = {} /\ clear'.next = clear.next
    BY <2>1 DEF SearcherType
  <2>3. None \in Answers /\ None.none
    BY DEF Answers, None
  <2>4. SearcherType'
    BY <1>1, <2>1, <2>3 DEF SearcherType
  <2>5. ReachInv' /\ AnswerInv' /\ ClearInv'
    BY <2>2, <2>3 DEF ReachInv, AnswerInv, ClearInv
  <2>6. CpuInv'
    BY <1>1, <2>1, <2>2 DEF CpuInv
  <2>7. gpu.workBlock # NoBlock => Aligned' /\ Kernels'
    <3>1. gpu.workBlock # NoBlock => Aligned'
      BY <1>1, <2>1, <2>2 DEF GpuInv, Aligned, InReach
    <3>2. gpu.workBlock # NoBlock => Kernels'
      BY <1>1 DEF GpuInv, Kernels, Result, Proofs
    <3> QED
      BY <3>1, <3>2
  <2>8. GpuInv'
    BY <1>1, <2>2, <2>7 DEF GpuInv
  <2> QED
    BY <2>4, <2>5, <2>6, <2>8
<1>3. CASE readTarget
  <2>1. PICK s \in Starts :
          /\ miner.pc = "target" /\ chain' = chain /\ clear' = clear
          /\ miner' = [miner EXCEPT !.pc = "search", !.target = chain.target, !.nonce = s]
    BY <1>3 DEF readTarget
  <2>2. s \in Nat /\ chain.target \in Values
    BY Numbers DEF SearcherType
  <2>3. /\ miner'.pc = "search" /\ miner'.last = miner.last /\ miner'.tried = miner.tried
        /\ miner'.nonce = s
    BY <2>1 DEF SearcherType
  <2>4. SearcherType'
    BY <1>1, <2>1, <2>2 DEF SearcherType
  <2>5. ReachInv'
    <3>1. miner.tried \in Nat /\ s <= s + miner.tried
      BY <2>2 DEF SearcherType
    <3> QED
      BY <2>3, <3>1 DEF ReachInv, InReach
  <2>6. AnswerInv' /\ ClearInv'
    BY <2>1, <2>3 DEF AnswerInv, ClearInv
  <2>7. CpuInv'
    BY <1>1, <2>1, <2>3 DEF CpuInv
  <2>8. gpu.workBlock # NoBlock => Aligned' /\ Kernels'
    <3>1. gpu.workBlock # NoBlock => Aligned'
      BY <1>1, <2>1, <2>3 DEF GpuInv, Aligned, InReach
    <3>2. gpu.workBlock # NoBlock => Kernels'
      BY <1>1 DEF GpuInv, Kernels, Result, Proofs
    <3> QED
      BY <3>1, <3>2
  <2>9. GpuInv'
    BY <1>1, <2>3, <2>8 DEF GpuInv
  <2> QED
    BY <2>4, <2>5, <2>6, <2>7, <2>9
<1>4. CASE nextBlock \/ UNCHANGED searcherVars
  <2>1. /\ miner' = miner /\ clear' = clear
        /\ chain' \in [height: 0 .. MaxHeight, target: Targets]
    <3>1. CASE nextBlock
      <4>1. /\ chain.height < MaxHeight /\ miner' = miner /\ clear' = clear
            /\ \E t \in Targets : chain' = [height |-> chain.height + 1, target |-> t]
        BY <3>1 DEF nextBlock
      <4>2. chain.height \in 0 .. MaxHeight
        BY DEF SearcherType
      <4> QED
        BY <4>1, <4>2, Numbers
    <3>2. CASE UNCHANGED searcherVars
      BY <3>2 DEF searcherVars, SearcherType
    <3> QED
      BY <1>4, <3>1, <3>2
  <2>2. SearcherType'
    BY <1>1, <2>1 DEF SearcherType
  <2>3. ReachInv' /\ AnswerInv' /\ ClearInv' /\ CpuInv'
    BY <1>1, <2>1 DEF ReachInv, InReach, AnswerInv, ClearInv, HashOf, CpuInv
  <2>4. GpuInv'
    BY <1>1, <2>1 DEF GpuInv, Aligned, InReach, Kernels, Result, Proofs
  <2> QED
    BY <2>2, <2>3, <2>4
<1> QED
  BY <1>2, <1>3, <1>4

LEMMA SearcherKeeps == SearcherInv /\ [SearcherNext]_searcherVars => SearcherInv'
<1> SUFFICES ASSUME SearcherInv, [SearcherNext]_searcherVars PROVE SearcherInv'
  OBVIOUS
<1>1. CASE coldStart
  BY <1>1, ColdStartKeeps
<1>2. CASE hotPath
  BY <1>2, HotPathKeeps
<1>3. CASE collect
  BY <1>3, CollectKeeps
<1>4. ASSUME NEW s \in 0 .. 1, kernel(s) PROVE SearcherInv'
  BY <1>4, KernelKeeps
<1>5. CASE submitChunks
  BY <1>5, SubmitKeeps
<1>6. ASSUME NEW i \in 0 .. Workers - 1, finishChunk(i) PROVE SearcherInv'
  BY <1>6, FinishKeeps
<1>7. CASE readBlock \/ readTarget \/ nextBlock \/ UNCHANGED searcherVars
  BY <1>7, RestKeeps
<1> QED
  BY <1>1, <1>2, <1>3, <1>4, <1>5, <1>6, <1>7 DEF SearcherNext

LEMMA SearcherInductive == SearcherSpec => []SearcherInv
<1>1. SearcherInit => SearcherInv
  BY SearchStarts
<1>2. SearcherInv /\ [SearcherNext]_searcherVars => SearcherInv'
  BY SearcherKeeps
<1> QED
  BY <1>1, <1>2, PTL DEF SearcherSpec

\* Whatever two buffers, two targets and two work blocks are about when a batch is
\* collected, and in whatever order the chunks end: search() returns proofs only
\* (gpu_engine.py 321-379, cpu_engine.py 33-57).
THEOREM ProofsReturned == SearcherSpec => []ReturnsProofs
<1>1. SearcherInv => ReturnsProofs
  BY DEF SearcherInv, AnswerInv, ReturnsProofs
<1> QED
  BY <1>1, SearcherInductive, PTL

\* The batches that were searched without an answer, for the target at hand, hold none,
\* for every batch size and number of threads: no kernel missed a proof, no chunk ended
\* before the batch did (gpu_engine.py 176-188, 304-377, cpu_engine.py 40-57).
THEOREM NonePassedOver == SearcherSpec => []NothingPassedOver
<1>1. SearcherInv => NothingPassedOver
  BY DEF SearcherInv, ClearInv, NothingPassedOver
<1> QED
  BY <1>1, SearcherInductive, PTL
=============================================================================
