------------------------ MODULE ApplicationProofs ------------------------
(***************************************************************************)
(* Proofs about the application and its window.  About AppLifecycle, for    *)
(* any number of instances: one runs at a time, producers run over a        *)
(* display, and what has run is stopped.  About OverlaySurface, for any     *)
(* outputs, sessions and configurations and any number of failing calls:    *)
(* what is taken for active is shown, what is cached is known, what waits   *)
(* is retried, what is closed stays closed, only a place the surface is at  *)
(* is saved, and the next drag starts from where the surface is.            *)
(***************************************************************************)
EXTENDS AppLifecycle, OverlaySurface, WellFoundedInduction, TLAPS

(***************************************************************************)
(* Part 1: the life of the instances.                                      *)
(***************************************************************************)

\* What may run of an instance.
Components == Services \cup Producers \cup {"surface", "display", "search"}

Phases == {"absent", "launched", "building", "starting", "up", "aborting", "stopping", "leaving",
           "exited"}

\* Every variable has its type.
LifeTypeOK ==
    /\ phase \in [Instances -> Phases]
    /\ place \in [Instances -> Nat]
    /\ running \in [Instances -> SUBSET Components]
    /\ stuck \in [Instances -> SUBSET Components]
    /\ escaped \in [Instances -> BOOLEAN]
    /\ lock \in Instances \cup {NoInstance}
    /\ restarting \in BOOLEAN

\* The phases in which an instance holds the lock, and no other has them.
Holding == {"building", "starting", "up", "aborting", "stopping", "leaving"}

LockInv == \A i \in Instances : phase[i] \in Holding <=> lock = i

\* A producer that is not stuck has a display and a surface.
Supported(run, refused) ==
    Producers \cap (run \ refused) # {} => {"display", "surface"} \subseteq run

\* What runs of one instance, given its phase and the component that is next: the
\* display and the surface start before any producer and stop after all of them.
\* After a stop that an exception ended, what is before the component that raised.
Sound(p, next, run, refused, raised) ==
    /\ p \in {"absent", "launched", "building", "exited"} => run = {}
    /\ p \in {"absent", "launched", "building", "starting", "up"} => refused = {}
    /\ p \in {"absent", "launched", "building"} => next = 1
    /\ p = "starting" =>
          /\ next \in 1 .. 7
          /\ next > 1 => "surface" \in run
          /\ next > 2 => "display" \in run
          /\ next < 4 => run \cap Producers = {}
    /\ p = "up" => {"display", "surface"} \subseteq run
    /\ p \in {"aborting", "stopping"} =>
          /\ next \in 1 .. 9
          /\ next <= 5 => Supported(run, refused)
          /\ \A k \in 1 .. 8 : k < next /\ StopOrder[k] \in run => StopOrder[k] \in refused
    /\ p = "leaving" =>
          /\ Supported(run, refused)
          /\ \A k \in 1 .. 8 :
                StopOrder[k] \in run => StopOrder[k] \in refused \/ (raised /\ next <= k)

LifeInv ==
    /\ LifeTypeOK /\ LockInv
    /\ \A i \in Instances : Sound(phase[i], place[i], running[i], stuck[i], escaped[i])

-------------------------------------------------------------------------------
(* Facts about the two orders.                                             *)

LEMMA StartOrderFacts ==
    /\ DOMAIN StartOrder = 1 .. 6
    /\ StartOrder[1] = "surface" /\ StartOrder[2] = "display" /\ StartOrder[3] = "search"
    /\ \A k \in 4 .. 6 : StartOrder[k] \in Producers
    /\ \A k \in 1 .. 6 : StartOrder[k] \in Components
    /\ \A k \in 1 .. 3 : StartOrder[k] \notin Producers
BY DEF StartOrder, Producers, Components

\* The producers stop after the search and before the display.
LEMMA StopOrderFacts ==
    /\ DOMAIN StopOrder = 1 .. 8
    /\ \A c \in Components : \E k \in 1 .. 8 : StopOrder[k] = c
    /\ \A c \in Producers : \E k \in 2 .. 4 : StopOrder[k] = c
    /\ \A k \in 1 .. 4 : StopOrder[k] \notin {"display", "surface"}
    /\ \A j, k \in 1 .. 8 : StopOrder[j] = StopOrder[k] => j = k
BY DEF StopOrder, Producers, Components, Services

-------------------------------------------------------------------------------
(* The invariant is inductive.                                             *)

\* What an instance does leaves the others as they are.
LEMMA OneSteps ==
    ASSUME LifeInv, NEW i \in Instances, LifeTypeOK', LockInv',
           \A j \in Instances \ {i} : /\ phase'[j] = phase[j] /\ place'[j] = place[j]
                                     /\ running'[j] = running[j] /\ stuck'[j] = stuck[j]
                                     /\ escaped'[j] = escaped[j],
           Sound(phase'[i], place'[i], running'[i], stuck'[i], escaped'[i])
    PROVE  LifeInv'
BY DEF LifeInv

LEMMA InitLifeInv == AppInit => LifeInv
<1> SUFFICES ASSUME AppInit PROVE LifeInv
  OBVIOUS
<1>1. restarting \in BOOLEAN
  BY Zenon DEF AppInit
<1>2. LifeTypeOK
  BY <1>1 DEF AppInit, LifeTypeOK, Phases
<1>3. LockInv
  BY InstancesAssumption DEF AppInit, LockInv, Holding
<1>4. \A i \in Instances : Sound(phase[i], place[i], running[i], stuck[i], escaped[i])
  BY DEF AppInit, Sound
<1>5. QED BY <1>2, <1>3, <1>4 DEF LifeInv

\* The process before and after its components: launch, lock, build, exit.
LEMMA ProcessKeeps ==
    ASSUME LifeInv, NEW i \in Instances, Launch(i) \/ TakeLock(i) \/ Build(i) \/ Leave(i) \/ Killed(i)
    PROVE  LifeInv'
<1> USE DEF LifeInv, Enter, Vanish, componentVars
<1>1. LifeTypeOK'
  <2>1. restarting' \in BOOLEAN
    BY Zenon DEF LifeTypeOK, Launch, TakeLock, Build, Leave, Killed
  <2>2. CASE Launch(i) \/ TakeLock(i)
    BY <2>1, <2>2 DEF LifeTypeOK, Phases, Launch, TakeLock
  <2>3. CASE Build(i)
    BY <2>1, <2>3 DEF LifeTypeOK, Phases, Build, Components
  <2>4. CASE Leave(i) \/ Killed(i)
    <3>1. PICK no \in BOOLEAN : no = FALSE OBVIOUS
    <3>2. escaped' = [escaped EXCEPT ![i] = no]
      BY <2>4, <3>1 DEF Leave, Killed
    <3>3. escaped' \in [Instances -> BOOLEAN]
      BY <3>2 DEF LifeTypeOK
    <3>4. QED BY <2>1, <2>4, <3>3 DEF LifeTypeOK, Phases, Leave, Killed
  <2>5. QED BY <2>2, <2>3, <2>4
<1>2. LockInv'
  BY InstancesAssumption DEF LifeTypeOK, LockInv, Holding, Launch, TakeLock, Build, Leave, Killed
<1>3. Sound(phase[i], place[i], running[i], stuck[i], escaped[i])
  OBVIOUS
<1>4. Sound(phase'[i], place'[i], running'[i], stuck'[i], escaped'[i])
  <2>1. CASE Launch(i) \/ TakeLock(i)
    BY <1>3, <2>1 DEF LifeTypeOK, Sound, Launch, TakeLock
  <2>2. CASE Build(i)
    BY <1>3, <2>2 DEF LifeTypeOK, Sound, Supported, Services, Producers, Build
  <2>3. CASE Leave(i) \/ Killed(i)
    BY <1>3, <2>3 DEF LifeTypeOK, Sound, Leave, Killed
  <2>4. QED BY <2>1, <2>2, <2>3
<1>5. \A j \in Instances \ {i} : /\ phase'[j] = phase[j] /\ place'[j] = place[j]
                                 /\ running'[j] = running[j] /\ stuck'[j] = stuck[j]
                                 /\ escaped'[j] = escaped[j]
  BY DEF LifeTypeOK, Launch, TakeLock, Build, Leave, Killed
<1>6. QED BY <1>1, <1>2, <1>4, <1>5, OneSteps

\* A component starts, fails to start, or the last one has started.
LEMMA StartKeeps ==
    ASSUME LifeInv, NEW i \in Instances, StartComponent(i) \/ StartFails(i) \/ StartEnds(i)
    PROVE  LifeInv'
<1> USE DEF LifeInv, Enter, BeginStop, Started, componentVars
<1>1. phase[i] = "starting" /\ Sound("starting", place[i], running[i], stuck[i], escaped[i])
  BY DEF StartComponent, StartFails, StartEnds
<1>2. LifeTypeOK'
  BY <1>1, StartOrderFacts DEF LifeTypeOK, Phases, Sound, StartComponent, StartFails, StartEnds
<1>3. LockInv'
  BY <1>1 DEF LifeTypeOK, LockInv, Holding, StartComponent, StartFails, StartEnds
<1>4. Sound(phase'[i], place'[i], running'[i], stuck'[i], escaped'[i])
  <2>1. CASE StartComponent(i)
    BY <1>1, <2>1, StartOrderFacts DEF LifeTypeOK, Sound, StartComponent
  <2>2. CASE StartEnds(i)
    BY <1>1, <2>2, StartOrderFacts DEF LifeTypeOK, Sound, StartEnds
  <2>3. CASE StartFails(i)
    <3> DEFINE c == StartOrder[place[i]]
    <3>1. /\ place[i] \in 1 .. 6 /\ running'[i] \in {running[i], running[i] \cup {c}} /\ stuck'[i] = {}
          /\ \/ c \in Producers /\ phase'[i] = "starting" /\ place'[i] = place[i] + 1
             \/ phase'[i] = "aborting" /\ place'[i] = 1
      BY <1>1, <2>3, StartOrderFacts DEF LifeTypeOK, Sound, StartFails
    <3>2. c \in Producers => place[i] \in 4 .. 6
      BY <3>1, StartOrderFacts
    <3>3. CASE phase'[i] = "starting"
      BY <1>1, <3>1, <3>2, <3>3 DEF Sound
    <3>4. CASE phase'[i] = "aborting"
      <4>1. Supported(running'[i], stuck'[i])
        BY <1>1, <3>1, <3>2 DEF Sound, Supported
      <4>2. QED BY <3>1, <3>4, <4>1 DEF Sound
    <3>5. QED BY <3>1, <3>3, <3>4
  <2>4. QED BY <2>1, <2>2, <2>3
<1>5. \A j \in Instances \ {i} : /\ phase'[j] = phase[j] /\ place'[j] = place[j]
                                 /\ running'[j] = running[j] /\ stuck'[j] = stuck[j]
                                 /\ escaped'[j] = escaped[j]
  BY DEF LifeTypeOK, StartComponent, StartFails, StartEnds
<1>6. QED BY <1>2, <1>3, <1>4, <1>5, OneSteps

\* A component stops, refuses to, or the last one is past.
LEMMA StopKeeps ==
    ASSUME LifeInv, NEW i \in Instances, StopComponent(i) \/ StopFails(i) \/ StopEnds(i)
    PROVE  LifeInv'
<1> USE DEF LifeInv, Enter, Stops, componentVars
<1>1. phase[i] \in {"aborting", "stopping"} /\ Sound(phase[i], place[i], running[i], stuck[i], escaped[i])
  BY DEF StopComponent, StopFails, StopEnds
<1>2. LifeTypeOK'
  BY <1>1, StopOrderFacts DEF LifeTypeOK, Phases, Sound, StopComponent, StopFails, StopEnds
<1>3. LockInv'
  BY <1>1 DEF LifeTypeOK, LockInv, Holding, StopComponent, StopFails, StopEnds
<1>4. Sound(phase'[i], place'[i], running'[i], stuck'[i], escaped'[i])
  <2>1. CASE StopComponent(i) \/ StopFails(i)
    <3>1. place[i] \in 1 .. 8 /\ place'[i] = place[i] + 1 /\ phase'[i] = phase[i]
      BY <1>1, <2>1, StopOrderFacts DEF LifeTypeOK, StopComponent, StopFails
    <3>2. \/ /\ running'[i] = running[i] \ {StopOrder[place[i]]}
             /\ stuck'[i] = stuck[i] \ {StopOrder[place[i]]}
          \/ /\ running'[i] = running[i]
             /\ stuck'[i] = stuck[i] \cup ({StopOrder[place[i]]} \cap running[i])
      BY <2>1 DEF LifeTypeOK, StopComponent, StopFails
    <3>3. place'[i] <= 5 => Supported(running'[i], stuck'[i])
      BY <1>1, <3>1, <3>2, StopOrderFacts DEF Sound, Supported
    <3>4. \A k \in 1 .. 8 : k < place'[i] /\ StopOrder[k] \in running'[i] => StopOrder[k] \in stuck'[i]
      BY <1>1, <3>1, <3>2, StopOrderFacts DEF Sound
    <3>5. QED BY <1>1, <3>1, <3>3, <3>4 DEF Sound
  <2>2. CASE StopEnds(i)
    <3>1. place[i] = 9 /\ phase'[i] = "leaving"
      BY <1>1, <2>2, StopOrderFacts DEF Sound, StopEnds, LifeTypeOK
    <3>2. \A k \in 1 .. 8 : StopOrder[k] \in running[i] => StopOrder[k] \in stuck[i]
      BY <1>1, <3>1 DEF Sound
    <3>3. Supported(running[i], stuck[i])
      BY <3>2, StopOrderFacts DEF Supported
    <3>4. running'[i] = running[i] /\ stuck'[i] = stuck[i]
      BY <2>2 DEF StopEnds
    <3>5. QED BY <3>1, <3>2, <3>3, <3>4 DEF Sound
  <2>3. QED BY <2>1, <2>2
<1>5. \A j \in Instances \ {i} : /\ phase'[j] = phase[j] /\ place'[j] = place[j]
                                 /\ running'[j] = running[j] /\ stuck'[j] = stuck[j]
                                 /\ escaped'[j] = escaped[j]
  BY DEF LifeTypeOK, StopComponent, StopFails, StopEnds
<1>6. QED BY <1>2, <1>3, <1>4, <1>5, OneSteps

\* What is stopped or stuck supports its producers, wherever the stop is.
LEMMA StoppingSupports ==
    ASSUME NEW p \in {"aborting", "stopping"}, NEW next, NEW run, NEW refused, NEW raised,
           Sound(p, next, run, refused, raised)
    PROVE  Supported(run, refused)
<1>1. CASE next > 5
  <2>1. \A c \in Producers : c \in run => c \in refused
    BY <1>1, StopOrderFacts DEF Sound
  <2>2. QED BY <2>1 DEF Supported
<1>2. CASE next <= 5
  BY <1>2 DEF Sound
<1>3. QED BY <1>1, <1>2 DEF Sound

\* An exception leaves the stop.
LEMMA StopRaisesKeeps ==
    ASSUME LifeInv, NEW i \in Instances, StopRaises(i)
    PROVE  LifeInv'
<1> USE DEF LifeInv, StopRaises, Enter, BeginStop, Stops
<1>1. /\ phase[i] \in {"aborting", "stopping"} /\ place[i] \in 1 .. 8
      /\ Sound(phase[i], place[i], running[i], stuck[i], escaped[i])
  BY StopOrderFacts
<1>2. LifeTypeOK'
  <2>1. PICK yes \in BOOLEAN : yes = TRUE OBVIOUS
  <2>2. escaped' \in {escaped, [escaped EXCEPT ![i] = yes]}
    BY <2>1
  <2>3. escaped' \in [Instances -> BOOLEAN]
    BY <2>2 DEF LifeTypeOK
  <2>4. QED BY <1>1, <2>3 DEF LifeTypeOK, Phases
<1>3. LockInv'
  BY <1>1 DEF LifeTypeOK, LockInv, Holding
<1>4. Sound(phase'[i], place'[i], running'[i], stuck'[i], escaped'[i])
  <2>1. /\ running'[i] \in {running[i], running[i] \ {StopOrder[place[i]]}}
        /\ stuck'[i] = stuck[i]
    BY DEF LifeTypeOK
  <2>2. Supported(running[i], stuck[i])
    BY <1>1, StoppingSupports
  <2>3. place[i] <= 4 => Supported(running'[i], stuck'[i])
    BY <1>1, <2>1, <2>2, StopOrderFacts DEF Supported
  <2>4. Supported(running'[i], stuck'[i])
    <3>1. CASE place[i] <= 4
      BY <1>1, <2>3, <3>1
    <3>2. CASE place[i] > 4
      <4>1. \A c \in Producers : c \in running[i] => c \in stuck[i]
        BY <1>1, <3>2, StopOrderFacts DEF Sound
      <4>2. QED BY <2>1, <4>1 DEF Supported
    <3>3. QED BY <1>1, <3>1, <3>2
  <2>5. CASE phase[i] = "aborting"
    <3>1. phase'[i] = "stopping" /\ place'[i] = 1
      BY <2>5 DEF LifeTypeOK
    <3>2. QED BY <2>4, <3>1 DEF Sound
  <2>6. CASE phase[i] = "stopping"
    <3>1. phase'[i] = "leaving" /\ place'[i] = place[i] /\ escaped'[i] = TRUE
      BY <2>6 DEF LifeTypeOK
    <3>2. \A k \in 1 .. 8 : k < place[i] /\ StopOrder[k] \in running'[i] => StopOrder[k] \in stuck'[i]
      BY <1>1, <2>1 DEF Sound
    <3>3. QED BY <1>1, <2>4, <3>1, <3>2 DEF Sound
  <2>7. QED BY <1>1, <2>5, <2>6
<1>5. \A j \in Instances \ {i} : /\ phase'[j] = phase[j] /\ place'[j] = place[j]
                                 /\ running'[j] = running[j] /\ stuck'[j] = stuck[j]
                                 /\ escaped'[j] = escaped[j]
  BY DEF LifeTypeOK
<1>6. QED BY <1>2, <1>3, <1>4, <1>5, OneSteps

\* The application quits, wherever it is.
LEMMA QuitKeeps == ASSUME LifeInv, NEW i \in Instances, Quit(i) PROVE LifeInv'
<1> USE DEF LifeInv, Quit, Enter, BeginStop, Started
<1>1. Sound(phase[i], place[i], running[i], stuck[i], escaped[i])
  OBVIOUS
<1>2. LifeTypeOK'
  BY StartOrderFacts DEF LifeTypeOK, Phases
<1>3. LockInv'
  BY DEF LifeTypeOK, LockInv, Holding
<1>4. Sound(phase'[i], place'[i], running'[i], stuck'[i], escaped'[i])
  <2>1. CASE phase[i] = "building"
    BY <1>1, <2>1 DEF LifeTypeOK, Sound, Supported
  <2>2. CASE phase[i] \in {"starting", "up"}
    <3>1. phase'[i] \in {"aborting", "stopping"} /\ place'[i] = 1 /\ stuck'[i] = {}
      BY <1>1, <2>2 DEF LifeTypeOK, Sound
    <3>2. \/ running'[i] = running[i]
          \/ /\ phase[i] = "starting" /\ place[i] \in 1 .. 6
             /\ running'[i] = running[i] \cup {StartOrder[place[i]]}
      BY <2>2, StartOrderFacts DEF LifeTypeOK
    <3>3. Supported(running'[i], stuck'[i])
      BY <1>1, <2>2, <3>2, StartOrderFacts DEF Sound, Supported
    <3>4. QED BY <3>1, <3>3 DEF Sound
  <2>3. QED BY <2>1, <2>2
<1>5. \A j \in Instances \ {i} : /\ phase'[j] = phase[j] /\ place'[j] = place[j]
                                 /\ running'[j] = running[j] /\ stuck'[j] = stuck[j]
                                 /\ escaped'[j] = escaped[j]
  BY DEF LifeTypeOK
<1>6. QED BY <1>2, <1>3, <1>4, <1>5, OneSteps

\* A replacement is launched, and the instance it replaces begins to stop.
LEMMA RestartKeeps == ASSUME LifeInv, NEW i \in Instances, NEW j \in Instances, Restart(i, j) PROVE LifeInv'
<1> USE DEF LifeInv, Restart
<1>1. restarting' \in BOOLEAN
  BY Zenon
<1>2. LifeTypeOK'
  BY <1>1 DEF LifeTypeOK, Phases
<1>3. LockInv'
  BY DEF LifeTypeOK, LockInv, Holding
<1>4. i # j /\ Sound("up", place[i], running[i], stuck[i], escaped[i]) /\ Sound("absent", place[j], running[j], stuck[j], escaped[j])
  BY DEF Sound
<1>5. Sound(phase'[i], place'[i], running'[i], stuck'[i], escaped'[i])
  BY <1>4 DEF LifeTypeOK, Sound, Supported
<1>6. Sound(phase'[j], place'[j], running'[j], stuck'[j], escaped'[j])
  BY <1>4 DEF LifeTypeOK, Sound
<1>7. \A k \in Instances \ {i, j} : /\ phase'[k] = phase[k] /\ place'[k] = place[k]
                                    /\ running'[k] = running[k] /\ stuck'[k] = stuck[k]
                                    /\ escaped'[k] = escaped[k]
  BY DEF LifeTypeOK
<1>8. QED BY <1>2, <1>3, <1>5, <1>6, <1>7

\* The inductive invariant of the lifecycle holds in every reachable state.
THEOREM LifeIsRight == AppSpec => []LifeInv
<1>1. LifeInv /\ [AppNext]_appVars => LifeInv'
  <2> SUFFICES ASSUME LifeInv, [AppNext]_appVars PROVE LifeInv'
    OBVIOUS
  <2>1. ASSUME NEW i \in Instances, Proceeds(i) PROVE LifeInv'
    BY <2>1, ProcessKeeps, StartKeeps, StopKeeps, StopRaisesKeeps DEF Proceeds
  <2>2. ASSUME NEW i \in Instances, Launch(i) \/ Killed(i) \/ Quit(i) PROVE LifeInv'
    BY <2>2, ProcessKeeps, QuitKeeps
  <2>3. ASSUME NEW i \in Instances, NEW j \in Instances, Restart(i, j) PROVE LifeInv'
    BY <2>3, RestartKeeps
  <2>4. CASE UNCHANGED appVars
    BY <2>4 DEF appVars, LifeInv, LifeTypeOK, LockInv
  <2>5. QED BY <2>1, <2>2, <2>3, <2>4 DEF AppNext
<1>2. QED BY InitLifeInv, <1>1, PTL DEF AppSpec

-------------------------------------------------------------------------------
(* What follows from the invariant.                                        *)

\* The life of the instances always has its type.
THEOREM LifeTypeCorrect == AppSpec => []LifeTypeOK
<1>1. LifeInv => LifeTypeOK
  BY DEF LifeInv
<1>2. QED BY <1>1, LifeIsRight, PTL

\* Only the holder of the lock has components that run, however many instances are
\* launched, killed, quit and restarted.
THEOREM OneInstanceAlwaysRuns == AppSpec => []OneInstanceRuns
<1>1. LifeInv => OneInstanceRuns
  <2> SUFFICES ASSUME LifeInv, NEW i \in Instances, running[i] # {} PROVE lock = i
    BY DEF OneInstanceRuns
  <2>1. Sound(phase[i], place[i], running[i], stuck[i], escaped[i]) /\ phase[i] \in Phases
    BY DEF LifeInv, LifeTypeOK
  <2>2. phase[i] \in Holding
    BY <2>1 DEF Sound, Phases, Holding
  <2>3. QED BY <2>2 DEF LifeInv, LockInv
<1>2. QED BY <1>1, LifeIsRight, PTL

\* A producer that is not stuck never runs without a display and a surface, whichever
\* starts and stops fail.
THEOREM ProducersAlwaysHaveADisplay == AppSpec => []ProducersHaveADisplay
<1>1. LifeInv => ProducersHaveADisplay
  <2> SUFFICES ASSUME LifeInv, NEW i \in Instances PROVE Supported(running[i], stuck[i])
    BY DEF ProducersHaveADisplay, Supported
  <2>1. Sound(phase[i], place[i], running[i], stuck[i], escaped[i]) /\ phase[i] \in Phases
    BY DEF LifeInv, LifeTypeOK
  <2>2. CASE phase[i] \in {"aborting", "stopping"}
    BY <2>1, <2>2, StoppingSupports
  <2>3. CASE phase[i] = "leaving"
    BY <2>1, <2>3 DEF Sound
  <2>4. CASE phase[i] = "starting"
    BY <2>1, <2>4 DEF Sound, Supported
  <2>5. CASE phase[i] \notin {"starting", "aborting", "stopping", "leaving"}
    BY <2>1, <2>5 DEF Sound, Supported, Phases
  <2>6. QED BY <2>1, <2>2, <2>3, <2>4, <2>5 DEF Sound
<1>2. QED BY <1>1, LifeIsRight, PTL

\* When an instance leaves in order, all that has run has been stopped or has failed to
\* stop; after an exception nobody expects, all that came before the one that raised.
THEOREM EverythingIsAlwaysStopped == AppSpec => []EverythingIsStopped
<1>1. LifeInv => EverythingIsStopped
  <2> SUFFICES ASSUME LifeInv, NEW i \in Instances, NEW k \in DOMAIN StopOrder,
                      phase[i] = "leaving", StopOrder[k] \in running[i]
               PROVE  StopOrder[k] \in stuck[i] \/ (escaped[i] /\ place[i] <= k)
    BY DEF EverythingIsStopped
  <2>1. Sound("leaving", place[i], running[i], stuck[i], escaped[i])
    BY DEF LifeInv
  <2>2. QED BY <2>1, StopOrderFacts DEF Sound
<1>2. QED BY <1>1, LifeIsRight, PTL

(***************************************************************************)
(* Part 2: the window.                                                     *)
(***************************************************************************)

\* The fields of the record that stands for the window and all that it owns.
Fields ==
    {"kind", "bad", "released", "shut", "native", "visible", "grab", "stroke", "at",
     "state", "active", "pending", "free", "retry", "layer", "chosen", "selected",
     "placing", "keep", "home", "homeMargin", "locked", "sure", "region", "rejected",
     "height", "content", "dragging", "moved", "applied", "passthrough", "closed",
     "closing", "soon", "later", "inputDue", "resize", "suppress", "config", "screen",
     "connected", "begun"}

\* The fields of a native window.
NativeFields == {"output", "y", "input", "layer"}

\* The record has its fields, whatever they hold: this is all the typing that the proofs
\* need of it.
Rec(o) == DOMAIN o = Fields

\* The native window, if there is one, has its fields.
NativeOK(o) == o.native = NoSurface \/ DOMAIN o.native = NativeFields

\* Which names are fields.  A leaf that cites it reads a field of a record that was edited.
LEMMA FieldNames ==
    /\ "kind" \in Fields /\ "bad" \in Fields /\ "released" \in Fields
    /\ "shut" \in Fields /\ "native" \in Fields /\ "visible" \in Fields
    /\ "grab" \in Fields /\ "stroke" \in Fields /\ "at" \in Fields
    /\ "state" \in Fields /\ "active" \in Fields /\ "pending" \in Fields
    /\ "free" \in Fields /\ "retry" \in Fields /\ "layer" \in Fields
    /\ "chosen" \in Fields /\ "selected" \in Fields /\ "placing" \in Fields
    /\ "keep" \in Fields /\ "home" \in Fields /\ "homeMargin" \in Fields
    /\ "locked" \in Fields /\ "sure" \in Fields /\ "region" \in Fields
    /\ "rejected" \in Fields /\ "height" \in Fields /\ "content" \in Fields
    /\ "dragging" \in Fields /\ "moved" \in Fields /\ "applied" \in Fields
    /\ "passthrough" \in Fields /\ "closed" \in Fields /\ "closing" \in Fields
    /\ "soon" \in Fields /\ "later" \in Fields /\ "inputDue" \in Fields
    /\ "resize" \in Fields /\ "suppress" \in Fields /\ "config" \in Fields
    /\ "screen" \in Fields /\ "connected" \in Fields /\ "begun" \in Fields
BY DEF Fields

\* A native window is not what stands for none.
LEMMA NoWindow == \A x : DOMAIN x = NativeFields => x # NoSurface
BY DEF NoSurface, NativeFields

\* The life of the surface, which most calls leave as it is.
Life(o) ==
    <<o.kind, o.state, o.active, o.pending, o.free, o.retry, o.closed, o.closing, o.begun,
      o.connected, o.shut, o.placing, o.soon, o.later, o.visible, o.released,
      o.dragging, DOMAIN o.config>>

\* What a surface aims at, its place and its configuration.
Aim(o) == <<o.chosen, o.config, o.screen>>

\* Two windows with the same aim agree on each part of it.
LEMMA SameAim ==
    ASSUME NEW o, NEW p, Aim(p) = Aim(o)
    PROVE  p.chosen = o.chosen /\ p.config = o.config /\ p.screen = o.screen
BY DEF Aim

\* Two windows with the same life agree on each part of it.
LEMMA SameLife ==
    ASSUME NEW o, NEW p, Life(p) = Life(o)
    PROVE  /\ p.kind = o.kind /\ p.state = o.state /\ p.active = o.active
           /\ p.pending = o.pending /\ p.free = o.free /\ p.retry = o.retry
           /\ p.closed = o.closed /\ p.closing = o.closing /\ p.begun = o.begun
           /\ p.connected = o.connected /\ p.shut = o.shut /\ p.placing = o.placing
           /\ p.soon = o.soon /\ p.later = o.later /\ p.visible = o.visible
           /\ p.released = o.released /\ p.dragging = o.dragging
           /\ DOMAIN p.config = DOMAIN o.config
BY DEF Life

\* The region that is taken for known is the one the compositor has.
Sure(o) ==
    o.sure =>
        /\ o.native # NoSurface
        /\ o.native.input = o.region
        /\ o.region[1] = IF o.locked THEN "lock" ELSE "panel"

\* The native window keeps its role, and a layer surface its output; one that is created
\* has no role yet.
NativeKept(o, p) ==
    /\ NativeOK(p)
    /\ o.native # NoSurface =>
          /\ p.native # NoSurface
          /\ p.native.layer = o.native.layer
          /\ Layered(o) => p.native.output = o.native.output
    /\ o.native = NoSurface /\ p.native # NoSurface => ~p.native.layer

\* What most of the calls do to the window: they leave the life of the surface as it is,
\* keep its role and its output, and cache no region that the compositor does not have.
Calm(o, p) ==
    /\ Rec(p) /\ Life(p) = Life(o)
    /\ NativeKept(o, p)
    /\ Sure(o) => Sure(p)
    /\ o.locked = o.passthrough => p.locked = p.passthrough

\* Two calm calls in a row are calm.
LEMMA CalmTrans ==
    ASSUME NEW o, NEW p, NEW q, Calm(o, p), Calm(p, q)
    PROVE  Calm(o, q)
<1>1. p.kind = o.kind BY SameLife DEF Calm
<1> QED BY <1>1 DEF Calm, NativeKept, Layered

-------------------------------------------------------------------------------
(* Calm calls.                                                             *)

\* Asking for the native handle, which creates the window, is calm.
LEMMA HeldIsCalm ==
    ASSUME NEW o, Rec(o), NativeOK(o)
    PROVE  Calm(o, Held(o)) /\ Held(o).native # NoSurface /\ Aim(Held(o)) = Aim(o)
BY FieldNames, NoWindow DEF Calm, Held, NativeKept, Sure, Rec, NativeOK, Life, Layered, NativeFields, Aim

\* A surface may be moved along its output, and an ordinary window to another one.
LEMMA PlacedIsCalm ==
    ASSUME NEW o, Rec(o), NativeOK(o), o.native # NoSurface, NEW y, NEW output
    PROVE  /\ Calm(o, [o EXCEPT !.native.y = y])
           /\ ~Layered(o) => Calm(o, [o EXCEPT !.native.output = output])
           /\ ~Layered(o) => Calm(o, [o EXCEPT !.native.y = y, !.native.output = output])
<1> DEFINE p == [o EXCEPT !.native.y = y]
           q == [o EXCEPT !.native.output = output]
           r == [o EXCEPT !.native.y = y, !.native.output = output]
<1>1. Rec(p) /\ Rec(q) /\ Rec(r) BY DEF Rec
<1>2. Life(p) = Life(o) /\ Life(q) = Life(o) /\ Life(r) = Life(o) BY FieldNames DEF Life, Rec
<1>3. /\ p.native = [o.native EXCEPT !.y = y]
      /\ q.native = [o.native EXCEPT !.output = output]
      /\ r.native = [o.native EXCEPT !.y = y, !.output = output]
      /\ p.sure = o.sure /\ q.sure = o.sure /\ r.sure = o.sure
      /\ p.locked = o.locked /\ q.locked = o.locked /\ r.locked = o.locked
      /\ p.region = o.region /\ q.region = o.region /\ r.region = o.region
      /\ p.passthrough = o.passthrough /\ q.passthrough = o.passthrough /\ r.passthrough = o.passthrough
  BY FieldNames DEF Rec
<1> HIDE DEF p, q, r
<1>4. NativeKept(o, p) /\ (~Layered(o) => NativeKept(o, q) /\ NativeKept(o, r))
  BY <1>3, NoWindow DEF NativeKept, NativeOK, NativeFields
<1>5. Sure(o) => Sure(p) /\ Sure(q) /\ Sure(r)
  BY <1>3, NoWindow DEF Sure, NativeOK, NativeFields
<1>6. Calm(o, p) /\ (~Layered(o) => Calm(o, q) /\ Calm(o, r))
  BY <1>1, <1>2, <1>3, <1>4, <1>5 DEF Calm
<1> QED BY <1>6 DEF p, q, r

\* The toolkit's own move is calm.
LEMMA MoveWindowIsCalm ==
    ASSUME NEW o, Rec(o), NativeOK(o), NEW output, NEW y
    PROVE  Calm(o, MoveWindow(o, output, y)) /\ Aim(MoveWindow(o, output, y)) = Aim(o)
<1> DEFINE h == Held(o)
<1>1. Calm(o, h) /\ h.native # NoSurface /\ Aim(h) = Aim(o) BY HeldIsCalm
<1>2. Rec(h) /\ NativeOK(h) /\ h.kind = o.kind BY <1>1, SameLife DEF Calm, NativeKept
<1> HIDE DEF h
<1>3. Calm(o, o) BY DEF Calm, NativeKept
<1>4. o.kind = "window" => Calm(h, [h EXCEPT !.native.y = y, !.native.output = output])
  BY <1>1, <1>2, PlacedIsCalm DEF Layered
<1>5. Aim([h EXCEPT !.native.y = y, !.native.output = output]) = Aim(o)
  BY <1>1, <1>2, FieldNames DEF Rec, Aim
<1> QED BY <1>4, <1>5, <1>1, <1>3, CalmTrans DEF MoveWindow, h

\* A move through the adapter is calm, whether it is applied, fails or is refused.
LEMMA MoveIsCalm ==
    ASSUME NEW o, Rec(o), NativeOK(o), NEW output, NEW y
    PROVE  /\ Calm(o, MoveTo(o, output, y).o)
           /\ Aim(MoveTo(o, output, y).o) = Aim(o)
           /\ MoveTo(o, output, y).is \in {"applied", "failed", "rejected", "unsupported"}
           /\ ~o.shut /\ Positions(o) => MoveTo(o, output, y).is \in {"applied", "failed"}
           /\ DOMAIN MoveTo(o, output, y) = {"o", "is"}
<1> DEFINE h == Held(o)
<1>1. Calm(o, h) /\ h.native # NoSurface /\ Aim(h) = Aim(o) BY HeldIsCalm
<1>2. Rec(h) /\ NativeOK(h) /\ h.kind = o.kind BY <1>1, SameLife DEF Calm, NativeKept
<1> HIDE DEF h
<1>3. Calm(o, o) BY DEF Calm, NativeKept
<1>4. Calm(o, MoveWindow(o, output, y)) /\ Aim(MoveWindow(o, output, y)) = Aim(o)
  BY MoveWindowIsCalm
<1>5. Calm(o, SetAnchor(o, y)) /\ Aim(SetAnchor(o, y)) = Aim(o)
  <2>1. Calm(h, [h EXCEPT !.native.y = y]) /\ Aim([h EXCEPT !.native.y = y]) = Aim(o)
    BY <1>1, <1>2, PlacedIsCalm, FieldNames DEF Rec, Aim
  <2> QED BY <2>1, <1>1, CalmTrans DEF SetAnchor, h
<1>6. \A q : Rec(q) /\ NativeOK(q) => /\ Calm(q, [q EXCEPT !.at = y])
                                     /\ Aim([q EXCEPT !.at = y]) = Aim(q)
  BY FieldNames DEF Calm, NativeKept, Rec, Life, Sure, NativeOK, Aim
<1>7. /\ Calm(o, [SetAnchor(o, y) EXCEPT !.at = y])
      /\ Aim([SetAnchor(o, y) EXCEPT !.at = y]) = Aim(o)
  BY <1>5, <1>6, CalmTrans DEF Calm, NativeKept
<1> QED
  BY <1>1, <1>3, <1>4, <1>7 DEF MoveTo, LayerMove, WindowMove, Applied, Failed, Rejected, Unsupported, h,
     Positions, Capabilities, LayerCapabilities

\* Writing fields that no part of the invariant reads is calm.
LEMMA QuietIsCalm ==
    ASSUME NEW o, NativeOK(o), NEW p, Rec(p), Life(p) = Life(o), p.native = o.native,
           p.sure = o.sure, p.locked = o.locked, p.region = o.region,
           p.passthrough = o.passthrough
    PROVE  Calm(o, p)
BY DEF Calm, NativeKept, Sure, NativeOK

\* After a calm call the window is still typed, and of the same kind.
LEMMA CalmKeeps ==
    ASSUME NEW o, NEW p, Calm(o, p)
    PROVE  Rec(p) /\ NativeOK(p) /\ p.kind = o.kind /\ p.shut = o.shut /\ (Layered(p) <=> Layered(o))
BY SameLife DEF Calm, NativeKept, Layered

\* Doing nothing is calm.
LEMMA CalmRefl == ASSUME NEW o, Rec(o), NativeOK(o) PROVE Calm(o, o)
BY DEF Calm, NativeKept

\* A result of a port: the next state, and how the call ended.
Result(r) == DOMAIN r = {"o", "is"}

\* Submitting a region gives the surface that region or leaves it alone.
LEMMA SetInputDoes ==
    ASSUME NEW o, Rec(o), NativeOK(o), NEW region
    PROVE  LET r == SetInput(o, region) IN
           /\ Result(r)
           /\ r.is \in {"applied", "failed", "rejected"}
           /\ ~o.shut => r.is \in {"applied", "failed"}
           /\ r.is = "applied" => r.o.native # NoSurface /\ r.o.native.input = region
           /\ r.is # "applied" => Calm(o, r.o)
           /\ Rec(r.o) /\ Life(r.o) = Life(o) /\ NativeKept(o, r.o) /\ Aim(r.o) = Aim(o)
           /\ r.o.locked = o.locked /\ r.o.passthrough = o.passthrough
<1> DEFINE h == Held(o)
           p == [h EXCEPT !.native.input = region]
<1>1. Calm(o, h) /\ h.native # NoSurface /\ Aim(h) = Aim(o) BY HeldIsCalm
<1>2. Rec(h) /\ NativeOK(h) /\ Life(h) = Life(o) /\ NativeKept(o, h) BY <1>1 DEF Calm, NativeKept
<1>3. h.locked = o.locked /\ h.passthrough = o.passthrough BY FieldNames DEF Rec, Held
<1> HIDE DEF h
<1>4. Rec(p) /\ Life(p) = Life(h) /\ Aim(p) = Aim(h)
  BY <1>2, FieldNames DEF Rec, Life, Aim
<1>5. p.native = [h.native EXCEPT !.input = region] /\ p.locked = h.locked /\ p.passthrough = h.passthrough
  BY <1>2, FieldNames DEF Rec
<1> HIDE DEF p
<1>6. p.native # NoSurface /\ p.native.input = region /\ NativeKept(o, p)
  BY <1>1, <1>2, <1>5, NoWindow DEF NativeKept, NativeOK, NativeFields
<1>7. SetInput(o, region) \in {Rejected(o), Failed(h), Applied(p)}
  BY DEF SetInput, LayerInput, WindowInput, SetInputRect, h, p
<1>8. ~o.shut => SetInput(o, region) \in {Failed(h), Applied(p)}
  BY DEF SetInput, LayerInput, WindowInput, SetInputRect, h, p
<1>9. Calm(o, o) /\ NativeKept(o, o) BY CalmRefl DEF Calm
<1> DEFINE r == SetInput(o, region)
<1>10. r = Rejected(o) \/ r = Failed(h) \/ r = Applied(p) BY <1>7
<1>11. ~o.shut => r = Failed(h) \/ r = Applied(p) BY <1>8
<1> HIDE DEF r
<1>12. /\ Result(r)
       /\ r.is \in {"applied", "failed", "rejected"}
       /\ ~o.shut => r.is \in {"applied", "failed"}
       /\ r.o = o \/ r.o = h \/ r.o = p
       /\ r.is = "applied" => r.o = p
       /\ r.is # "applied" => r.o = o \/ r.o = h
  BY <1>10, <1>11 DEF Rejected, Failed, Applied, Result
<1>13. /\ r.is = "applied" => r.o.native # NoSurface /\ r.o.native.input = region
       /\ r.is # "applied" => Calm(o, r.o)
  BY <1>1, <1>6, <1>9, <1>12
<1>14. /\ Rec(r.o) /\ Life(r.o) = Life(o) /\ NativeKept(o, r.o) /\ Aim(r.o) = Aim(o)
       /\ r.o.locked = o.locked /\ r.o.passthrough = o.passthrough
  BY <1>1, <1>2, <1>3, <1>4, <1>5, <1>6, <1>9, <1>12
<1> QED
  BY <1>12, <1>13, <1>14 DEF r

\* The input region is applied calmly: what is cached is what was accepted.
LEMMA RegionIsCalm ==
    ASSUME NEW o, Rec(o), NativeOK(o)
    PROVE  LET r == ApplyInputRegion(o) IN
           /\ Result(r)
           /\ r.is \in {"applied", "failed", "rejected"}
           /\ ~o.shut => r.is \in {"applied", "failed"}
           /\ Calm(o, r.o) /\ Aim(r.o) = Aim(o)
           /\ r.o.locked = o.locked /\ r.o.passthrough = o.passthrough
<1> DEFINE region == WantedRegion(o)
           r == SetInput(o, region)
           k == [r EXCEPT !.o.region = region, !.o.sure = TRUE]
<1>1. region[1] = IF o.locked THEN "lock" ELSE "panel" BY DEF WantedRegion
<1> HIDE DEF region
<1>2. /\ Result(r)
      /\ r.is \in {"applied", "failed", "rejected"}
      /\ ~o.shut => r.is \in {"applied", "failed"}
      /\ r.is = "applied" => r.o.native # NoSurface /\ r.o.native.input = region
      /\ r.is # "applied" => Calm(o, r.o)
      /\ Rec(r.o) /\ Life(r.o) = Life(o) /\ NativeKept(o, r.o) /\ Aim(r.o) = Aim(o)
      /\ r.o.locked = o.locked /\ r.o.passthrough = o.passthrough
  BY SetInputDoes
<1> HIDE DEF r
<1>3. /\ Result(k) /\ k.is = r.is
      /\ k.o = [r.o EXCEPT !.region = region, !.sure = TRUE]
  BY <1>2 DEF Result
<1> HIDE DEF k
<1>4. /\ Rec(k.o) /\ Life(k.o) = Life(o) /\ k.o.native = r.o.native /\ Aim(k.o) = Aim(o)
      /\ k.o.sure = TRUE /\ k.o.region = region /\ k.o.locked = o.locked
      /\ k.o.passthrough = o.passthrough
  BY <1>2, <1>3, FieldNames DEF Rec, Life, Aim
<1>5. r.is = "applied" => Calm(o, k.o)
  BY <1>1, <1>2, <1>4 DEF Calm, NativeKept, Sure, NativeOK
<1> DEFINE a == ApplyInputRegion(o)
<1>6. \/ a = Applied(o)
      \/ r.is # "applied" /\ a = r
      \/ r.is = "applied" /\ a = k
  BY DEF ApplyInputRegion, Succeeded, region, r, k
<1>7. Calm(o, o) BY CalmRefl
<1> HIDE DEF a
<1>8. CASE a = Applied(o) BY <1>7, <1>8 DEF Applied, Result, a
<1>9. CASE r.is # "applied" /\ a = r BY <1>2, <1>9 DEF a
<1>10. CASE r.is = "applied" /\ a = k BY <1>2, <1>3, <1>4, <1>5, <1>10 DEF a
<1> QED
  BY <1>6, <1>8, <1>9, <1>10

\* A new lock state is applied as calmly, and the cache is dropped when it changes.
LEMMA ModeIsCalm ==
    ASSUME NEW o, Rec(o), NativeOK(o), NEW locked
    PROVE  LET r == SetInputMode(o, locked)
           IN  /\ Rec(r.o) /\ Life(r.o) = Life(o) /\ NativeKept(o, r.o)
               /\ Sure(o) => Sure(r.o)
               /\ r.o.locked = locked /\ r.o.passthrough = o.passthrough
               /\ Aim(r.o) = Aim(o)
<1> DEFINE p == [o EXCEPT !.sure = @ /\ locked = o.locked, !.locked = locked]
<1>1. /\ Rec(p) /\ Life(p) = Life(o) /\ p.native = o.native /\ Aim(p) = Aim(o)
      /\ p.locked = locked /\ p.passthrough = o.passthrough /\ p.region = o.region
      /\ p.sure => o.sure /\ locked = o.locked
  BY FieldNames DEF Rec, Life, Aim
<1> HIDE DEF p
<1>2. Sure(o) => Sure(p) BY <1>1 DEF Sure
<1>3. NativeOK(p) BY <1>1 DEF NativeOK
<1>4. Calm(p, ApplyInputRegion(p).o) /\ Aim(ApplyInputRegion(p).o) = Aim(p)
      /\ ApplyInputRegion(p).o.locked = p.locked /\ ApplyInputRegion(p).o.passthrough = p.passthrough
  BY <1>1, <1>3, RegionIsCalm
<1>5. p.kind = o.kind BY <1>1, SameLife
<1> QED
  BY <1>1, <1>2, <1>4, <1>5 DEF SetInputMode, p, Calm, NativeKept, Layered

\* Setting the blur is calm.
LEMMA BlurIsCalm ==
    ASSUME NEW o, Rec(o), NativeOK(o)
    PROVE  LET r == SetBlur(o) IN
           /\ Result(r)
           /\ r.is \in {"applied", "failed", "rejected"}
           /\ ~o.shut => r.is \in {"applied", "failed"}
           /\ Calm(o, r.o) /\ Aim(r.o) = Aim(o)
<1>1. Calm(o, Held(o)) /\ Aim(Held(o)) = Aim(o) BY HeldIsCalm
<1>2. Calm(o, o) BY CalmRefl
<1> QED
  BY <1>1, <1>2 DEF SetBlur, LayerBlur, WindowBlur, Applied, Failed, Rejected, Result

-------------------------------------------------------------------------------
(* Outputs.                                                                *)

\* Of some numbers one is the least.
LEMMA LeastNatural ==
    ASSUME NEW S \in SUBSET Nat, S # {}
    PROVE  \E m \in S : \A n \in S : m <= n
<1>1. PICK m \in S : \A n \in S : ~ (<<n, m>> \in OpToRel(<, Nat))
  BY NatLessThanWellFounded, WFMin
<1>2. \A n \in S : ~ (n < m)
  BY <1>1 DEF OpToRel
<1>3. QED BY <1>2

\* The first of some outputs is one of them.
LEMMA FirstIsOne ==
    ASSUME NEW S \in SUBSET Outputs, S # {}
    PROVE  FirstOf(S) \in S
<1>1. DOMAIN Displays = 1 .. Len(Displays) /\ Len(Displays) \in Nat
  BY OutputsAssumption
<1>2. PICK k \in 1 .. Len(Displays) : Displays[k] \in S
  BY <1>1 DEF Outputs
<1>3. \E i \in 1 .. Len(Displays) : Displays[i] \in S /\ \A j \in 1 .. i - 1 : Displays[j] \notin S
  <2> DEFINE M == {i \in 1 .. Len(Displays) : Displays[i] \in S}
  <2>1. M \in SUBSET Nat /\ M # {} BY <1>1, <1>2
  <2>2. PICK m \in M : \A j \in M : m <= j BY <2>1, LeastNatural
  <2>3. \A j \in 1 .. m - 1 : j \in 1 .. Len(Displays) /\ ~(m <= j) BY <2>2, <1>1
  <2> QED BY <2>2, <2>3
<1> QED
  BY <1>1, <1>3 DEF FirstOf

\* The output that is aimed at is connected, and there is always one while an output is.
LEMMA TargetIsThere ==
    ASSUME NEW o, o.connected \in SUBSET Outputs, NEW used
    PROVE  /\ TargetScreen(o, used) \in o.connected \cup {NoOutput}
           /\ TargetScreen(o, used) = NoOutput => o.connected = {}
           /\ Target(o) \in o.connected \cup {NoOutput}
           /\ Target(o) = NoOutput => o.connected = {}
           /\ Preferred(o) \in o.connected \cup {NoOutput}
           /\ Preferred(o) = NoOutput => o.connected = {}
<1>1. NoOutput \notin o.connected BY OutputsAssumption
<1>2. Configured(o) \in o.connected \cup {NoOutput} BY DEF Configured
<1>3. FirstOf(o.connected) \in o.connected \cup {NoOutput} BY FirstIsOne DEF FirstOf
<1>4. FirstOf(o.connected) = NoOutput => o.connected = {} BY <1>1, FirstIsOne
<1>5. \A u : /\ TargetScreen(o, u) \in o.connected \cup {NoOutput}
             /\ TargetScreen(o, u) = NoOutput => o.connected = {}
  BY <1>1, <1>2, <1>3, <1>4 DEF TargetScreen
<1> QED
  BY <1>1, <1>2, <1>3, <1>4, <1>5 DEF Target, Preferred

-------------------------------------------------------------------------------
(* Calm handlers.                                                          *)

\* Choosing the output to work on, and binding the widget to one, is calm.
LEMMA AimedIsCalm ==
    ASSUME NEW o, Rec(o), NativeOK(o), NEW output
    PROVE  /\ Calm(o, Aimed(o)) /\ Aim(Aimed(o)) = Aim(o) /\ Aimed(o).selected = Target(o)
           /\ Calm(o, Bound(o, output))
           /\ Bound(o, output).chosen = o.chosen /\ Bound(o, output).config = o.config
           /\ output # NoOutput => Bound(o, output).screen = output
<1> DEFINE s == Target(o)
           p == [o EXCEPT !.selected = s]
           q == [o EXCEPT !.screen = output]
<1> HIDE DEF s
<1>1. /\ Rec(p) /\ Rec(q) /\ Life(p) = Life(o) /\ Life(q) = Life(o) /\ Aim(p) = Aim(o)
      /\ q.chosen = o.chosen /\ q.config = o.config /\ q.screen = output /\ p.selected = s
      /\ p.native = o.native /\ p.sure = o.sure /\ p.locked = o.locked
      /\ p.region = o.region /\ p.passthrough = o.passthrough
      /\ q.native = o.native /\ q.sure = o.sure /\ q.locked = o.locked
      /\ q.region = o.region /\ q.passthrough = o.passthrough
  BY FieldNames DEF Rec, Life, Aim
<1> HIDE DEF p, q
<1>2. Calm(o, p) /\ Calm(o, q) /\ Calm(o, o) BY <1>1, QuietIsCalm, CalmRefl
<1> QED BY <1>1, <1>2 DEF Aimed, Bound, p, q, s

\* The geometry of the window is applied calmly, on the output that is aimed at.
LEMMA WindowGeometryIsCalm ==
    ASSUME NEW o, Rec(o), NativeOK(o), NEW reset
    PROVE  LET p == ApplyWindowGeometry(o, reset) IN
           /\ Calm(o, p)
           /\ p.chosen = o.chosen /\ p.config = o.config
           /\ p.screen = IF Target(o) = NoOutput THEN o.screen ELSE Target(o)
<1> DEFINE a == Aimed(o)
           b == Bound(a, a.selected)
           s == [b EXCEPT !.height = a.content,
                          !.resize = @ \/ a.height # a.content,
                          !.layer = IF reset THEN LayerPlace(a, a.selected) ELSE @]
           m == MoveTo(s, s.selected, s.layer)
<1>1. Calm(o, a) /\ Aim(a) = Aim(o) /\ a.selected = Target(o) BY AimedIsCalm
<1>2. Rec(a) /\ NativeOK(a) BY <1>1, CalmKeeps
<1> HIDE DEF a
<1>3. /\ Calm(a, b) /\ b.chosen = a.chosen /\ b.config = a.config
      /\ a.selected # NoOutput => b.screen = a.selected
  BY <1>2, AimedIsCalm
<1>4. Rec(b) /\ NativeOK(b) BY <1>3, CalmKeeps
<1> HIDE DEF b
<1>5. /\ Rec(s) /\ Life(s) = Life(b) /\ Aim(s) = Aim(b)
      /\ s.native = b.native /\ s.sure = b.sure /\ s.locked = b.locked
      /\ s.region = b.region /\ s.passthrough = b.passthrough
  <2> DEFINE l == IF reset THEN LayerPlace(a, a.selected) ELSE b.layer
             w == b.resize \/ a.height # a.content
  <2> HIDE DEF l, w
  <2>1. s = [b EXCEPT !.height = a.content, !.resize = w, !.layer = l]
    BY <1>4, FieldNames DEF l, w, Rec
  <2> HIDE DEF s
  <2> QED BY <2>1, <1>4, FieldNames DEF Rec, Life, Aim
<1> HIDE DEF s
<1>6. Calm(b, s) BY <1>4, <1>5, QuietIsCalm
<1>7. Rec(s) /\ NativeOK(s) BY <1>6, CalmKeeps
<1>8. Calm(s, m.o) /\ Aim(m.o) = Aim(s) BY <1>7, MoveIsCalm
<1> HIDE DEF m
<1>9. Calm(o, s) /\ Calm(o, m.o) BY <1>1, <1>3, <1>6, <1>8, CalmTrans
<1>10. ApplyWindowGeometry(o, reset) = IF a.selected = NoOutput THEN a
                                       ELSE IF s.kind # "window" THEN s ELSE m.o
  BY DEF ApplyWindowGeometry, a, b, s, m
<1>11. /\ a.chosen = o.chosen /\ a.config = o.config /\ a.screen = o.screen
       /\ s.chosen = b.chosen /\ s.config = b.config /\ s.screen = b.screen
       /\ m.o.chosen = s.chosen /\ m.o.config = s.config /\ m.o.screen = s.screen
  BY <1>1, <1>5, <1>8, SameAim
<1> QED BY <1>1, <1>3, <1>9, <1>10, <1>11

\* So is a new height of the content, also one that is rolled back.
LEMMA ResizeIsCalm ==
    ASSUME NEW o, Rec(o), NativeOK(o)
    PROVE  Calm(o, ResizeContent(o))
<1> DEFINE y == IF o.config.top THEN o.layer ELSE o.layer + o.height - o.content
           a == Aimed(o)
           c == [a EXCEPT !.rejected = 0]
           h == [c EXCEPT !.height = c.content]
           m == MoveTo(h, c.selected, y)
           t == [m EXCEPT !.o.layer = y]
           p == [m.o EXCEPT !.layer = y]
           q == [m.o EXCEPT !.rejected = o.content, !.height = o.height]
<1> HIDE DEF y
<1>1. Calm(o, a) BY AimedIsCalm
<1>2. Rec(a) /\ NativeOK(a) BY <1>1, CalmKeeps
<1> HIDE DEF a
<1>3. /\ Rec(c) /\ Life(c) = Life(a) /\ c.native = a.native /\ c.sure = a.sure
      /\ c.locked = a.locked /\ c.region = a.region /\ c.passthrough = a.passthrough
  BY <1>2, FieldNames DEF Rec, Life
<1>4. Calm(a, c) /\ NativeOK(c) BY <1>2, <1>3, QuietIsCalm DEF NativeOK
<1> HIDE DEF c
<1>5. /\ Rec(h) /\ Life(h) = Life(c) /\ h.native = c.native /\ h.sure = c.sure
      /\ h.locked = c.locked /\ h.region = c.region /\ h.passthrough = c.passthrough
  BY <1>3, FieldNames DEF Rec, Life
<1>6. Calm(c, h) /\ NativeOK(h) BY <1>4, <1>5, QuietIsCalm DEF NativeOK
<1> HIDE DEF h
<1>7. Calm(h, m.o) BY <1>5, <1>6, MoveIsCalm
<1>8. Rec(m.o) /\ NativeOK(m.o) BY <1>7, CalmKeeps
<1> HIDE DEF m
<1>9. /\ Rec(p) /\ Life(p) = Life(m.o) /\ p.native = m.o.native /\ p.sure = m.o.sure
      /\ p.locked = m.o.locked /\ p.region = m.o.region /\ p.passthrough = m.o.passthrough
      /\ Rec(q) /\ Life(q) = Life(m.o) /\ q.native = m.o.native /\ q.sure = m.o.sure
      /\ q.locked = m.o.locked /\ q.region = m.o.region /\ q.passthrough = m.o.passthrough
  BY <1>8, FieldNames DEF Rec, Life
<1>10. Calm(m.o, p) /\ Calm(m.o, q) BY <1>8, <1>9, QuietIsCalm
<1> HIDE DEF p, q
<1>11. Calm(o, c) /\ Calm(o, h) BY <1>1, <1>4, <1>6, CalmTrans
<1>12. Calm(o, p) /\ Calm(o, q) BY <1>7, <1>10, <1>11, CalmTrans
<1>13. ResizeContent(o) \in {a, c, h, p, q}
  BY DEF ResizeContent, a, c, h, m, p, q, y
<1> QED BY <1>1, <1>11, <1>12, <1>13

\* The output that a saved place is on remains the one in use.
Settled(o) ==
    /\ o.chosen # NoOutput /\ o.config.screen \in o.connected
    /\ o.chosen \in o.connected => o.chosen = o.config.screen
    /\ o.screen = o.config.screen

\* So is a configuration, after which the window shows the lock state that is configured;
\* a saved place does not move the widget to another output.
LEMMA ConfigIsCalm ==
    ASSUME NEW o, Rec(o), NativeOK(o), o.connected \in SUBSET Outputs
    PROVE  LET p == ApplyConfig(o) IN
           /\ Calm(o, p)
           /\ ~Ending(o) => p.locked = p.passthrough
           /\ Settled(o) => p.screen = o.screen
<1> DEFINE r == [o EXCEPT !.rejected = 0]
           u == UpdateGeometry(r)
           c == o.config.passthrough
           l == SetInputMode(u, c).o
           output == IF Configured(o) # NoOutput THEN Configured(o)
                     ELSE IF o.chosen # NoOutput THEN o.chosen
                     ELSE o.screen
           a == [l EXCEPT !.passthrough = c, !.selected = output]
           w == ApplyWindowGeometry(a, TRUE)
           p == [w EXCEPT !.resize = TRUE]
<1> HIDE DEF c, output
<1>1. /\ Rec(u) /\ Life(u) = Life(o) /\ u.native = o.native /\ u.sure = o.sure
      /\ u.locked = o.locked /\ u.region = o.region /\ u.passthrough = o.passthrough
      /\ Aim(u) = Aim(o)
  <2>1. u = [r EXCEPT !.home = r.config.screen, !.homeMargin = NoMargin] BY DEF UpdateGeometry
  <2> HIDE DEF u
  <2> QED BY <2>1, FieldNames DEF Rec, Life, Aim
<1>2. Calm(o, u) /\ NativeOK(u) BY <1>1, QuietIsCalm DEF NativeOK
<1> HIDE DEF u
<1>3. /\ Rec(l) /\ Life(l) = Life(u) /\ NativeKept(u, l) /\ (Sure(u) => Sure(l))
      /\ l.locked = c /\ Aim(l) = Aim(u)
  BY <1>1, <1>2, ModeIsCalm
<1> HIDE DEF l
<1>4. /\ Rec(a) /\ Life(a) = Life(l) /\ a.native = l.native /\ a.sure = l.sure
      /\ a.locked = l.locked /\ a.region = l.region /\ a.passthrough = c /\ Aim(a) = Aim(l)
  BY <1>3, FieldNames DEF Rec, Life, Aim
<1> HIDE DEF a
<1>5. Calm(o, a) /\ NativeOK(a)
  <2>1. u.kind = o.kind BY <1>1, SameLife
  <2> QED BY <1>1, <1>2, <1>3, <1>4, <2>1 DEF Calm, NativeKept, NativeOK, Sure, Layered
<1>6. /\ Calm(a, w)
      /\ w.screen = IF Target(a) = NoOutput THEN a.screen ELSE Target(a)
  BY <1>4, <1>5, WindowGeometryIsCalm
<1>7. Rec(w) /\ NativeOK(w) BY <1>6, CalmKeeps
<1> HIDE DEF w
<1>8. /\ Rec(p) /\ Life(p) = Life(w) /\ p.native = w.native /\ p.sure = w.sure
      /\ p.locked = w.locked /\ p.region = w.region /\ p.passthrough = w.passthrough
      /\ p.screen = w.screen
  BY <1>7, FieldNames DEF Rec, Life
<1> HIDE DEF p
<1>9. Calm(w, p) BY <1>7, <1>8, QuietIsCalm
<1>10. Calm(o, p) /\ Calm(o, o) BY <1>5, <1>6, <1>9, CalmTrans, CalmRefl
<1>11. p.locked = p.passthrough BY <1>3, <1>4, <1>6, <1>9 DEF Calm
<1>12. Settled(o) => p.screen = o.screen
  <2>1. a.chosen = o.chosen /\ a.config = o.config /\ a.screen = o.screen
    BY <1>1, <1>3, <1>4, SameAim
  <2>2. a.connected = o.connected BY <1>1, <1>3, <1>4, SameLife
  <2>3. Settled(o) => Target(a) \in {NoOutput, o.config.screen}
    BY <2>1, <2>2, OutputsAssumption DEF Settled, Target, TargetScreen, Configured
  <2> QED BY <1>6, <1>8, <2>1, <2>3 DEF Settled
<1>13. ApplyConfig(o) = IF Ending(o) THEN o ELSE p
  BY DEF ApplyConfig, p, w, a, l, u, c, output
<1> QED BY <1>10, <1>11, <1>12, <1>13

\* So is the place of a drag that is saved.
LEMMA SaveIsCalm ==
    ASSUME NEW o, Rec(o), NativeOK(o), o.connected \in SUBSET Outputs, NEW commit
    PROVE  LET p == Save(o, commit) IN
           /\ Calm(o, p)
           /\ ~Ending(o) => p.locked = p.passthrough
           /\ /\ "screen" \in DOMAIN o.config /\ commit.screen \in o.connected
              /\ o.chosen # NoOutput /\ o.screen = commit.screen
              /\ o.chosen \in o.connected => o.chosen = commit.screen
              => p.screen = o.screen
<1> DEFINE s == [o EXCEPT !.config.margin = commit.margin, !.config.screen = commit.screen]
<1>1. /\ Rec(s) /\ Life(s) = Life(o) /\ s.native = o.native /\ s.sure = o.sure
      /\ s.locked = o.locked /\ s.region = o.region /\ s.passthrough = o.passthrough
      /\ s.chosen = o.chosen /\ s.screen = o.screen
      /\ "screen" \in DOMAIN o.config => s.config.screen = commit.screen
  BY FieldNames DEF Rec, Life
<1> HIDE DEF s
<1>2. Calm(o, s) /\ NativeOK(s) BY <1>1, QuietIsCalm DEF NativeOK
<1>3. s.connected = o.connected /\ (Ending(s) <=> Ending(o)) BY <1>1, SameLife DEF Ending
<1>4. /\ Calm(s, ApplyConfig(s))
      /\ ~Ending(s) => ApplyConfig(s).locked = ApplyConfig(s).passthrough
      /\ Settled(s) => ApplyConfig(s).screen = s.screen
  BY <1>1, <1>2, <1>3, ConfigIsCalm
<1>5. Calm(o, ApplyConfig(s)) BY <1>2, <1>4, CalmTrans
<1>6. Save(o, commit) = ApplyConfig(s) BY DEF Save, s
<1> QED BY <1>1, <1>3, <1>4, <1>5, <1>6 DEF Settled

\* So is recording the place a drag has committed.
LEMMA CommitIsCalm ==
    ASSUME NEW o, Rec(o), NativeOK(o), NEW commit
    PROVE  LET p == CommitPosition(o, commit) IN
           Calm(o, p) /\ p.screen = o.screen /\ p.config = o.config /\ p.chosen = commit.object
<1> DEFINE p == CommitPosition(o, commit)
<1>1. p = [[o EXCEPT !.home = commit.screen, !.homeMargin = commit.margin] EXCEPT
             !.layer = commit.y, !.selected = commit.object, !.chosen = commit.object]
  BY DEF CommitPosition, RecordCommit
<1> HIDE DEF p
<1>2. /\ Rec(p) /\ Life(p) = Life(o) /\ p.native = o.native /\ p.sure = o.sure
      /\ p.locked = o.locked /\ p.region = o.region /\ p.passthrough = o.passthrough
      /\ p.screen = o.screen /\ p.config = o.config /\ p.chosen = commit.object
  BY <1>1, FieldNames DEF Rec, Life
<1>3. Calm(o, p) BY <1>2, QuietIsCalm
<1> QED BY <1>2, <1>3 DEF p

-------------------------------------------------------------------------------
(* Promotion, release, showing.                                            *)

\* What promotion and release leave as it is.
Mind(o) ==
    <<o.kind, o.state, o.active, o.pending, o.free, o.retry, o.closed, o.closing, o.begun,
      o.connected, o.shut, o.placing, o.soon, o.later, o.dragging, DOMAIN o.config>>

\* Two windows with the same mind agree on each part of it.
LEMMA SameMind ==
    ASSUME NEW o, NEW p, Mind(p) = Mind(o)
    PROVE  /\ p.kind = o.kind /\ p.state = o.state /\ p.active = o.active
           /\ p.pending = o.pending /\ p.free = o.free /\ p.retry = o.retry
           /\ p.closed = o.closed /\ p.closing = o.closing /\ p.begun = o.begun
           /\ p.connected = o.connected /\ p.shut = o.shut /\ p.placing = o.placing
           /\ p.soon = o.soon /\ p.later = o.later /\ p.dragging = o.dragging
           /\ DOMAIN p.config = DOMAIN o.config
BY DEF Mind

\* The mind is the life but for what is shown and released.
LEMMA LifeIsMind ==
    ASSUME NEW o, NEW p
    PROVE  Life(p) = Life(o) <=> Mind(p) = Mind(o) /\ p.visible = o.visible /\ p.released = o.released
BY DEF Mind, Life

\* A promotion is applied or, on Layer Shell only, fails calmly.  It gives the layer's role
\* to a window that is not shown yet, and to no other.
LEMMA PromoteDoes ==
    ASSUME NEW o, Rec(o), NativeOK(o), ~o.shut
    PROVE  LET r == Promote(o) IN
           /\ Result(r) /\ r.is \in {"applied", "failed"}
           /\ r.is = "failed" => Layered(o) /\ Calm(o, r.o)
           /\ r.is = "applied" => ~r.o.released
           /\ Rec(r.o) /\ NativeOK(r.o) /\ Mind(r.o) = Mind(o) /\ r.o.visible = o.visible
           /\ Aim(r.o) = Aim(o) /\ r.o.locked = o.locked /\ r.o.passthrough = o.passthrough
           /\ Sure(o) => Sure(r.o)
           /\ Layered(o) => r.o.native # NoSurface
           /\ o.native # NoSurface =>
                 /\ r.o.native # NoSurface /\ r.o.native.output = o.native.output
                 /\ o.visible => (r.o.native.layer <=> o.native.layer)
<1> DEFINE h == Held(o)
           b == h.native.layer \/ ~o.visible
           m == [h EXCEPT !.native.layer = b]
           p == [m EXCEPT !.released = FALSE]
           w == [o EXCEPT !.released = FALSE]
<1>1. Calm(o, h) /\ h.native # NoSurface /\ Aim(h) = Aim(o) BY HeldIsCalm
<1>2. Rec(h) /\ NativeOK(h) /\ Life(h) = Life(o) BY <1>1 DEF Calm, NativeKept
<1>3. /\ h.locked = o.locked /\ h.passthrough = o.passthrough
      /\ o.native # NoSurface => h = o
  BY FieldNames DEF Rec, Held
<1> HIDE DEF h, b
<1>4. /\ Rec(p) /\ Mind(p) = Mind(h) /\ Aim(p) = Aim(h) /\ p.visible = h.visible
      /\ p.locked = h.locked /\ p.passthrough = h.passthrough /\ p.sure = h.sure
      /\ p.region = h.region /\ p.native = [h.native EXCEPT !.layer = b] /\ ~p.released
  BY <1>2, FieldNames DEF Rec, Mind, Aim
<1>5. /\ Rec(w) /\ Mind(w) = Mind(o) /\ Aim(w) = Aim(o) /\ w.visible = o.visible
      /\ w.locked = o.locked /\ w.passthrough = o.passthrough /\ w.sure = o.sure
      /\ w.region = o.region /\ w.native = o.native /\ ~w.released
  BY FieldNames DEF Rec, Mind, Aim
<1> HIDE DEF p, w
<1>6. p.native # NoSurface /\ NativeOK(p) /\ p.native.output = h.native.output
      /\ p.native.layer = b /\ p.native.input = h.native.input
  BY <1>1, <1>2, <1>4, NoWindow DEF NativeOK, NativeFields
<1>7. (Sure(o) => Sure(p)) /\ (Sure(o) => Sure(w))
  BY <1>1, <1>4, <1>5, <1>6 DEF Calm, Sure
<1>8. h.visible = o.visible /\ Mind(h) = Mind(o) BY <1>2, LifeIsMind
<1>9. o.native # NoSurface /\ o.visible => (p.native.layer <=> o.native.layer)
  BY <1>1, <1>6 DEF b, Calm, NativeKept
<1> DEFINE r == Promote(o)
<1>10. \/ Layered(o) /\ (r = Failed(h) \/ r = Applied(p))
       \/ ~Layered(o) /\ r = Applied(w)
  BY DEF Promote, LayerActivate, WindowActivate, MakeOverlay, h, b, p, w
<1> HIDE DEF r
<1>11. CASE Layered(o) /\ r = Failed(h)
  BY <1>1, <1>2, <1>3, <1>8, <1>11 DEF Failed, Result, r, Calm
<1>12. CASE Layered(o) /\ r = Applied(p)
  <2>1. /\ Result(r) /\ r.is = "applied" /\ r.o = p BY <1>12 DEF Applied, Result
  <2>2. /\ Mind(p) = Mind(o) /\ p.visible = o.visible /\ Aim(p) = Aim(o)
        /\ p.locked = o.locked /\ p.passthrough = o.passthrough
    BY <1>1, <1>3, <1>4, <1>8
  <2>3. o.native # NoSurface => p.native.output = o.native.output BY <1>3, <1>6
  <2> QED BY <2>1, <2>2, <2>3, <1>4, <1>6, <1>7, <1>9, <1>12 DEF r
<1>13. CASE ~Layered(o) /\ r = Applied(w)
  BY <1>5, <1>7, <1>13 DEF Applied, Result, r, NativeOK
<1> QED BY <1>10, <1>11, <1>12, <1>13



\* What a release leaves as it is.
Like(o, p) ==
    /\ Rec(p) /\ NativeOK(p) /\ Mind(p) = Mind(o) /\ Aim(p) = Aim(o)
    /\ p.locked = o.locked /\ p.passthrough = o.passthrough

\* Changing the region of a surface that is released changes nothing else.
LEMMA InputIsLike ==
    ASSUME NEW o, Rec(o), NativeOK(o), NEW input
    PROVE  LET p == [Held(o) EXCEPT !.native.input = input]
           IN  Like(o, p) /\ p.visible = o.visible /\ p.released = o.released
<1> DEFINE h == Held(o)
           p == [h EXCEPT !.native.input = input]
<1>1. Calm(o, h) /\ h.native # NoSurface /\ Aim(h) = Aim(o) BY HeldIsCalm
<1>2. /\ Rec(h) /\ NativeOK(h) /\ Mind(h) = Mind(o)
      /\ h.visible = o.visible /\ h.released = o.released
  BY <1>1, LifeIsMind DEF Calm, NativeKept
<1>3. h.locked = o.locked /\ h.passthrough = o.passthrough BY FieldNames DEF Rec, Held
<1> HIDE DEF h
<1>4. /\ Rec(p) /\ Mind(p) = Mind(h) /\ Aim(p) = Aim(h) /\ p.locked = h.locked
      /\ p.passthrough = h.passthrough /\ p.native = [h.native EXCEPT !.input = input]
      /\ p.visible = h.visible /\ p.released = h.released
  BY <1>2, FieldNames DEF Rec, Mind, Aim
<1> HIDE DEF p
<1>5. NativeOK(p) BY <1>1, <1>2, <1>4 DEF NativeOK
<1>6. Like(o, p) /\ p.visible = o.visible /\ p.released = o.released
  BY <1>1, <1>2, <1>3, <1>4, <1>5 DEF Like
<1> QED BY <1>6 DEF p, h

\* Hiding and destroying the native window changes nothing else.
LEMMA DestroyedIsLike ==
    ASSUME NEW o, Rec(o), NativeOK(o), NEW clean
    PROVE  LET p == [Destroyed(Hidden(o)) EXCEPT !.released = clean]
           IN  Like(o, p) /\ ~p.visible /\ p.released = clean
<1> DEFINE h == Hidden(o)
           d == Destroyed(h)
           p == [d EXCEPT !.released = clean]
<1>1. Like(o, h) /\ ~h.visible
  BY FieldNames DEF Hidden, Like, Rec, NativeOK, Mind, Aim
<1> HIDE DEF h
<1>2. Like(o, d) /\ ~d.visible
  BY <1>1, FieldNames DEF Destroyed, Like, Rec, NativeOK, Mind, Aim
<1> HIDE DEF d
<1>3. Like(o, p) /\ ~p.visible /\ p.released = clean
  BY <1>2, FieldNames DEF Like, Rec, NativeOK, Mind, Aim
<1> QED BY <1>3 DEF p, d, h

\* A release hides the window, whether each of its steps succeeds or not; the release of an
\* ordinary window stops at the first step that fails, and then it counts as not released.
LEMMA ReleaseDoes ==
    ASSUME NEW o, Rec(o), NativeOK(o)
    PROVE  LET r == ReleaseSurface(o) IN
           /\ Result(r) /\ r.is \in {"applied", "failed"}
           /\ Like(o, r.o)
           /\ o.released => r.is = "applied" /\ r.o = o
           /\ ~o.released /\ (r.is = "applied" \/ Layered(o)) => ~r.o.visible
           /\ ~o.released /\ r.is # "applied" => ~r.o.released
           /\ ~o.visible => ~r.o.visible
<1> DEFINE h == Held(o)
           u == [h EXCEPT !.native.input = <<"all">>]
           s == Silenced(o)
           clean == BlurReleased(o) /\ {"input", "destroy"} \cap o.bad = {}
           tidy == "destroy" \notin o.bad
           f == [h EXCEPT !.released = FALSE]
           p == [Destroyed(Hidden(s)) EXCEPT !.released = clean]
           q == [Destroyed(Hidden(u)) EXCEPT !.released = tidy]
           r == ReleaseSurface(o)
<1>1. Calm(o, h) /\ Aim(h) = Aim(o) BY HeldIsCalm
<1>2. h.locked = o.locked /\ h.passthrough = o.passthrough BY FieldNames DEF Rec, Held
<1>3. Like(o, h) /\ h.visible = o.visible
  BY <1>1, <1>2, LifeIsMind DEF Calm, NativeKept, Like
<1>4. Like(o, u) BY InputIsLike
<1>5. Like(o, s) BY <1>3, InputIsLike DEF Silenced, PassedThrough
<1> HIDE DEF h, u, s, clean, tidy
<1>6. Like(o, f) /\ f.visible = o.visible /\ ~f.released
  BY <1>3, FieldNames DEF Like, Rec, NativeOK, Mind, Aim
<1>7. Like(o, p) /\ ~p.visible /\ p.released = clean
  <2>1. Like(s, p) /\ ~p.visible /\ p.released = clean BY <1>5, DestroyedIsLike DEF Like
  <2> QED BY <2>1, <1>5 DEF Like
<1>8. Like(o, q) /\ ~q.visible /\ q.released = tidy
  <2>1. Like(u, q) /\ ~q.visible /\ q.released = tidy BY <1>4, DestroyedIsLike DEF Like
  <2> QED BY <2>1, <1>4 DEF Like
<1> HIDE DEF f, p, q
<1> HIDE DEF r
<1>9. \/ o.released /\ r = Applied(o)
      \/ ~o.released /\ Layered(o) /\ r.o = p /\ Result(r)
         /\ ((r.is = "applied" /\ clean) \/ (r.is = "failed" /\ ~clean))
      \/ ~o.released /\ ~Layered(o) /\ r = Failed(f)
      \/ ~o.released /\ ~Layered(o) /\ r.o = q /\ Result(r)
         /\ ((r.is = "applied" /\ tidy) \/ (r.is = "failed" /\ ~tidy))
  <2>1. CASE o.released BY <2>1 DEF ReleaseSurface, ReleaseLayer, ReleaseWindow, r
  <2>2. CASE ~o.released /\ Layered(o)
    <3>1. r = [o |-> p, is |-> IF clean THEN "applied" ELSE "failed"]
      BY <2>2 DEF ReleaseSurface, ReleaseLayer, r, p, s, clean
    <3> QED BY <3>1, <2>2 DEF Result
  <2>3. CASE ~o.released /\ ~Layered(o) /\ "input" \in o.bad
    BY <2>3 DEF ReleaseSurface, ReleaseWindow, r, f, h
  <2>4. CASE ~o.released /\ ~Layered(o) /\ "input" \notin o.bad
    <3>1. r = [o |-> q, is |-> IF tidy THEN "applied" ELSE "failed"]
      BY <2>4 DEF ReleaseSurface, ReleaseWindow, r, q, u, h, tidy
    <3> QED BY <3>1, <2>4 DEF Result
  <2> QED BY <2>1, <2>2, <2>3, <2>4
<1>10. Like(o, o) BY DEF Like
<1>11. CASE o.released /\ r = Applied(o)
  BY <1>10, <1>11 DEF Applied, Result, r
<1>12. CASE ~o.released /\ Layered(o) /\ r.o = p /\ Result(r)
            /\ ((r.is = "applied" /\ clean) \/ (r.is = "failed" /\ ~clean))
  BY <1>7, <1>12 DEF r
<1>13. CASE ~o.released /\ ~Layered(o) /\ r = Failed(f)
  BY <1>6, <1>13 DEF Failed, Result, r
<1>14. CASE ~o.released /\ ~Layered(o) /\ r.o = q /\ Result(r)
            /\ ((r.is = "applied" /\ tidy) \/ (r.is = "failed" /\ ~tidy))
  BY <1>8, <1>14 DEF r
<1> QED BY <1>9, <1>11, <1>12, <1>13, <1>14

\* Closing an adapter that is open is a release, and closes it when that succeeds.
LEMMA CloseIsRelease ==
    ASSUME NEW o, Rec(o), NativeOK(o), ~o.shut
    PROVE  LET r == CloseAdapter(o)
               s == ReleaseSurface(o)
           IN  Result(r) /\ r.is = s.is
               /\ r.o = [s.o EXCEPT !.stroke = FALSE, !.shut = (s.is = "applied")]
<1> DEFINE s == ReleaseSurface(o)
           t == [s EXCEPT !.o.stroke = FALSE, !.o.shut = Succeeded(s)]
<1>1. CloseAdapter(o) = t
  BY DEF CloseAdapter, CloseLayer, CloseWindow, ReleaseSurface, s
<1>2. Result(s) /\ Rec(s.o) BY ReleaseDoes DEF Like
<1> HIDE DEF s
<1>3. Result(t) /\ t.is = s.is /\ t.o = [s.o EXCEPT !.stroke = FALSE, !.shut = (s.is = "applied")]
  BY <1>2 DEF Result, Succeeded
<1> HIDE DEF t
<1> QED BY <1>1, <1>3 DEF s

\* Showing the window maps it on the output of the widget, and changes no role.
LEMMA ShowDoes ==
    ASSUME NEW o, Rec(o), NativeOK(o), ~o.visible
    PROVE  LET p == Show(o) IN
           /\ Rec(p) /\ NativeOK(p) /\ p.visible
           /\ p.kind = o.kind /\ p.state = o.state /\ p.active = o.active
           /\ p.pending = o.pending /\ p.free = o.free /\ p.retry = o.retry
           /\ p.closed = o.closed /\ p.closing = o.closing /\ p.begun = o.begun
           /\ p.connected = o.connected /\ p.shut = o.shut /\ p.placing = o.placing
           /\ p.released = o.released /\ DOMAIN p.config = DOMAIN o.config
           /\ p.dragging = o.dragging
           /\ Ending(o) => p.soon = o.soon /\ p.later = o.later
           /\ Sure(o) => Sure(p)
           /\ o.locked = o.passthrough => p.locked = p.passthrough
           /\ p.native # NoSurface
           /\ Layered(o) => p.native.output = o.screen
           /\ o.native # NoSurface => p.native.layer = o.native.layer
           /\ o.native = NoSurface => ~p.native.layer
<1> DEFINE h == Held(o)
           s == [h EXCEPT !.visible = TRUE, !.native.output = o.screen]
           k == [s EXCEPT !.keep = FALSE]
           w == ApplyWindowGeometry(k, ~o.keep)
           p == [w EXCEPT !.soon = TRUE, !.later = TRUE]
<1>1. Calm(o, h) /\ h.native # NoSurface BY HeldIsCalm
<1>2. Rec(h) /\ NativeOK(h) /\ h.kind = o.kind BY <1>1, CalmKeeps
<1> HIDE DEF h
<1>3. /\ Rec(s) /\ Mind(s) = Mind(h) /\ s.visible /\ s.released = h.released
      /\ s.native = [h.native EXCEPT !.output = o.screen] /\ s.sure = h.sure
      /\ s.locked = h.locked /\ s.region = h.region /\ s.passthrough = h.passthrough
  BY <1>2, FieldNames DEF Rec, Mind
<1> HIDE DEF s
<1>4. /\ NativeOK(s) /\ s.native # NoSurface /\ s.native.output = o.screen
      /\ s.native.layer = h.native.layer /\ s.native.input = h.native.input
  BY <1>1, <1>2, <1>3, NoWindow DEF NativeOK, NativeFields
<1>5. Sure(o) => Sure(s) BY <1>1, <1>3, <1>4 DEF Calm, Sure
<1>6. /\ Rec(k) /\ Life(k) = Life(s) /\ k.native = s.native /\ k.sure = s.sure
      /\ k.locked = s.locked /\ k.region = s.region /\ k.passthrough = s.passthrough
  BY <1>3, FieldNames DEF Rec, Life
<1>7. Calm(s, k) /\ NativeOK(k) BY <1>4, <1>6, QuietIsCalm DEF NativeOK
<1> HIDE DEF k
<1>8. Calm(k, w) BY <1>6, <1>7, WindowGeometryIsCalm
<1>9. Calm(s, w) BY <1>7, <1>8, CalmTrans
<1> HIDE DEF w
<1>10. Mind(h) = Mind(o) /\ h.released = o.released BY <1>1, LifeIsMind DEF Calm
<1>11. Mind(w) = Mind(s) /\ w.released = s.released /\ w.visible = s.visible
  BY <1>9, LifeIsMind DEF Calm
<1>12. Rec(w) BY <1>9 DEF Calm
<1>13. /\ Rec(p) /\ p.native = w.native /\ p.visible = w.visible /\ p.sure = w.sure
       /\ p.kind = w.kind /\ p.state = w.state /\ p.active = w.active
       /\ p.pending = w.pending /\ p.free = w.free /\ p.retry = w.retry
       /\ p.closed = w.closed /\ p.closing = w.closing /\ p.begun = w.begun
       /\ p.connected = w.connected /\ p.shut = w.shut /\ p.placing = w.placing
       /\ p.released = w.released /\ p.config = w.config /\ p.locked = w.locked
       /\ p.dragging = w.dragging
       /\ p.passthrough = w.passthrough /\ p.region = w.region
  BY <1>12, FieldNames DEF Rec
<1> HIDE DEF p
<1>14. Show(o) = IF Ending(o) THEN s ELSE p
  BY DEF Show, p, w, k, s, h
<1>15. /\ s.native.layer = h.native.layer
       /\ w.native # NoSurface /\ w.native.layer = s.native.layer /\ NativeOK(w)
       /\ Layered(o) => w.native.output = s.native.output
       /\ Sure(o) => Sure(w)
  <2>1. s.kind = o.kind BY <1>2, <1>3, SameMind
  <2> QED BY <1>4, <1>5, <1>9, <2>1 DEF Calm, NativeKept, Layered
<1>16. /\ o.native # NoSurface => h.native.layer = o.native.layer
       /\ o.native = NoSurface => ~h.native.layer
  BY <1>1 DEF Calm, NativeKept
<1>17. o.locked = o.passthrough => s.locked = s.passthrough /\ w.locked = w.passthrough
  BY <1>1, <1>3, <1>9 DEF Calm
<1>18. CASE Ending(o)
  <2>1. Show(o) = s BY <1>14, <1>18
  <2>2. Mind(s) = Mind(o) BY <1>3, <1>10
  <2> QED BY <2>1, <2>2, <1>3, <1>4, <1>5, <1>10, <1>16, <1>17, SameMind
<1>19. CASE ~Ending(o)
  <2>1. Show(o) = p BY <1>14, <1>19
  <2>2. Mind(w) = Mind(o) BY <1>3, <1>10, <1>11
  <2>3. (Sure(w) <=> Sure(p)) /\ (NativeOK(w) <=> NativeOK(p)) BY <1>13 DEF Sure, NativeOK
  <2> HIDE DEF Sure, NativeOK
  <2>4. /\ w.kind = o.kind /\ w.state = o.state /\ w.active = o.active
        /\ w.pending = o.pending /\ w.free = o.free /\ w.retry = o.retry
        /\ w.closed = o.closed /\ w.closing = o.closing /\ w.begun = o.begun
        /\ w.connected = o.connected /\ w.shut = o.shut /\ w.placing = o.placing
        /\ DOMAIN w.config = DOMAIN o.config /\ w.dragging = o.dragging
    BY <2>2, SameMind
  <2> QED BY <2>1, <2>3, <2>4, <1>3, <1>4, <1>10, <1>11, <1>13, <1>15, <1>16, <1>17, <1>19
<1> QED BY <1>18, <1>19

\* A rebuild of o that goes on, or has failed.
Going(o, output, r) ==
    /\ Result(r) /\ r.is \in {"applied", "failed"}
    /\ Rec(r.o) /\ NativeOK(r.o) /\ Mind(r.o) = Mind(o) /\ ~r.o.visible
    /\ r.o.chosen = o.chosen /\ r.o.config = o.config /\ r.o.screen = output
    /\ o.locked = o.passthrough => r.o.locked = r.o.passthrough
    /\ Sure(r.o)
    /\ r.is = "applied" => ~r.o.released /\ r.o.native # NoSurface

\* A call that is calm and aims as before lets it go on.
LEMMA GoesOn ==
    ASSUME NEW o, NEW output, NEW r, Going(o, output, r), NEW t,
           Result(t), t.is \in {"applied", "failed"}, Calm(r.o, t.o), Aim(t.o) = Aim(r.o)
    PROVE  Going(o, output, IF Succeeded(r) THEN t ELSE r)
<1>1. CASE Succeeded(r)
  <2>1. t.o.visible = r.o.visible /\ t.o.released = r.o.released /\ Mind(t.o) = Mind(r.o)
    BY LifeIsMind DEF Calm
  <2>2. t.o.chosen = r.o.chosen /\ t.o.config = r.o.config /\ t.o.screen = r.o.screen
    BY SameAim
  <2>3. r.is = "applied" BY <1>1 DEF Succeeded
  <2> QED BY <1>1, <2>1, <2>2, <2>3 DEF Going, Calm, NativeKept
<1>2. CASE ~Succeeded(r) BY <1>2
<1> QED BY <1>1, <1>2

\* A rebuild ends with a surface that is hidden: bound to its output with a region that is
\* known, or released again.
LEMMA RebuildDoes ==
    ASSUME NEW o, Rec(o), NativeOK(o), NEW output, output \in o.connected, output # NoOutput,
           ~o.shut, Layered(o), ~o.visible, ~Orphaned(o)
    PROVE  LET r == RebuildSurface(o, output) IN
           /\ Result(r) /\ r.is \in {"applied", "failed"}
           /\ Rec(r.o) /\ NativeOK(r.o) /\ Mind(r.o) = Mind(o) /\ ~r.o.visible
           /\ r.o.chosen = o.chosen /\ r.o.config = o.config
           /\ o.locked = o.passthrough => r.o.locked = r.o.passthrough
           /\ r.is = "applied" => /\ r.o.screen = output /\ Sure(r.o)
                                  /\ ~r.o.released /\ r.o.native # NoSurface
<1> DEFINE u == [o EXCEPT !.sure = FALSE]
           v == BeginRebuild(u, output)
           e == [v EXCEPT !.height = o.content]
           b == Bound(e, output)
           t1 == Promote(b)
           t2 == MoveTo(t1.o, output, t1.o.layer)
           r2 == IF Succeeded(t1) THEN t2 ELSE t1
           t3 == ApplyInputRegion(r2.o)
           r3 == IF Succeeded(r2) THEN t3 ELSE r2
           t4 == SetBlur(r3.o)
           r4 == IF Succeeded(r3) THEN t4 ELSE r3
           z == ReleaseSurface(r4.o)
<1>1. /\ Rec(b) /\ Mind(b) = Mind(o) /\ b.native = o.native /\ ~b.sure /\ b.visible = o.visible
      /\ b.locked = o.locked /\ b.passthrough = o.passthrough /\ b.chosen = o.chosen
      /\ b.config = o.config /\ b.screen = output
  <2> DEFINE waiting == u.placing # NoPlacement /\ u.placing.screen = output
             l == IF waiting THEN u.placing.y ELSE LayerPlace(u, output)
  <2>1. v = [u EXCEPT !.layer = l, !.keep = waiting, !.selected = output]
    BY DEF BeginRebuild
  <2> HIDE DEF l, waiting, v
  <2>2. b = [e EXCEPT !.screen = output] BY DEF Bound
  <2> HIDE DEF b
  <2> QED BY <2>1, <2>2, FieldNames DEF Rec, Mind
<1>2. NativeOK(b) /\ Sure(b) /\ ~b.shut /\ Layered(b) /\ ~b.visible
  BY <1>1, SameMind DEF NativeOK, Sure, Layered
<1> HIDE DEF b
<1>3. Going(o, output, t1)
  <2>1. /\ Result(t1) /\ t1.is \in {"applied", "failed"}
        /\ t1.is = "applied" => ~t1.o.released
        /\ Rec(t1.o) /\ NativeOK(t1.o) /\ Mind(t1.o) = Mind(b) /\ t1.o.visible = b.visible
        /\ Aim(t1.o) = Aim(b) /\ t1.o.locked = b.locked /\ t1.o.passthrough = b.passthrough
        /\ Sure(t1.o) /\ t1.o.native # NoSurface
    BY <1>1, <1>2, PromoteDoes
  <2> HIDE DEF t1
  <2>2. t1.o.chosen = b.chosen /\ t1.o.config = b.config /\ t1.o.screen = b.screen
    BY <2>1, SameAim
  <2> QED BY <1>1, <1>2, <2>1, <2>2 DEF Going
<1> HIDE DEF t1
<1>4. \A r : Going(o, output, r) => /\ Rec(r.o) /\ NativeOK(r.o) /\ ~r.o.shut
                                   /\ Layered(r.o) /\ Positions(r.o)
  BY SameMind DEF Going, Layered, Positions, Capabilities, LayerCapabilities
<1>5. Going(o, output, r2)
  <2>1. /\ Calm(t1.o, t2.o) /\ Aim(t2.o) = Aim(t1.o) /\ Result(t2) /\ t2.is \in {"applied", "failed"}
    BY <1>3, <1>4, MoveIsCalm DEF Result
  <2> QED BY <1>3, <2>1, GoesOn
<1>6. Going(o, output, r3)
  <2> HIDE DEF r2
  <2>1. /\ Calm(r2.o, t3.o) /\ Aim(t3.o) = Aim(r2.o) /\ Result(t3) /\ t3.is \in {"applied", "failed"}
    BY <1>5, <1>4, RegionIsCalm
  <2> QED BY <1>5, <2>1, GoesOn
<1>7. Going(o, output, r4)
  <2> HIDE DEF r3
  <2>1. /\ Calm(r3.o, t4.o) /\ Aim(t4.o) = Aim(r3.o) /\ Result(t4) /\ t4.is \in {"applied", "failed"}
    BY <1>6, <1>4, BlurIsCalm
  <2> QED BY <1>6, <2>1, GoesOn
<1>8. RebuildSurface(o, output) = IF Succeeded(r4) THEN r4 ELSE Undone(r4)
  <2>1. AndThen(Promote(b), LAMBDA w : MoveTo(w, output, w.layer)) = r2 BY DEF AndThen, t1
  <2>2. AndThen(r2, ApplyInputRegion) = r3 BY DEF AndThen
  <2>3. AndThen(r3, SetBlur) = r4 BY DEF AndThen
  <2> QED BY <2>1, <2>2, <2>3 DEF RebuildSurface, b
<1> HIDE DEF r4
<1>9. /\ Result(z) /\ z.is \in {"applied", "failed"} /\ Like(r4.o, z.o) /\ ~z.o.visible
  BY <1>7, ReleaseDoes DEF Going
<1>10. Undone(r4) = IF Succeeded(z) THEN [z EXCEPT !.is = r4.is] ELSE Failed(z.o)
  BY DEF Undone
<1> HIDE DEF z
<1>11. CASE Succeeded(r4) BY <1>7, <1>8, <1>11 DEF Going
<1>12. CASE ~Succeeded(r4)
  <2> DEFINE n == Undone(r4)
  <2>1. Result(n) /\ n.is = "failed" /\ n.o = z.o
    BY <1>7, <1>9, <1>10, <1>12 DEF Result, Failed, Succeeded, Going
  <2>2. z.o.chosen = r4.o.chosen /\ z.o.config = r4.o.config BY <1>9, SameAim DEF Like
  <2> HIDE DEF n
  <2>3. RebuildSurface(o, output) = n BY <1>8, <1>12 DEF n
  <2> QED BY <1>7, <1>9, <2>1, <2>2, <2>3 DEF Going, Like
<1> QED BY <1>11, <1>12

\* Beginning a rebuild raises where the output of the place that waits was removed.
LEMMA RebuildRaises ==
    ASSUME NEW o, NEW output, output \in o.connected, Orphaned(o)
    PROVE  RebuildSurface(o, output) = Raised([o EXCEPT !.sure = FALSE])
BY DEF RebuildSurface

-------------------------------------------------------------------------------
(* The invariant of the window.                                            *)

\* What holds of the window at all times, also while it is activated before it is
\* shown.
Whole(o) ==
    /\ Rec(o) /\ NativeOK(o) /\ "screen" \in DOMAIN o.config
    /\ o.connected \in SUBSET Outputs
    /\ o.placing # NoPlacement => o.placing.object \in {o.placing.screen, Gone}
    /\ o.locked = o.passthrough
    /\ o.state = "active" => Sure(o)

\* The owner of the surface and the window agree on whether it is closed, and what is
\* closed is neither active nor armed.
Closed(o) ==
    /\ o.state \in {"prepared", "active", "rebinding", "degraded", "closing", "closed"}
    /\ o.closed <=> o.state = "closed"
    /\ o.shut <=> o.state = "closed"
    /\ o.state = "closing" => o.closing
    /\ Ending(o) => o.begun /\ ~o.soon /\ ~o.later
    /\ o.closed => ~o.visible /\ ~o.retry /\ o.active = NoOutput

\* Nothing is shown of a surface that was released.
Hides(o) ==
    /\ o.released => ~o.visible
    /\ o.free => ~o.visible

\* Only a layer surface is rebuilt, and only for an output that is there.
Waits(o) ==
    /\ o.state \in {"rebinding", "degraded"} => Layered(o)
    /\ o.pending # NoOutput => /\ o.pending \in o.connected
                               /\ o.state \in {"rebinding", "degraded"}

\* The window before the application starts it.
Unbegun(o) ==
    ~o.begun => /\ o.state = "prepared" /\ o.active = NoOutput
                /\ ~o.released /\ ~o.visible /\ ~o.free
                /\ ~o.dragging /\ ~o.soon /\ ~o.later
                /\ o.native # NoSurface => ~o.native.layer

\* What holds of the window while an event is handled, too.
Base(o) == Whole(o) /\ Closed(o) /\ Hides(o) /\ Waits(o) /\ Unbegun(o)

\* An output waits with its retry armed, or for good.
Waiting(o) == o.retry \/ (Orphaned(o) /\ o.state = "rebinding")

\* What holds of the window between two events.
Shown(o) ==
    /\ o.begun => o.state # "prepared"
    /\ o.pending # NoOutput => Waiting(o)
    /\ o.state = "degraded" /\ o.pending = NoOutput /\ o.connected # {} =>
          o.visible /\ o.native # NoSurface /\ ~o.native.layer
    /\ o.state = "active" /\ o.active # NoOutput /\ Layered(o) =>
          /\ o.native # NoSurface
          /\ o.native.layer => o.native.output = o.active
          /\ o.visible

\* The inductive invariant.
SurfaceInv(o) == Base(o) /\ Shown(o)

-------------------------------------------------------------------------------
(* The steps of the surface's life keep the invariant.                     *)

\* Releasing the old surface for a rebuild hides it, once.
LEMMA FreeDoes ==
    ASSUME NEW o, Rec(o), NativeOK(o), Layered(o), Hides(o)
    PROVE  LET r == FreeForRebind(o) IN
           /\ Result(r) /\ r.is \in {"applied", "failed"}
           /\ Rec(r.o) /\ NativeOK(r.o) /\ Aim(r.o) = Aim(o)
           /\ r.o.locked = o.locked /\ r.o.passthrough = o.passthrough
           /\ r.o.kind = o.kind /\ r.o.state = o.state /\ r.o.active = o.active
           /\ r.o.pending = o.pending /\ r.o.retry = o.retry /\ r.o.closed = o.closed
           /\ r.o.closing = o.closing /\ r.o.begun = o.begun /\ r.o.connected = o.connected
           /\ r.o.shut = o.shut /\ r.o.placing = o.placing /\ r.o.soon = o.soon
           /\ r.o.later = o.later /\ r.o.dragging = o.dragging
           /\ DOMAIN r.o.config = DOMAIN o.config
           /\ ~r.o.visible
<1> DEFINE s == ReleaseSurface(o)
           t == [s EXCEPT !.o.free = Succeeded(s)]
           q == [s.o EXCEPT !.free = Succeeded(s)]
<1>1. /\ Result(s) /\ s.is \in {"applied", "failed"} /\ Like(o, s.o) /\ ~s.o.visible
  BY ReleaseDoes DEF Hides
<1> HIDE DEF s
<1>2. Result(t) /\ t.is = s.is /\ t.o = q BY <1>1 DEF Result
<1> HIDE DEF t
<1>3. /\ Rec(q) /\ q.native = s.o.native /\ Aim(q) = Aim(s.o) /\ q.locked = s.o.locked
      /\ q.passthrough = s.o.passthrough /\ q.kind = s.o.kind /\ q.state = s.o.state
      /\ q.active = s.o.active /\ q.pending = s.o.pending /\ q.retry = s.o.retry
      /\ q.closed = s.o.closed /\ q.closing = s.o.closing /\ q.begun = s.o.begun
      /\ q.connected = s.o.connected /\ q.shut = s.o.shut /\ q.placing = s.o.placing
      /\ q.soon = s.o.soon /\ q.later = s.o.later /\ q.dragging = s.o.dragging
      /\ q.config = s.o.config /\ q.visible = s.o.visible
  BY <1>1, FieldNames DEF Rec, Like, Aim
<1> HIDE DEF q
<1>4. NativeOK(q) BY <1>1, <1>3 DEF Like, NativeOK
<1>5. FreeForRebind(o) = IF o.free THEN Applied(o) ELSE t BY DEF FreeForRebind, s, t
<1>6. CASE o.free BY <1>5, <1>6 DEF Applied, Result, Hides
<1>7. CASE ~o.free
  <2>1. FreeForRebind(o) = t BY <1>5, <1>7
  <2>2. Mind(s.o) = Mind(o) /\ Aim(s.o) = Aim(o) /\ s.o.locked = o.locked /\ s.o.passthrough = o.passthrough
    BY <1>1 DEF Like
  <2> QED BY <2>1, <2>2, <1>1, <1>2, <1>3, <1>4, SameMind
<1> QED BY <1>6, <1>7

\* Completing a rebuild shows the surface on its new output.
LEMMA CompleteDoes ==
    ASSUME NEW o, Rec(o), NativeOK(o), "screen" \in DOMAIN o.config, o.connected \in SUBSET Outputs,
           NEW output, output \in o.connected, NEW dragging,
           o.placing # NoPlacement => o.placing.object \in {o.placing.screen, Gone},
           ~o.visible, Sure(o), o.locked = o.passthrough, o.screen = output, o.native # NoSurface
    PROVE  LET p == CompleteRebind(o, output, dragging) IN
           /\ Rec(p) /\ NativeOK(p) /\ p.visible
           /\ p.kind = o.kind /\ p.state = o.state /\ p.active = o.active
           /\ p.pending = o.pending /\ p.free = o.free /\ p.retry = o.retry
           /\ p.closed = o.closed /\ p.closing = o.closing /\ p.begun = o.begun
           /\ p.connected = o.connected /\ p.shut = o.shut
           /\ p.placing \in {o.placing, NoPlacement}
           /\ p.released = o.released /\ DOMAIN p.config = DOMAIN o.config
           /\ p.dragging = o.dragging
           /\ Ending(o) => p.soon = o.soon /\ p.later = o.later
           /\ Sure(p) /\ p.locked = p.passthrough
           /\ p.native # NoSurface /\ (Layered(o) => p.native.output = output)
<1> DEFINE waiting == o.placing # NoPlacement /\ o.placing.screen = output
           commit == o.placing
           c == CommitPosition(o, commit)
           d == [c EXCEPT !.placing = NoPlacement]
           e == Save(d, commit)
           saved == IF ~waiting THEN o ELSE IF dragging THEN d ELSE e
           object == IF waiting THEN commit.object ELSE output
           f == [saved EXCEPT !.selected = object, !.chosen = object]
<1>1. Calm(o, c) /\ c.screen = o.screen /\ c.config = o.config /\ c.chosen = commit.object
  BY CommitIsCalm
<1>2. Rec(c) /\ NativeOK(c) /\ Life(c) = Life(o) /\ Sure(c) /\ c.locked = c.passthrough
  BY <1>1 DEF Calm, NativeKept
<1>3. c.native # NoSurface BY <1>1 DEF Calm, NativeKept
<1> HIDE DEF c
<1> DEFINE Kin(p) ==
        /\ Rec(p) /\ NativeOK(p) /\ p.native # NoSurface /\ Sure(p) /\ p.locked = p.passthrough
        /\ p.screen = output
        /\ p.kind = o.kind /\ p.state = o.state /\ p.active = o.active
        /\ p.pending = o.pending /\ p.free = o.free /\ p.retry = o.retry
        /\ p.closed = o.closed /\ p.closing = o.closing /\ p.begun = o.begun
        /\ p.connected = o.connected /\ p.shut = o.shut
        /\ p.released = o.released /\ DOMAIN p.config = DOMAIN o.config
        /\ p.dragging = o.dragging /\ p.visible = o.visible
        /\ p.soon = o.soon /\ p.later = o.later
        /\ p.placing \in {o.placing, NoPlacement}
<1>4. Kin(o) OBVIOUS
<1>5. Kin(d) /\ d.chosen = commit.object
  <2>1. /\ Rec(d) /\ d.native = c.native /\ d.sure = c.sure /\ d.region = c.region
        /\ d.locked = c.locked /\ d.passthrough = c.passthrough /\ d.screen = c.screen
        /\ d.kind = c.kind /\ d.state = c.state /\ d.active = c.active
        /\ d.pending = c.pending /\ d.free = c.free /\ d.retry = c.retry
        /\ d.closed = c.closed /\ d.closing = c.closing /\ d.begun = c.begun
        /\ d.connected = c.connected /\ d.shut = c.shut /\ d.released = c.released
        /\ d.config = c.config /\ d.dragging = c.dragging /\ d.visible = c.visible
        /\ d.soon = c.soon /\ d.later = c.later /\ d.placing = NoPlacement
        /\ d.chosen = c.chosen
    BY <1>2, FieldNames DEF Rec
  <2> HIDE DEF d
  <2>2. NativeOK(d) /\ Sure(d) BY <1>2, <2>1 DEF NativeOK, Sure
  <2> QED BY <1>1, <1>2, <1>3, <2>1, <2>2, SameLife
<1> HIDE DEF d
<1>6. waiting => Kin(e)
  <2> SUFFICES ASSUME waiting PROVE Kin(e) OBVIOUS
  <2>1. commit.object \in {output, Gone} /\ commit.screen = output OBVIOUS
  <2>2. commit.object # NoOutput /\ (commit.object \in o.connected => commit.object = output)
    BY <2>1, OutputsAssumption
  <2>3. Calm(d, e) /\ e.screen = d.screen
    BY <1>5, <2>1, <2>2, SaveIsCalm
  <2> QED BY <1>5, <2>3, SameLife DEF Calm, NativeKept
<1>7. Kin(saved) BY <1>4, <1>5, <1>6
<1> HIDE DEF saved, object, e
<1>8. /\ Rec(f) /\ f.native = saved.native /\ f.sure = saved.sure /\ f.region = saved.region
      /\ f.locked = saved.locked /\ f.passthrough = saved.passthrough /\ f.screen = saved.screen
      /\ Life(f) = Life(saved)
  BY <1>7, FieldNames DEF Rec, Life
<1> HIDE DEF f
<1>9. Kin(f)
  <2>1. NativeOK(f) /\ Sure(f) BY <1>7, <1>8 DEF NativeOK, Sure
  <2> QED BY <1>7, <1>8, <2>1, SameLife
<1>10. CompleteRebind(o, output, dragging) = Show(f)
  BY DEF CompleteRebind, f, saved, object, e, d, c
<1>11. (Ending(f) <=> Ending(o)) /\ (Layered(f) <=> Layered(o)) BY <1>9 DEF Ending, Layered
<1> QED BY <1>9, <1>10, <1>11, ShowDoes

\* A failed step of a rebuild leaves it to be tried again.
LEMMA DegradedDoes ==
    ASSUME NEW r, Result(r), r.is = "failed", Rec(r.o), r.o.pending # NoOutput
    PROVE  LET d == Degraded(r)
           IN  Result(d) /\ d.is = "failed" /\ d.o.retry
               /\ Rec(d.o) /\ d.o.state = "degraded" /\ Aim(d.o) = Aim(r.o)
               /\ d.o.native = r.o.native /\ d.o.locked = r.o.locked /\ d.o.passthrough = r.o.passthrough
               /\ d.o.kind = r.o.kind /\ d.o.active = r.o.active
               /\ d.o.pending = r.o.pending /\ d.o.closed = r.o.closed
               /\ d.o.closing = r.o.closing /\ d.o.begun = r.o.begun /\ d.o.connected = r.o.connected
               /\ d.o.shut = r.o.shut /\ d.o.placing = r.o.placing /\ d.o.soon = r.o.soon
               /\ d.o.later = r.o.later /\ d.o.dragging = r.o.dragging
               /\ d.o.visible = r.o.visible /\ d.o.free = r.o.free /\ d.o.released = r.o.released
<1> DEFINE o == [r.o EXCEPT !.state = "degraded"]
           b == o.retry \/ (o.state \in {"rebinding", "degraded"} /\ o.pending # NoOutput)
           q == [o EXCEPT !.retry = b]
           d == [r EXCEPT !.o = q]
<1>1. Degraded(r) = d BY DEF Degraded, Retryable, ScheduleRetry
<1>2. b BY FieldNames DEF Rec
<1> HIDE DEF b
<1>3. /\ Rec(q) /\ q.state = "degraded" /\ Aim(q) = Aim(r.o) /\ q.retry = b
      /\ q.native = r.o.native /\ q.locked = r.o.locked /\ q.passthrough = r.o.passthrough
      /\ q.kind = r.o.kind /\ q.active = r.o.active
      /\ q.pending = r.o.pending /\ q.closed = r.o.closed
      /\ q.closing = r.o.closing /\ q.begun = r.o.begun /\ q.connected = r.o.connected
      /\ q.shut = r.o.shut /\ q.placing = r.o.placing /\ q.soon = r.o.soon
      /\ q.later = r.o.later /\ q.dragging = r.o.dragging
      /\ q.visible = r.o.visible /\ q.free = r.o.free /\ q.released = r.o.released
  BY FieldNames DEF Rec, Aim
<1> HIDE DEF q
<1>4. Result(d) /\ d.is = "failed" /\ d.o = q BY DEF Result
<1> HIDE DEF d
<1> QED BY <1>1, <1>2, <1>3, <1>4

\* A step that failed for an output that waits leaves a degraded surface with its retry armed.
LEMMA DegradedInv ==
    ASSUME NEW r, Result(r), r.is = "failed", Base(r.o), r.o.pending # NoOutput
    PROVE  LET d == Degraded(r)
           IN  Result(d) /\ d.is = "failed" /\ SurfaceInv(d.o)
<1> DEFINE o == r.o
           d == Degraded(r)
           p == d.o
<1>1. Rec(o) BY DEF Base, Whole
<1>2. /\ Result(d) /\ d.is = "failed" /\ p.retry
      /\ Rec(p) /\ p.state = "degraded" /\ Aim(p) = Aim(o)
      /\ p.native = o.native /\ p.locked = o.locked /\ p.passthrough = o.passthrough
      /\ p.kind = o.kind /\ p.active = o.active
      /\ p.pending = o.pending /\ p.closed = o.closed
      /\ p.closing = o.closing /\ p.begun = o.begun /\ p.connected = o.connected
      /\ p.shut = o.shut /\ p.placing = o.placing /\ p.soon = o.soon
      /\ p.later = o.later /\ p.dragging = o.dragging
      /\ p.visible = o.visible /\ p.free = o.free /\ p.released = o.released
  BY <1>1, DegradedDoes
<1> HIDE DEF d
<1>3. o.state \in {"rebinding", "degraded"} /\ o.pending # NoOutput BY DEF Base, Waits
<1>4. p.config = o.config BY <1>2, SameAim
<1>5. Whole(p) BY <1>2, <1>4 DEF Base, Whole, NativeOK
<1>6. Closed(p) BY <1>2, <1>3 DEF Base, Closed, Ending
<1>7. Hides(p) /\ Waits(p) BY <1>2, <1>3 DEF Base, Hides, Waits, Layered
<1>8. Unbegun(p) /\ Shown(p) BY <1>2, <1>3 DEF Base, Unbegun, Shown, Waiting
<1> QED BY <1>2, <1>5, <1>6, <1>7, <1>8 DEF d, SurfaceInv, Base

\* Releasing the old surface keeps what holds at all times.
LEMMA FreeKeepsBase ==
    ASSUME NEW o, Base(o), o.state \in {"rebinding", "degraded"}
    PROVE  LET r == FreeForRebind(o) IN
           /\ Result(r) /\ r.is \in {"applied", "failed"} /\ Base(r.o)
           /\ r.o.pending = o.pending /\ r.o.state = o.state /\ r.o.connected = o.connected
           /\ r.o.begun = o.begun /\ ~r.o.visible
<1> DEFINE a == FreeForRebind(o)
<1>1. Rec(o) /\ NativeOK(o) /\ Layered(o) /\ Hides(o) BY DEF Base, Whole, Waits
<1>2. /\ Result(a) /\ a.is \in {"applied", "failed"}
      /\ Rec(a.o) /\ NativeOK(a.o) /\ Aim(a.o) = Aim(o)
      /\ a.o.locked = o.locked /\ a.o.passthrough = o.passthrough
      /\ a.o.kind = o.kind /\ a.o.state = o.state /\ a.o.active = o.active
      /\ a.o.pending = o.pending /\ a.o.retry = o.retry /\ a.o.closed = o.closed
      /\ a.o.closing = o.closing /\ a.o.begun = o.begun /\ a.o.connected = o.connected
      /\ a.o.shut = o.shut /\ a.o.placing = o.placing /\ a.o.soon = o.soon
      /\ a.o.later = o.later /\ a.o.dragging = o.dragging
      /\ DOMAIN a.o.config = DOMAIN o.config
      /\ ~a.o.visible
  BY <1>1, FreeDoes
<1> HIDE DEF a
<1>3. Whole(a.o) BY <1>2 DEF Base, Whole
<1>4. Closed(a.o) BY <1>2 DEF Base, Closed, Ending
<1>5. Hides(a.o) /\ Waits(a.o) BY <1>2 DEF Base, Hides, Waits, Layered
<1>6. Unbegun(a.o) BY <1>2 DEF Base, Unbegun
<1> QED BY <1>2, <1>3, <1>4, <1>5, <1>6 DEF a, Base

\* An attempt to rebuild the surface whose place's output is there may fail at any of its
\* calls, and ends in a state of the invariant: active and shown, or degraded with the
\* retry armed.
LEMMA AttemptRebuilds ==
    ASSUME NEW o, Base(o), ~Closing(o), o.pending # NoOutput, NEW dragging, ~Orphaned(o)
    PROVE  LET r == AttemptRebind(o, dragging)
           IN  Result(r) /\ r.is \in {"applied", "failed"} /\ SurfaceInv(r.o)
<1> DEFINE output == o.pending
           a == FreeForRebind(o)
           b == [a.o EXCEPT !.state = "rebinding"]
           c == RebuildSurface(b, output)
           d == [c EXCEPT !.o.free = FALSE]
           e == [c.o EXCEPT !.free = FALSE]
           f == [c.o EXCEPT !.active = output, !.pending = NoOutput,
                            !.free = FALSE, !.state = "active", !.retry = FALSE]
           g == CompleteRebind(f, output, dragging)
           r == AttemptRebind(o, dragging)
<1>1. /\ Rec(o) /\ NativeOK(o) /\ "screen" \in DOMAIN o.config
      /\ o.connected \in SUBSET Outputs
      /\ (o.placing # NoPlacement => o.placing.object \in {o.placing.screen, Gone})
      /\ o.locked = o.passthrough
      /\ o.state \in {"rebinding", "degraded"} /\ Layered(o) /\ output \in o.connected
      /\ ~o.shut /\ ~o.closed /\ o.begun /\ Hides(o)
      /\ (Ending(o) => ~o.soon /\ ~o.later)
  BY DEF Base, Whole, Closed, Waits, Closing, Unbegun
<1>2. /\ Result(a) /\ a.is \in {"applied", "failed"}
      /\ Rec(a.o) /\ NativeOK(a.o) /\ Aim(a.o) = Aim(o)
      /\ a.o.locked = o.locked /\ a.o.passthrough = o.passthrough
      /\ a.o.kind = o.kind /\ a.o.state = o.state /\ a.o.active = o.active
      /\ a.o.pending = o.pending /\ a.o.retry = o.retry /\ a.o.closed = o.closed
      /\ a.o.closing = o.closing /\ a.o.begun = o.begun /\ a.o.connected = o.connected
      /\ a.o.shut = o.shut /\ a.o.placing = o.placing /\ a.o.soon = o.soon
      /\ a.o.later = o.later /\ a.o.dragging = o.dragging
      /\ DOMAIN a.o.config = DOMAIN o.config
      /\ ~a.o.visible
  BY <1>1, FreeDoes
<1>3. r = IF ~Succeeded(a) THEN Degraded(a)
          ELSE IF Raises(c) THEN c
          ELSE IF ~Succeeded(c) THEN Degraded(d)
          ELSE Applied(g)
  BY DEF AttemptRebind, a, b, c, d, f, g
<1> HIDE DEF a, output
<1>4. /\ Rec(b) /\ b.native = a.o.native /\ Aim(b) = Aim(a.o) /\ b.kind = a.o.kind
      /\ b.state = "rebinding" /\ b.active = a.o.active
      /\ b.pending = a.o.pending /\ b.retry = a.o.retry /\ b.closed = a.o.closed
      /\ b.closing = a.o.closing /\ b.begun = a.o.begun /\ b.connected = a.o.connected
      /\ b.shut = a.o.shut /\ b.placing = a.o.placing /\ b.soon = a.o.soon
      /\ b.later = a.o.later /\ b.dragging = a.o.dragging /\ b.config = a.o.config
      /\ b.visible = a.o.visible /\ b.locked = a.o.locked /\ b.passthrough = a.o.passthrough
  BY <1>2, FieldNames DEF Rec, Aim
<1>5. NativeOK(b) /\ Layered(b) /\ ~b.shut /\ ~b.visible /\ output \in b.connected /\ output # NoOutput
      /\ ~Orphaned(b)
  BY <1>1, <1>2, <1>4 DEF NativeOK, Layered, Orphaned, output
<1> HIDE DEF b
<1>6. /\ Result(c) /\ c.is \in {"applied", "failed"}
      /\ Rec(c.o) /\ NativeOK(c.o) /\ Mind(c.o) = Mind(b) /\ ~c.o.visible
      /\ c.o.chosen = b.chosen /\ c.o.config = b.config
      /\ (b.locked = b.passthrough => c.o.locked = c.o.passthrough)
      /\ (c.is = "applied" => /\ c.o.screen = output /\ Sure(c.o)
                              /\ ~c.o.released /\ c.o.native # NoSurface)
  BY <1>4, <1>5, RebuildDoes
<1> HIDE DEF c
<1>11. ~Raises(c) BY <1>6 DEF Raises
<1>7. /\ c.o.kind = o.kind /\ c.o.state = "rebinding" /\ c.o.active = o.active
      /\ c.o.pending = o.pending /\ c.o.retry = o.retry /\ c.o.closed = o.closed
      /\ c.o.closing = o.closing /\ c.o.begun = o.begun /\ c.o.connected = o.connected
      /\ c.o.shut = o.shut /\ c.o.placing = o.placing /\ c.o.soon = o.soon
      /\ c.o.later = o.later /\ c.o.dragging = o.dragging
      /\ DOMAIN c.o.config = DOMAIN o.config
      /\ c.o.locked = c.o.passthrough
  <2>1. Mind(c.o) = Mind(b) BY <1>6
  <2>2. /\ c.o.kind = b.kind /\ c.o.state = b.state /\ c.o.active = b.active
        /\ c.o.pending = b.pending /\ c.o.retry = b.retry /\ c.o.closed = b.closed
        /\ c.o.closing = b.closing /\ c.o.begun = b.begun /\ c.o.connected = b.connected
        /\ c.o.shut = b.shut /\ c.o.placing = b.placing /\ c.o.soon = b.soon
        /\ c.o.later = b.later /\ c.o.dragging = b.dragging
        /\ DOMAIN c.o.config = DOMAIN b.config
    BY <2>1, SameMind
  <2>3. c.o.locked = c.o.passthrough BY <1>1, <1>2, <1>4, <1>6
  <2> QED BY <1>2, <1>4, <2>2, <2>3
<1>8. CASE ~Succeeded(a)
  <2>1. r = Degraded(a) /\ a.is = "failed" /\ a.o.pending # NoOutput
    BY <1>2, <1>3, <1>8 DEF Succeeded
  <2>2. Base(a.o) BY <1>1, FreeKeepsBase DEF a
  <2>3. Result(Degraded(a)) /\ Degraded(a).is = "failed" /\ SurfaceInv(Degraded(a).o)
    BY <1>2, <2>1, <2>2, DegradedInv
  <2> QED BY <2>1, <2>3
<1>9. CASE Succeeded(a) /\ ~Succeeded(c)
  <2>1. Result(d) /\ d.is = c.is /\ d.o = e BY <1>6 DEF Result
  <2> HIDE DEF d
  <2>2. /\ Rec(e) /\ e.native = c.o.native /\ Aim(e) = Aim(c.o) /\ e.kind = c.o.kind
        /\ e.state = c.o.state /\ e.active = c.o.active
        /\ e.pending = c.o.pending /\ e.retry = c.o.retry /\ e.closed = c.o.closed
        /\ e.closing = c.o.closing /\ e.begun = c.o.begun /\ e.connected = c.o.connected
        /\ e.shut = c.o.shut /\ e.placing = c.o.placing /\ e.soon = c.o.soon
        /\ e.later = c.o.later /\ e.dragging = c.o.dragging /\ e.config = c.o.config
        /\ e.visible = c.o.visible /\ e.locked = c.o.locked /\ e.passthrough = c.o.passthrough
        /\ ~e.free
    BY <1>6, FieldNames DEF Rec, Aim
  <2> HIDE DEF e
  <2>3. r = Degraded(d) /\ d.is = "failed" /\ d.o.pending # NoOutput
    BY <1>3, <1>6, <1>7, <1>9, <1>11, <2>1, <2>2 DEF Succeeded
  <2>4. Whole(e) BY <1>1, <1>6, <1>7, <2>2 DEF Whole, NativeOK
  <2>5. Closed(e) /\ Hides(e) /\ Waits(e) /\ Unbegun(e)
    BY <1>1, <1>6, <1>7, <2>2 DEF Closed, Hides, Waits, Unbegun, Ending, Layered, output
  <2>6. Result(Degraded(d)) /\ Degraded(d).is = "failed" /\ SurfaceInv(Degraded(d).o)
    BY <2>1, <2>3, <2>4, <2>5, DegradedInv DEF Base
  <2> QED BY <2>3, <2>6
<1>10. CASE Succeeded(a) /\ Succeeded(c)
  <2>1. c.is = "applied" /\ r = Applied(g) BY <1>3, <1>10, <1>11 DEF Succeeded, Raises
  <2>2. /\ Rec(f) /\ f.native = c.o.native /\ f.kind = c.o.kind
        /\ f.state = "active" /\ f.active = output
        /\ f.pending = NoOutput /\ ~f.retry /\ f.closed = c.o.closed
        /\ f.closing = c.o.closing /\ f.begun = c.o.begun /\ f.connected = c.o.connected
        /\ f.shut = c.o.shut /\ f.placing = c.o.placing /\ f.soon = c.o.soon
        /\ f.later = c.o.later /\ f.dragging = c.o.dragging /\ f.config = c.o.config
        /\ f.visible = c.o.visible /\ f.locked = c.o.locked /\ f.passthrough = c.o.passthrough
        /\ ~f.free /\ f.released = c.o.released /\ f.screen = c.o.screen
        /\ f.sure = c.o.sure /\ f.region = c.o.region
    BY <1>6, FieldNames DEF Rec
  <2> HIDE DEF f
  <2>3. NativeOK(f) /\ Sure(f) BY <1>6, <2>1, <2>2 DEF NativeOK, Sure
  <2>4. /\ Rec(g) /\ NativeOK(g) /\ g.visible
        /\ g.kind = f.kind /\ g.state = f.state /\ g.active = f.active
        /\ g.pending = f.pending /\ g.free = f.free /\ g.retry = f.retry
        /\ g.closed = f.closed /\ g.closing = f.closing /\ g.begun = f.begun
        /\ g.connected = f.connected /\ g.shut = f.shut
        /\ g.placing \in {f.placing, NoPlacement}
        /\ g.released = f.released /\ DOMAIN g.config = DOMAIN f.config
        /\ g.dragging = f.dragging
        /\ (Ending(f) => g.soon = f.soon /\ g.later = f.later)
        /\ Sure(g) /\ g.locked = g.passthrough
        /\ g.native # NoSurface /\ (Layered(f) => g.native.output = output)
    <3>1. /\ "screen" \in DOMAIN f.config /\ f.connected \in SUBSET Outputs
          /\ output \in f.connected /\ ~f.visible /\ f.locked = f.passthrough
          /\ f.screen = output /\ f.native # NoSurface
          /\ (f.placing # NoPlacement => f.placing.object \in {f.placing.screen, Gone})
      BY <1>1, <1>6, <1>7, <2>1, <2>2
    <3> QED BY <2>2, <2>3, <3>1, CompleteDoes
  <2> HIDE DEF g
  <2>5. Layered(f) BY <1>1, <1>7, <2>2 DEF Layered
  <2>6. Whole(g) BY <1>1, <1>7, <2>2, <2>4 DEF Whole
  <2>7. Closed(g) BY <1>1, <1>7, <2>2, <2>4 DEF Closed, Ending
  <2>8. Hides(g) /\ Waits(g) /\ Unbegun(g)
    BY <1>1, <1>6, <1>7, <2>1, <2>2, <2>4 DEF Hides, Waits, Unbegun
  <2>9. Shown(g) BY <1>1, <1>7, <2>2, <2>4, <2>5 DEF Shown
  <2> QED BY <2>1, <2>6, <2>7, <2>8, <2>9 DEF Applied, Result, SurfaceInv, Base
<1> HIDE DEF r
<1> QED BY <1>8, <1>9, <1>10 DEF r

\* An attempt that raises leaves the surface rebinding: it is released, so nothing of it is
\* shown, and its retry is not armed.
LEMMA AttemptRaises ==
    ASSUME NEW o, Base(o), ~Closing(o), o.pending # NoOutput, NEW dragging, Orphaned(o)
    PROVE  LET r == AttemptRebind(o, dragging)
           IN  Result(r) /\ r.is \in {"failed", "raised"} /\ SurfaceInv(r.o)
<1> DEFINE output == o.pending
           a == FreeForRebind(o)
           b == [a.o EXCEPT !.state = "rebinding"]
           u == [b EXCEPT !.sure = FALSE]
           c == RebuildSurface(b, output)
           r == AttemptRebind(o, dragging)
<1>1. Rec(o) /\ NativeOK(o) /\ Layered(o) /\ Hides(o) /\ output \in o.connected
      /\ o.state \in {"rebinding", "degraded"}
  BY DEF Base, Whole, Waits
<1>2. /\ Result(a) /\ a.is \in {"applied", "failed"} /\ Base(a.o)
      /\ a.o.pending = output /\ a.o.state = o.state /\ a.o.connected = o.connected
      /\ a.o.begun = o.begun /\ ~a.o.visible
  BY <1>1, FreeKeepsBase
<1>3. a.o.placing = o.placing BY <1>1, FreeDoes
<1>4. ASSUME Succeeded(a), Raises(c) PROVE r = c
  BY <1>4 DEF AttemptRebind
<1>5. ASSUME ~Succeeded(a) PROVE r = Degraded(a)
  BY <1>5 DEF AttemptRebind
<1> HIDE DEF r, a
<1>6. Rec(a.o) BY <1>2 DEF Base, Whole
<1>7. /\ b.connected = o.connected /\ b.placing = o.placing
      /\ Rec(u) /\ u.native = a.o.native /\ Aim(u) = Aim(a.o) /\ u.kind = a.o.kind
      /\ u.state = "rebinding" /\ u.active = a.o.active
      /\ u.pending = a.o.pending /\ u.retry = a.o.retry /\ u.closed = a.o.closed
      /\ u.closing = a.o.closing /\ u.begun = a.o.begun /\ u.connected = a.o.connected
      /\ u.shut = a.o.shut /\ u.placing = a.o.placing /\ u.soon = a.o.soon
      /\ u.later = a.o.later /\ u.dragging = a.o.dragging /\ u.config = a.o.config
      /\ u.visible = a.o.visible /\ u.locked = a.o.locked /\ u.passthrough = a.o.passthrough
      /\ u.free = a.o.free /\ u.released = a.o.released
  BY <1>2, <1>3, <1>6, FieldNames DEF Rec, Aim
<1>8. Orphaned(b) /\ Orphaned(u) BY <1>3, <1>7 DEF Orphaned
<1>9. c = Raised(u) BY <1>1, <1>7, <1>8, RebuildRaises
<1> HIDE DEF b, u, c, output
<1>10. Result(c) /\ c.is = "raised" /\ c.o = u /\ Raises(c)
  BY <1>9 DEF Raised, Raises, Result
<1>11. Whole(u) /\ Closed(u)
  BY <1>1, <1>2, <1>7 DEF Base, Whole, Closed, Ending, NativeOK
<1>12. Hides(u) /\ Waits(u) /\ Unbegun(u)
  BY <1>1, <1>2, <1>7 DEF Base, Hides, Waits, Unbegun, Layered
<1>13. Shown(u) BY <1>7, <1>8 DEF Shown, Waiting
<1>14. CASE Succeeded(a)
  BY <1>4, <1>10, <1>11, <1>12, <1>13, <1>14 DEF SurfaceInv, Base, r
<1>15. CASE ~Succeeded(a)
  <2>1. a.is = "failed" /\ a.o.pending # NoOutput BY <1>2, <1>15 DEF Succeeded, output
  <2>2. LET d == Degraded(a) IN Result(d) /\ d.is = "failed" /\ SurfaceInv(d.o)
    BY <1>2, <2>1, DegradedInv
  <2> QED BY <1>5, <1>15, <2>2 DEF r
<1> QED BY <1>14, <1>15

\* Whatever an attempt meets, it keeps the invariant.
LEMMA AttemptDoes ==
    ASSUME NEW o, Base(o), ~Closing(o), o.pending # NoOutput, NEW dragging
    PROVE  LET r == AttemptRebind(o, dragging)
           IN  Result(r) /\ SurfaceInv(r.o)
<1>1. CASE Orphaned(o) BY <1>1, AttemptRaises
<1>2. CASE ~Orphaned(o) BY <1>2, AttemptRebuilds
<1> QED BY <1>1, <1>2

\* So does a rebind to another output, also while a drag is running.
LEMMA RebindKeeps ==
    ASSUME NEW o, Base(o), o.pending = NoOutput => Shown(o), o.begun, NEW output, output \in o.connected, NEW dragging
    PROVE  LET r == Rebind(o, output, dragging)
           IN  Result(r) /\ SurfaceInv(r.o)
<1> DEFINE i == [o EXCEPT !.pending = output, !.state = "rebinding", !.retry = FALSE]
           a == FreeForRebind(i)
           b == AttemptRebind(a.o, dragging)
           d == Degraded(a)
<1>1. Rebind(o, output, dragging) =
        IF Closing(o) THEN Rejected(o)
        ELSE IF ~Layered(o) THEN Unsupported(o)
        ELSE IF Succeeded(a) THEN b ELSE d
  BY DEF Rebind, i, a, b, d
<1>2. CASE Closing(o) \/ ~Layered(o)
  <2>1. SurfaceInv(o) BY <1>2 DEF Closing, Waits, Base, SurfaceInv
  <2> QED BY <1>1, <1>2, <2>1 DEF Rejected, Unsupported, Result
<1>3. CASE ~Closing(o) /\ Layered(o)
  <2>1. /\ Rec(i) /\ i.native = o.native /\ i.kind = o.kind
        /\ i.state = "rebinding" /\ i.active = o.active
        /\ i.pending = output /\ i.closed = o.closed
        /\ i.closing = o.closing /\ i.begun = o.begun /\ i.connected = o.connected
        /\ i.shut = o.shut /\ i.placing = o.placing /\ i.soon = o.soon
        /\ i.later = o.later /\ i.dragging = o.dragging /\ i.config = o.config
        /\ i.visible = o.visible /\ i.locked = o.locked /\ i.passthrough = o.passthrough
        /\ i.free = o.free /\ i.released = o.released
    BY FieldNames DEF Base, Whole, Rec
  <2> HIDE DEF i
  <2>2. Whole(i) BY <2>1 DEF Base, Whole, NativeOK
  <2>3. Closed(i) BY <2>1, <1>3 DEF Base, Closed, Ending, Closing
  <2>4. Hides(i) /\ Waits(i) BY <2>1, <1>3 DEF Base, Hides, Waits, Layered
  <2>5. Unbegun(i) BY <2>1 DEF Unbegun
  <2>6. output # NoOutput BY OutputsAssumption DEF Base, Whole
  <2>7. /\ Result(a) /\ a.is \in {"applied", "failed"} /\ Base(a.o)
        /\ a.o.pending = output /\ a.o.state = "rebinding"
    BY <2>1, <2>2, <2>3, <2>4, <2>5, FreeKeepsBase DEF Base
  <2> HIDE DEF a
  <2>8. Result(b) /\ SurfaceInv(b.o)
    BY <2>6, <2>7, AttemptDoes DEF Closing
  <2>9. a.is = "failed" => Result(d) /\ SurfaceInv(d.o)
    BY <2>6, <2>7, DegradedInv
  <2> QED BY <1>1, <1>3, <2>7, <2>8, <2>9 DEF Succeeded
<1> QED BY <1>2, <1>3

\* A window that is being activated: what is known of its region goes with the surface.
Activated(o, output) ==
    /\ Base(o) /\ o.begun /\ ~Ending(o)
    /\ o.state # "active" => ~o.sure
    /\ output \in o.connected \cup {NoOutput}
    /\ output = NoOutput => o.connected = {}

\* How an activation records the result of the promotion.
Promoted(r, output) ==
    IF ~Succeeded(r) THEN [r EXCEPT !.o.state = "degraded"]
    ELSE [r EXCEPT !.o.free = FALSE, !.o.active = output, !.o.pending = NoOutput,
                   !.o.state = "active", !.o.retry = FALSE]

\* A promotion that is recorded keeps what holds at all times.
LEMMA PromotedDoes ==
    ASSUME NEW o, NEW output, Activated(o, output), o.state \in {"prepared", "degraded"},
           o.pending = NoOutput
    PROVE  LET r == Promoted(Promote(PrepareLife(o).o), output)
               p == r.o
           IN  /\ Result(r) /\ r.is \in {"applied", "failed"} /\ Base(p)
               /\ p.begun /\ p.pending = NoOutput /\ p.screen = o.screen /\ p.visible = o.visible
               /\ p.connected = o.connected /\ ~Ending(p)
               /\ ~o.free /\ ~o.released => ~p.free /\ ~p.released
               /\ r.is = "applied" => p.state = "active" /\ p.active = output
               /\ r.is = "failed" => p.state = "degraded"
               /\ Layered(p) => p.native # NoSurface
               /\ o.native # NoSurface =>
                     /\ p.native # NoSurface
                     /\ o.visible \/ r.is = "failed" => (p.native.layer <=> o.native.layer)
               /\ o.native = NoSurface /\ r.is = "failed" => ~p.native.layer
<1> DEFINE q == PrepareLife(o).o
           t == Promote(q)
           r == Promoted(t, output)
           f == [t.o EXCEPT !.state = "degraded"]
           g == [t.o EXCEPT !.free = FALSE, !.active = output, !.pending = NoOutput,
                            !.state = "active", !.retry = FALSE]
<1>1. /\ Whole(o) /\ Closed(o) /\ Hides(o) /\ Waits(o) /\ o.begun /\ ~Ending(o) /\ ~o.sure
      /\ output \in o.connected \cup {NoOutput}
  BY DEF Activated, Base
<1>2. Rec(o) /\ NativeOK(o) /\ ~Closing(o) /\ ~o.shut
  BY <1>1 DEF Whole, Closed, Closing
<1>3. /\ Rec(q) /\ q.native = o.native /\ q.kind = o.kind /\ q.active = o.active
      /\ q.pending = o.pending /\ q.closed = o.closed /\ q.closing = o.closing
      /\ q.begun = o.begun /\ q.connected = o.connected /\ q.shut = o.shut
      /\ q.placing = o.placing /\ q.soon = o.soon /\ q.later = o.later
      /\ q.dragging = o.dragging /\ q.config = o.config /\ q.screen = o.screen
      /\ q.visible = o.visible /\ q.locked = o.locked /\ q.passthrough = o.passthrough
      /\ q.free = o.free /\ q.released = o.released /\ q.sure = o.sure
  <2>1. q = o \/ q = [o EXCEPT !.state = "prepared"]
    <3>1. Prepare(o) = Applied(o) BY <1>2 DEF Prepare
    <3>2. CASE o.state = "prepared" BY <1>2, <3>2 DEF PrepareLife, Applied
    <3>3. CASE o.state = "degraded"
      BY <1>2, <3>1, <3>3 DEF PrepareLife, Applied, Succeeded
    <3> QED BY <3>2, <3>3
  <2> HIDE DEF q
  <2> QED BY <2>1, <1>2, FieldNames DEF Rec
<1> HIDE DEF q
<1>4. NativeOK(q) /\ ~q.shut /\ Sure(q) BY <1>1, <1>2, <1>3 DEF NativeOK, Sure
<1>5. /\ Result(t) /\ t.is \in {"applied", "failed"}
      /\ (t.is = "failed" => Layered(q) /\ Calm(q, t.o))
      /\ (t.is = "applied" => ~t.o.released)
      /\ Rec(t.o) /\ NativeOK(t.o) /\ Mind(t.o) = Mind(q) /\ t.o.visible = q.visible
      /\ Aim(t.o) = Aim(q) /\ t.o.locked = q.locked /\ t.o.passthrough = q.passthrough
      /\ Sure(t.o)
      /\ (Layered(q) => t.o.native # NoSurface)
      /\ (q.native # NoSurface =>
             /\ t.o.native # NoSurface
             /\ q.visible => (t.o.native.layer <=> q.native.layer))
  BY <1>3, <1>4, PromoteDoes
<1> HIDE DEF t
<1>6. /\ t.o.kind = o.kind /\ t.o.closed = o.closed /\ t.o.closing = o.closing
      /\ t.o.pending = NoOutput /\ t.o.active = o.active
      /\ t.o.begun = o.begun /\ t.o.connected = o.connected /\ t.o.shut = o.shut
      /\ t.o.placing = o.placing /\ t.o.soon = o.soon /\ t.o.later = o.later
      /\ t.o.dragging = o.dragging /\ t.o.config = o.config /\ t.o.screen = o.screen
      /\ t.o.visible = o.visible /\ t.o.locked = o.locked /\ t.o.passthrough = o.passthrough
      /\ t.o.free = o.free
  BY <1>3, <1>5, SameMind, SameAim
<1>7. (Layered(t.o) <=> Layered(o)) /\ (Layered(q) <=> Layered(o)) BY <1>3, <1>6 DEF Layered
<1>8. CASE t.is = "failed"
  <2>1. Result(r) /\ r.is = "failed" /\ r.o = f
    BY <1>5, <1>8 DEF Promoted, Succeeded, Result
  <2> HIDE DEF r
  <2>2. /\ Rec(f) /\ f.native = t.o.native /\ f.kind = t.o.kind /\ f.closed = t.o.closed
        /\ f.closing = t.o.closing /\ f.pending = t.o.pending /\ f.active = t.o.active
        /\ f.begun = t.o.begun /\ f.connected = t.o.connected /\ f.shut = t.o.shut
        /\ f.placing = t.o.placing /\ f.soon = t.o.soon /\ f.later = t.o.later
        /\ f.config = t.o.config /\ f.screen = t.o.screen
        /\ f.visible = t.o.visible /\ f.locked = t.o.locked /\ f.passthrough = t.o.passthrough
        /\ f.free = t.o.free /\ f.released = t.o.released /\ f.state = "degraded"
    BY <1>5, FieldNames DEF Rec
  <2> HIDE DEF f
  <2>3. t.o.released = o.released
    BY <1>3, <1>5, <1>8, LifeIsMind DEF Calm
  <2>4. Whole(f) BY <1>1, <1>5, <1>6, <2>2 DEF Whole, NativeOK
  <2>5. Closed(f) /\ ~Ending(f) BY <1>1, <1>6, <2>2 DEF Closed, Ending
  <2>6. Hides(f) /\ Waits(f) /\ Unbegun(f)
    BY <1>1, <1>5, <1>6, <1>7, <1>8, <2>2, <2>3 DEF Hides, Waits, Unbegun, Layered
  <2>7. /\ o.native # NoSurface => f.native # NoSurface /\ (f.native.layer <=> o.native.layer)
        /\ o.native = NoSurface /\ f.native # NoSurface => ~f.native.layer
        /\ Layered(o) /\ f.native # NoSurface
        /\ f.free = o.free /\ f.released = o.released
    BY <1>6, <2>3, <1>3, <1>5, <1>7, <1>8, <2>2 DEF Calm, NativeKept
  <2> QED BY <1>1, <1>6, <2>1, <2>2, <2>4, <2>5, <2>6, <2>7 DEF r, t, q, Base
<1>9. CASE t.is = "applied"
  <2>1. Result(r) /\ r.is = "applied" /\ r.o = g
    BY <1>5, <1>9 DEF Promoted, Succeeded, Result
  <2> HIDE DEF r
  <2>2. /\ Rec(g) /\ g.native = t.o.native /\ g.kind = t.o.kind /\ g.closed = t.o.closed
        /\ g.closing = t.o.closing /\ g.pending = NoOutput /\ g.active = output
        /\ g.begun = t.o.begun /\ g.connected = t.o.connected /\ g.shut = t.o.shut
        /\ g.placing = t.o.placing /\ g.soon = t.o.soon /\ g.later = t.o.later
        /\ g.config = t.o.config /\ g.screen = t.o.screen
        /\ g.visible = t.o.visible /\ g.locked = t.o.locked /\ g.passthrough = t.o.passthrough
        /\ ~g.free /\ g.released = t.o.released /\ g.state = "active"
        /\ g.sure = t.o.sure /\ g.region = t.o.region
    BY <1>5, FieldNames DEF Rec
  <2> HIDE DEF g
  <2>3. NativeOK(g) /\ Sure(g) BY <1>5, <2>2 DEF NativeOK, Sure
  <2>4. Whole(g) BY <1>1, <1>6, <2>2, <2>3 DEF Whole
  <2>5. Closed(g) /\ ~Ending(g) BY <1>1, <1>6, <2>2 DEF Closed, Ending
  <2>6. Hides(g) /\ Waits(g) /\ Unbegun(g)
    BY <1>1, <1>5, <1>6, <1>9, <2>2 DEF Hides, Waits, Unbegun
  <2>7. /\ o.native # NoSurface => /\ g.native # NoSurface
                                   /\ o.visible => (g.native.layer <=> o.native.layer)
        /\ Layered(g) => g.native # NoSurface
        /\ ~g.free /\ ~g.released
    BY <1>3, <1>5, <1>9, <1>7, <2>2 DEF Layered
  <2> QED BY <1>1, <1>6, <2>1, <2>2, <2>4, <2>5, <2>6, <2>7 DEF r, t, q, Base
<1> HIDE DEF r
<1> QED BY <1>5, <1>8, <1>9 DEF r, t, q

\* The activation of the surface's life, as its cases.
LEMMA ActivateLifeIs ==
    ASSUME NEW o, NEW output
    PROVE  ActivateLife(o, output) =
             IF Closing(o) THEN Rejected(o)
             ELSE IF o.state = "active" /\ (output = NoOutput \/ o.active \in {NoOutput, output})
                 THEN Applied(o)
             ELSE IF o.state = "active" THEN Rebind(o, output, FALSE)
             ELSE IF o.state = "rebinding" \/ (o.state = "degraded" /\ o.pending # NoOutput)
                 THEN AttemptRebind(o, FALSE)
             ELSE Promoted(Promote(PrepareLife(o).o), output)
BY DEF ActivateLife, Promoted

\* It keeps the invariant.
LEMMA ActivateLifeKeeps ==
    ASSUME NEW o, NEW output, Activated(o, output), Shown(o)
    PROVE  LET r == ActivateLife(o, output)
           IN  Result(r) /\ SurfaceInv(r.o)
<1> DEFINE a == AttemptRebind(o, FALSE)
           b == Rebind(o, output, FALSE)
           q == Promoted(Promote(PrepareLife(o).o), output)
           p == q.o
<1>1. /\ SurfaceInv(o) /\ o.begun /\ ~Closing(o) /\ Base(o)
      /\ o.state \in {"active", "rebinding", "degraded"}
      /\ (output = NoOutput <=> o.connected = {})
      /\ output \in o.connected \cup {NoOutput} /\ NoOutput \notin o.connected
  BY OutputsAssumption
     DEF Activated, SurfaceInv, Base, Closed, Closing, Ending, Shown, Whole
<1>2. CASE o.state = "active" /\ (output = NoOutput \/ o.active \in {NoOutput, output})
  BY <1>1, <1>2, ActivateLifeIs DEF Applied, Result
<1>3. CASE o.state = "active" /\ output # NoOutput /\ o.active \notin {NoOutput, output}
  <2>1. ActivateLife(o, output) = b BY <1>1, <1>3, ActivateLifeIs
  <2>2. Result(b) /\ SurfaceInv(b.o) BY <1>1, <1>3, RebindKeeps
  <2> QED BY <2>1, <2>2
<1>4. CASE o.state = "rebinding" \/ (o.state = "degraded" /\ o.pending # NoOutput)
  <2>1. ActivateLife(o, output) = a BY <1>1, <1>4, ActivateLifeIs
  <2>2. CASE o.pending = NoOutput
    <3>1. a = Rejected(o) BY <2>2 DEF AttemptRebind
    <3>2. Result(Rejected(o)) /\ Rejected(o).o = o BY DEF Rejected, Result
    <3> HIDE DEF a
    <3> QED BY <1>1, <2>1, <3>1, <3>2
  <2>3. CASE o.pending # NoOutput
    <3>1. PICK no \in BOOLEAN : no = FALSE OBVIOUS
    <3>2. Result(AttemptRebind(o, no)) /\ SurfaceInv(AttemptRebind(o, no).o)
      BY <1>1, <2>3, AttemptDoes
    <3>3. AttemptRebind(o, no) = a BY <3>1
    <3> QED BY <2>1, <3>2, <3>3
  <2> QED BY <2>2, <2>3
<1>5. CASE o.state = "degraded" /\ o.pending = NoOutput
  <2>1. ActivateLife(o, output) = q BY <1>1, <1>5, ActivateLifeIs
  <2>2. o.connected # {} => o.visible /\ o.native # NoSurface /\ ~o.native.layer
    BY <1>5 DEF Shown
  <2>3. /\ Result(q) /\ q.is \in {"applied", "failed"} /\ Base(p)
        /\ p.begun /\ p.pending = NoOutput /\ p.visible = o.visible
        /\ p.connected = o.connected
        /\ (q.is = "applied" => p.state = "active" /\ p.active = output)
        /\ (q.is = "failed" => p.state = "degraded")
        /\ (o.native # NoSurface =>
             /\ p.native # NoSurface
             /\ o.visible \/ q.is = "failed" => (p.native.layer <=> o.native.layer))
    BY <1>5, PromotedDoes
  <2> HIDE DEF q
  <2>4. Shown(p) BY <1>1, <2>2, <2>3 DEF Shown
  <2> QED BY <2>1, <2>3, <2>4 DEF SurfaceInv
<1> QED BY <1>1, <1>2, <1>3, <1>4, <1>5

\* The first activation, before the window is shown.
Ready(o, output) ==
    /\ Base(o) /\ o.begun /\ ~o.visible /\ o.pending = NoOutput /\ ~Ending(o)
    /\ ~o.free /\ ~o.released
    /\ o.state \in {"active", "degraded"}
    /\ o.state = "active" => o.active = output
    /\ Layered(o) => o.native # NoSurface
    /\ o.state = "degraded" => o.native = NoSurface \/ ~o.native.layer
    /\ output # NoOutput => o.screen = output

\* The first activation leaves a window that only has to be shown.
LEMMA StartLife ==
    ASSUME NEW o, NEW output, Activated(o, output), o.state = "prepared", ~o.visible,
           o.native # NoSurface => ~o.native.layer, output # NoOutput => o.screen = output,
           ~o.free, ~o.released
    PROVE  LET r == ActivateLife(o, output)
           IN  Result(r) /\ Ready(r.o, output)
<1> DEFINE q == Promoted(Promote(PrepareLife(o).o), output)
           p == q.o
<1>1. ActivateLife(o, output) = q BY ActivateLifeIs DEF Closing
<1>2. o.pending = NoOutput BY DEF Activated, Base, Waits
<1>3. /\ Result(q) /\ q.is \in {"applied", "failed"} /\ Base(p)
      /\ p.begun /\ p.pending = NoOutput /\ p.screen = o.screen /\ p.visible = o.visible
      /\ ~Ending(p) /\ ~p.free /\ ~p.released
      /\ (q.is = "applied" => p.state = "active" /\ p.active = output)
      /\ (q.is = "failed" => p.state = "degraded")
      /\ (Layered(p) => p.native # NoSurface)
      /\ (o.native # NoSurface =>
           /\ p.native # NoSurface
           /\ o.visible \/ q.is = "failed" => (p.native.layer <=> o.native.layer))
      /\ (o.native = NoSurface /\ q.is = "failed" => ~p.native.layer)
  BY <1>2, PromotedDoes
<1> HIDE DEF q
<1> QED BY <1>1, <1>3 DEF Ready

\* A calm call keeps what holds at all times.
LEMMA CalmBase ==
    ASSUME NEW o, Base(o), NEW p, Calm(o, p)
    PROVE  Base(p)
<1>1. /\ p.kind = o.kind /\ p.state = o.state /\ p.active = o.active
      /\ p.pending = o.pending /\ p.free = o.free /\ p.retry = o.retry
      /\ p.closed = o.closed /\ p.closing = o.closing /\ p.begun = o.begun
      /\ p.connected = o.connected /\ p.shut = o.shut /\ p.placing = o.placing
      /\ p.soon = o.soon /\ p.later = o.later /\ p.visible = o.visible
      /\ p.released = o.released /\ p.dragging = o.dragging
      /\ DOMAIN p.config = DOMAIN o.config
  BY SameLife DEF Calm
<1>2. Whole(p) BY <1>1 DEF Base, Whole, Calm, NativeKept
<1>3. Closed(p) BY <1>1 DEF Base, Closed, Ending
<1>4. Hides(p) /\ Waits(p) BY <1>1 DEF Base, Hides, Waits, Layered
<1>5. Unbegun(p) BY <1>1 DEF Base, Unbegun, Calm, NativeKept
<1> QED BY <1>2, <1>3, <1>4, <1>5 DEF Base

\* A calm call keeps the invariant.
LEMMA CalmInv ==
    ASSUME NEW o, SurfaceInv(o), NEW p, Calm(o, p)
    PROVE  SurfaceInv(p)
<1>1. Base(p) BY CalmBase DEF SurfaceInv
<1>2. Shown(p)
  BY SameLife DEF SurfaceInv, Shown, Waiting, Orphaned, Calm, NativeKept, Layered
<1> QED BY <1>1, <1>2 DEF SurfaceInv

\* What is disarmed, what is dragged and what a drag waits for is free to change.
LEMMA DisarmedKeeps ==
    ASSUME NEW o, NEW p, Rec(p),
           p.native = o.native /\ p.sure = o.sure /\ p.region = o.region,
           p.locked = o.locked /\ p.passthrough = o.passthrough,
           p.kind = o.kind /\ p.state = o.state /\ p.active = o.active,
           p.pending = o.pending /\ p.free = o.free,
           p.closed = o.closed /\ p.closing = o.closing /\ p.begun = o.begun,
           p.connected = o.connected /\ p.shut = o.shut,
           p.visible = o.visible /\ p.released = o.released,
           p.placing # NoPlacement => p.placing.object \in {p.placing.screen, Gone},
           DOMAIN p.config = DOMAIN o.config,
           p.retry => o.retry, p.soon => o.soon, p.later => o.later, p.dragging => o.begun
    PROVE  /\ Base(o) => Base(p)
           /\ SurfaceInv(o) /\ (p.pending # NoOutput => Waiting(p)) => SurfaceInv(p)
<1>1. Whole(o) => Whole(p) BY DEF Whole, NativeOK, Sure
<1>2. Closed(o) => Closed(p) BY DEF Closed, Ending
<1>3. (Hides(o) => Hides(p)) /\ (Waits(o) => Waits(p)) BY DEF Hides, Waits, Layered
<1>4. Unbegun(o) => Unbegun(p) BY DEF Unbegun
<1>5. Shown(o) /\ (p.pending # NoOutput => Waiting(p)) => Shown(p) BY DEF Shown, Layered
<1> QED BY <1>1, <1>2, <1>3, <1>4, <1>5 DEF SurfaceInv, Base

\* What is used most of the invariant.
LEMMA InvKnows ==
    ASSUME NEW o, Base(o)
    PROVE  /\ Rec(o) /\ NativeOK(o) /\ o.connected \in SUBSET Outputs
           /\ "screen" \in DOMAIN o.config
           /\ o.dragging \/ o.soon \/ o.later => o.begun
           /\ o.placing # NoPlacement => o.placing.object \in {o.placing.screen, Gone}
BY DEF Base, Whole, Unbegun

\* An activation runs the step of the surface's life, between calm ones.
LEMMA ActivateIs ==
    ASSUME NEW o, Base(o), ~Ending(o), o.begun
    PROVE  \E a : /\ Calm(o, a) /\ Activated(a, Target(o))
                  /\ Target(o) # NoOutput => a.screen = Target(o)
                  /\ LET q == ActivateLife(a, Target(o)).o
                     IN  Rec(q) /\ NativeOK(q) =>
                            Calm(q, Activate(o)) /\ Activate(o).screen = q.screen
<1> DEFINE output == Target(o)
           m == Aimed(o)
           b == Bound(m, output)
           a == [b EXCEPT !.sure = @ /\ o.state = "active"]
           r == ActivateLife(a, output)
           q == r.o
           c == [q EXCEPT !.chosen = output]
           d == MoveTo(c, output, q.layer).o
           e == Aimed(q)
           f == IF e.selected = NoOutput THEN e ELSE MoveWindow(e, e.selected, e.layer)
           t == IF Layered(o) /\ Succeeded(r) THEN d ELSE f
           n == ApplyInputRegion(t).o
           p == IF Raises(r) THEN q ELSE n
<1>1. /\ Rec(o) /\ NativeOK(o) /\ o.connected \in SUBSET Outputs BY InvKnows
<1>2. Calm(o, m) BY <1>1, AimedIsCalm
<1>3. Calm(m, b) /\ (output # NoOutput => b.screen = output)
  <2>1. Rec(m) /\ NativeOK(m) BY <1>2, CalmKeeps
  <2> HIDE DEF m, output
  <2> QED BY <2>1, AimedIsCalm
<1>4. Rec(b) /\ NativeOK(b) /\ Calm(o, b) BY <1>2, <1>3, CalmTrans, CalmKeeps
<1> HIDE DEF m, b
<1>5. /\ Rec(a) /\ Life(a) = Life(b) /\ a.native = b.native /\ a.locked = b.locked
      /\ a.region = b.region /\ a.passthrough = b.passthrough /\ a.screen = b.screen
      /\ (a.sure => b.sure /\ o.state = "active")
  BY <1>4, FieldNames DEF Rec, Life
<1>6. Calm(b, a)
  BY <1>4, <1>5 DEF Calm, NativeKept, NativeOK, Sure
<1> HIDE DEF a
<1>7. Calm(o, a) BY <1>4, <1>6, CalmTrans
<1>8. Activated(a, output)
  <2>1. Base(a) BY <1>7, CalmBase
  <2>2. a.state = o.state /\ a.begun = o.begun /\ a.closed = o.closed /\ a.closing = o.closing
        /\ a.connected = o.connected
    BY <1>7, SameLife DEF Calm
  <2>3. output \in o.connected \cup {NoOutput} /\ (output = NoOutput => o.connected = {})
    BY <1>1, TargetIsThere
  <2> QED BY <1>5, <2>1, <2>2, <2>3 DEF Activated, Ending
<1>9. Activate(o) = p
  BY DEF Activate, p, n, t, f, e, d, c, q, r, a, b, m, output
<1>10. ASSUME Rec(q), NativeOK(q) PROVE Calm(q, p) /\ p.screen = q.screen
  <2> HIDE DEF r, output
  <2>1. Calm(q, c) /\ c.screen = q.screen /\ Rec(c) /\ NativeOK(c)
    <3>1. /\ Rec(c) /\ Life(c) = Life(q) /\ c.native = q.native /\ c.sure = q.sure
          /\ c.locked = q.locked /\ c.region = q.region /\ c.passthrough = q.passthrough
          /\ c.screen = q.screen
      BY <1>10, FieldNames DEF Rec, Life
    <3> HIDE DEF c
    <3> QED BY <1>10, <3>1, QuietIsCalm DEF NativeOK
  <2>2. Calm(q, d) /\ d.screen = q.screen
    <3> HIDE DEF c
    <3>1. Calm(c, d) /\ Aim(d) = Aim(c) BY <2>1, MoveIsCalm
    <3> QED BY <2>1, <3>1, CalmTrans, SameAim
  <2>3. Calm(q, e) /\ e.screen = q.screen BY <1>10, AimedIsCalm, SameAim
  <2>4. Calm(q, f) /\ f.screen = q.screen
    <3> HIDE DEF e
    <3>1. Rec(e) /\ NativeOK(e) BY <2>3, CalmKeeps
    <3>2. \A y : Calm(e, MoveWindow(e, e.selected, y)) /\ Aim(MoveWindow(e, e.selected, y)) = Aim(e)
      BY <3>1, MoveWindowIsCalm
    <3> QED BY <2>3, <3>2, CalmTrans, SameAim
  <2>5. Calm(q, t) /\ t.screen = q.screen /\ Rec(t) /\ NativeOK(t)
    <3> HIDE DEF d, f
    <3>1. Calm(q, t) /\ t.screen = q.screen BY <2>2, <2>4
    <3> QED BY <3>1, CalmKeeps
  <2> HIDE DEF t
  <2>6. Calm(t, n) /\ n.screen = t.screen BY <2>5, RegionIsCalm, SameAim
  <2> HIDE DEF n, q
  <2>7. Calm(q, n) /\ n.screen = q.screen BY <2>5, <2>6, CalmTrans
  <2>8. Calm(q, q) BY <1>10, CalmRefl
  <2> QED BY <2>7, <2>8
<1> HIDE DEF p
<1> QED BY <1>3, <1>5, <1>7, <1>8, <1>9, <1>10

\* An activation of the window keeps the invariant.
LEMMA ActivateKeeps ==
    ASSUME NEW o, SurfaceInv(o), o.begun
    PROVE  SurfaceInv(Activate(o))
<1>1. CASE Ending(o) BY <1>1 DEF Activate
<1>2. CASE ~Ending(o)
  <2>1. PICK a : /\ Calm(o, a) /\ Activated(a, Target(o))
                 /\ LET q == ActivateLife(a, Target(o)).o
                    IN  Rec(q) /\ NativeOK(q) => Calm(q, Activate(o))
    BY <1>2, ActivateIs DEF SurfaceInv
  <2>2. SurfaceInv(a) BY <2>1, CalmInv
  <2>3. SurfaceInv(ActivateLife(a, Target(o)).o) BY <2>1, <2>2, ActivateLifeKeeps DEF SurfaceInv
  <2>4. Calm(ActivateLife(a, Target(o)).o, Activate(o))
    BY <2>1, <2>3, InvKnows DEF SurfaceInv
  <2> QED BY <2>3, <2>4, CalmInv
<1> QED BY <1>1, <1>2

-------------------------------------------------------------------------------
(* The events keep the invariant.                                          *)

\* A window that is ready satisfies the invariant once it is shown.
LEMMA ShowStarts ==
    ASSUME NEW o, NEW output, Ready(o, output)
    PROVE  SurfaceInv(Show(o))
<1> DEFINE p == Show(o)
<1>1. Rec(o) /\ NativeOK(o) /\ ~o.visible BY DEF Ready, Base, Whole
<1>2. /\ Rec(p) /\ NativeOK(p) /\ p.visible
      /\ p.kind = o.kind /\ p.state = o.state /\ p.active = o.active
      /\ p.pending = o.pending /\ p.free = o.free /\ p.retry = o.retry
      /\ p.closed = o.closed /\ p.closing = o.closing /\ p.begun = o.begun
      /\ p.connected = o.connected /\ p.shut = o.shut /\ p.placing = o.placing
      /\ p.released = o.released /\ DOMAIN p.config = DOMAIN o.config
      /\ p.dragging = o.dragging
      /\ (Sure(o) => Sure(p))
      /\ (o.locked = o.passthrough => p.locked = p.passthrough)
      /\ p.native # NoSurface
      /\ (Layered(o) => p.native.output = o.screen)
      /\ (o.native # NoSurface => p.native.layer = o.native.layer)
      /\ (o.native = NoSurface => ~p.native.layer)
  BY <1>1, ShowDoes
<1> HIDE DEF p
<1>3. Whole(p) BY <1>2 DEF Ready, Base, Whole
<1>4. Closed(p) BY <1>2 DEF Ready, Base, Closed, Ending
<1>5. Waits(p) /\ Unbegun(p) BY <1>2 DEF Ready, Base, Waits, Unbegun, Layered
<1>6. Hides(p) BY <1>2 DEF Ready, Hides
<1>7. Shown(p) BY <1>2 DEF Ready, Shown, Layered
<1> QED BY <1>3, <1>4, <1>5, <1>6, <1>7 DEF p, SurfaceInv, Base

\* A calm call that stays on the output leaves it ready.
LEMMA CalmReady ==
    ASSUME NEW o, NEW output, Ready(o, output), NEW p, Calm(o, p), p.screen = o.screen
    PROVE  Ready(p, output)
<1>1. Base(p) BY CalmBase DEF Ready
<1> QED BY <1>1, SameLife DEF Ready, Calm, NativeKept, Layered, Ending

\* The start of the application activates the window and shows it.
LEMMA BeginKeeps ==
    ASSUME NEW o, SurfaceInv(o), ~o.begun
    PROVE  SurfaceInv(Show(Activate([o EXCEPT !.begun = TRUE])))
<1> DEFINE b == [o EXCEPT !.begun = TRUE]
           p == Activate(b)
<1>1. Rec(o) /\ Base(o) BY DEF SurfaceInv, Base, Whole
<1>2. /\ Rec(b) /\ b.native = o.native /\ b.sure = o.sure /\ b.region = o.region
      /\ b.locked = o.locked /\ b.passthrough = o.passthrough
      /\ b.kind = o.kind /\ b.state = o.state /\ b.active = o.active
      /\ b.pending = o.pending /\ b.free = o.free /\ b.retry = o.retry
      /\ b.closed = o.closed /\ b.closing = o.closing /\ b.begun
      /\ b.connected = o.connected /\ b.shut = o.shut /\ b.placing = o.placing
      /\ b.visible = o.visible /\ b.released = o.released /\ b.config = o.config
      /\ b.soon = o.soon /\ b.later = o.later /\ b.dragging = o.dragging
  BY <1>1, FieldNames DEF Rec
<1> HIDE DEF b
<1>3. Whole(b) BY <1>1, <1>2 DEF Base, Whole, NativeOK, Sure
<1>4. Closed(b) /\ ~Ending(b) BY <1>1, <1>2 DEF Base, Closed, Unbegun, Ending
<1>5. Hides(b) /\ Waits(b) /\ Unbegun(b) BY <1>1, <1>2 DEF Base, Hides, Waits, Unbegun, Layered
<1>6. Base(b) BY <1>3, <1>4, <1>5 DEF Base
<1>7. /\ b.state = "prepared" /\ ~b.visible /\ ~b.free /\ ~b.released
      /\ (b.native # NoSurface => ~b.native.layer)
  BY <1>1, <1>2 DEF Base, Unbegun
<1>8. PICK a : /\ Calm(b, a) /\ Activated(a, Target(b))
               /\ Target(b) # NoOutput => a.screen = Target(b)
               /\ LET q == ActivateLife(a, Target(b)).o
                  IN  Rec(q) /\ NativeOK(q) =>
                         Calm(q, Activate(b)) /\ Activate(b).screen = q.screen
  BY <1>2, <1>4, <1>6, ActivateIs
<1> DEFINE q == ActivateLife(a, Target(b)).o
<1>9. /\ a.state = "prepared" /\ ~a.visible /\ ~a.free /\ ~a.released
      /\ (a.native # NoSurface => ~a.native.layer)
  BY <1>7, <1>8, SameLife DEF Calm, NativeKept
<1>10. Ready(q, Target(b)) BY <1>8, <1>9, StartLife
<1>11. Calm(q, p) /\ p.screen = q.screen BY <1>8, <1>10, InvKnows DEF Ready
<1>12. Ready(p, Target(b)) BY <1>10, <1>11, CalmReady
<1> HIDE DEF p
<1>13. SurfaceInv(Show(p)) BY <1>12, ShowStarts
<1> QED BY <1>13 DEF p, b

\* Scheduling a retry establishes the invariant of a window that waits for an output, or for
\* any to be connected.
LEMMA ScheduleInv ==
    ASSUME NEW o, Base(o), o.state \in {"rebinding", "degraded"}, ~o.closed,
           o.state = "degraded" /\ o.pending = NoOutput => o.connected = {}
    PROVE  SurfaceInv(ScheduleRetry(o))
<1> DEFINE b == o.retry \/ (o.state \in {"rebinding", "degraded"} /\ o.pending # NoOutput)
           q == [o EXCEPT !.retry = b]
<1>1. o.pending # NoOutput => b OBVIOUS
<1> HIDE DEF b
<1>2. /\ Rec(q) /\ q.native = o.native /\ q.sure = o.sure /\ q.region = o.region
      /\ q.locked = o.locked /\ q.passthrough = o.passthrough
      /\ q.kind = o.kind /\ q.state = o.state /\ q.active = o.active
      /\ q.pending = o.pending /\ q.free = o.free /\ (q.retry <=> b)
      /\ q.closed = o.closed /\ q.closing = o.closing /\ q.begun = o.begun
      /\ q.connected = o.connected /\ q.shut = o.shut /\ q.placing = o.placing
      /\ q.visible = o.visible /\ q.released = o.released /\ q.config = o.config
      /\ q.soon = o.soon /\ q.later = o.later /\ q.dragging = o.dragging
  BY FieldNames DEF Rec, Base, Whole
<1>3. ScheduleRetry(o) = q BY DEF ScheduleRetry, q, b
<1> HIDE DEF q
<1>4. Whole(q) BY <1>2 DEF Base, Whole, NativeOK, Sure
<1>5. Closed(q) BY <1>2 DEF Base, Closed, Ending
<1>6. Hides(q) /\ Waits(q) BY <1>2 DEF Base, Hides, Waits, Layered
<1>7. Unbegun(q) BY <1>2 DEF Base, Unbegun
<1>8. Shown(q) BY <1>1, <1>2 DEF Shown, Waiting
<1> QED BY <1>3, <1>4, <1>5, <1>6, <1>7, <1>8 DEF SurfaceInv, Base

\* A surface whose rebuild failed is degraded.
LEMMA StateKeeps ==
    ASSUME NEW o, Base(o), o.state \in {"rebinding", "degraded"}
    PROVE  LET p == [o EXCEPT !.state = "degraded"]
           IN  Base(p) /\ p.state = "degraded" /\ p.pending = o.pending
               /\ p.connected = o.connected /\ p.closed = o.closed
<1> DEFINE p == [o EXCEPT !.state = "degraded"]
<1>1. /\ Rec(p) /\ p.native = o.native
      /\ p.locked = o.locked /\ p.passthrough = o.passthrough
      /\ p.kind = o.kind /\ p.state = "degraded" /\ p.active = o.active
      /\ p.pending = o.pending /\ p.free = o.free /\ p.retry = o.retry
      /\ p.closed = o.closed /\ p.closing = o.closing /\ p.begun = o.begun
      /\ p.connected = o.connected /\ p.shut = o.shut /\ p.placing = o.placing
      /\ p.visible = o.visible /\ p.released = o.released /\ p.config = o.config
      /\ p.soon = o.soon /\ p.later = o.later /\ p.dragging = o.dragging
  BY FieldNames DEF Rec, Base, Whole
<1> HIDE DEF p
<1>2. Whole(p) BY <1>1 DEF Base, Whole, NativeOK
<1>3. Closed(p) BY <1>1 DEF Base, Closed, Ending
<1>4. Hides(p) /\ Waits(p) /\ Unbegun(p) BY <1>1 DEF Base, Hides, Waits, Unbegun, Layered
<1> QED BY <1>1, <1>2, <1>3, <1>4 DEF Base, p

\* An output is removed: the surface on it is lost, and the one that waits for it waits for
\* another.
LEMMA RemovedKeeps ==
    ASSUME NEW o, SurfaceInv(o), NEW s \in o.connected
    PROVE  SurfaceInv(ScreenRemoved(o, s))
<1> DEFINE left == o.connected \ {s}
           Left(object) == IF object = s THEN Gone ELSE object
           screen == IF o.screen = s THEN FirstOf(left) ELSE o.screen
           chosen == Left(o.chosen)
           selected == Left(o.selected)
           placing == IF o.placing = NoPlacement \/ o.placing.object # s THEN o.placing
                      ELSE [o.placing EXCEPT !.object = Gone]
           native == IF o.native = NoSurface \/ o.native.output # s THEN o.native
                     ELSE [o.native EXCEPT !.output = IF o.native.layer THEN NoOutput ELSE FirstOf(left)]
           f == [o EXCEPT !.connected = left, !.screen = screen, !.chosen = chosen,
                          !.selected = selected, !.placing = placing, !.native = native]
           next == Preferred(f)
           waiting == IF f.pending = s THEN next ELSE f.pending
           r == [f EXCEPT !.pending = waiting]
           l == [r EXCEPT !.active = NoOutput, !.pending = next, !.state = "rebinding"]
           a == FreeForRebind(l)
<1>1. Base(o) /\ Rec(o) /\ NativeOK(o) /\ o.connected \in SUBSET Outputs
  BY InvKnows DEF SurfaceInv
<1>2. s # NoOutput /\ s # Gone /\ NoOutput \notin o.connected
  BY <1>1, OutputsAssumption
<1>3. placing # NoPlacement => placing.object \in {placing.screen, Gone}
  <2>1. CASE o.placing = NoPlacement \/ o.placing.object # s
    BY <2>1, <1>1, InvKnows
  <2>2. CASE o.placing # NoPlacement /\ o.placing.object = s
    <3>1. o.placing.object \in {o.placing.screen, Gone} BY <2>2, <1>1, InvKnows
    <3>2. placing = [o.placing EXCEPT !.object = Gone] BY <2>2
    <3>3. placing.screen = o.placing.screen BY <3>2
    <3>4. placing.object \in {o.placing.object, Gone} BY <3>2
    <3> QED BY <3>1, <3>3, <3>4
  <2> QED BY <2>1, <2>2
<1>14. Orphaned(o) => placing = o.placing BY <1>2 DEF Orphaned
<1>4. /\ native = NoSurface \/ DOMAIN native = NativeFields
      /\ o.native = NoSurface <=> native = NoSurface
      /\ o.native # NoSurface => /\ native.layer = o.native.layer /\ native.input = o.native.input
                                 /\ o.native.output # s => native.output = o.native.output
  BY <1>1, NoWindow DEF NativeOK, NativeFields
<1> HIDE DEF screen, chosen, selected, placing, native
<1>5. /\ Rec(f) /\ f.native = native /\ f.sure = o.sure /\ f.region = o.region
      /\ f.locked = o.locked /\ f.passthrough = o.passthrough
      /\ f.kind = o.kind /\ f.state = o.state /\ f.active = o.active
      /\ f.pending = o.pending /\ f.free = o.free /\ f.retry = o.retry
      /\ f.closed = o.closed /\ f.closing = o.closing /\ f.begun = o.begun
      /\ f.connected = left /\ f.shut = o.shut /\ f.placing = placing
      /\ f.visible = o.visible /\ f.released = o.released /\ f.config = o.config
      /\ f.soon = o.soon /\ f.later = o.later /\ f.dragging = o.dragging
  BY <1>1, FieldNames DEF Rec
<1> HIDE DEF f
<1>6. next \in left \cup {NoOutput} /\ (next = NoOutput => left = {})
  BY <1>1, <1>5, TargetIsThere
<1> HIDE DEF next
<1>7. waiting # NoOutput => waiting \in left /\ o.pending # NoOutput
  BY <1>1, <1>2, <1>5, <1>6 DEF Base, Waits
<1> HIDE DEF waiting
<1>8. /\ Rec(r) /\ r.native = native /\ r.sure = o.sure /\ r.region = o.region
      /\ r.locked = o.locked /\ r.passthrough = o.passthrough
      /\ r.kind = o.kind /\ r.state = o.state /\ r.active = o.active
      /\ r.pending = waiting /\ r.free = o.free /\ r.retry = o.retry
      /\ r.closed = o.closed /\ r.closing = o.closing /\ r.begun = o.begun
      /\ r.connected = left /\ r.shut = o.shut /\ r.placing = placing
      /\ r.visible = o.visible /\ r.released = o.released /\ r.config = o.config
      /\ r.soon = o.soon /\ r.later = o.later /\ r.dragging = o.dragging
  BY <1>5, FieldNames DEF Rec
<1> HIDE DEF r
<1>9. ScreenRemoved(o, s) = OutputRemoved(f, s, next)
  <2> DEFINE F == [o EXCEPT
            !.connected = left,
            !.screen = IF @ = s THEN FirstOf(left) ELSE @,
            !.chosen = Left(@), !.selected = Left(@),
            !.placing = IF @ = NoPlacement \/ @.object # s THEN @
                       ELSE [@ EXCEPT !.object = Gone],
            !.native = IF @ = NoSurface \/ @.output # s THEN @
                       ELSE [@ EXCEPT !.output = IF o.native.layer THEN NoOutput ELSE FirstOf(left)]]
  <2>1. F = f BY DEF f, screen, chosen, selected, placing, native
  <2>2. ScreenRemoved(o, s) = OutputRemoved(F, s, Preferred(F)) BY DEF ScreenRemoved
  <2> HIDE DEF F
  <2> QED BY <2>1, <2>2 DEF next
<1>10. OutputRemoved(f, s, next) =
        IF ~Layered(f) THEN f
        ELSE IF f.active # s \/ s = NoOutput THEN r
        ELSE IF Succeeded(a) THEN ScheduleRetry(a.o) ELSE Degraded(a).o
  BY DEF OutputRemoved, r, l, a, waiting
<1>11. CASE ~Layered(f)
  <2>1. o.state \notin {"rebinding", "degraded"} /\ o.pending = NoOutput /\ ~Layered(o)
    BY <1>1, <1>5, <1>11 DEF Base, Waits, Layered
  <2>2. Whole(f) BY <1>1, <1>3, <1>4, <1>5 DEF Base, Whole, NativeOK, Sure
  <2>3. Closed(f) BY <1>1, <1>5 DEF Base, Closed, Ending
  <2>4. Hides(f) /\ Waits(f) BY <1>1, <1>5, <2>1 DEF Base, Hides, Waits
  <2>5. Unbegun(f) BY <1>1, <1>4, <1>5 DEF Base, Unbegun
  <2>6. Shown(f) BY <1>5, <1>11, <2>1 DEF SurfaceInv, Shown
  <2> QED BY <1>9, <1>10, <1>11, <2>2, <2>3, <2>4, <2>5, <2>6 DEF SurfaceInv, Base
<1>12. CASE Layered(f) /\ f.active # s
  <2>1. Layered(o) /\ Layered(r) BY <1>5, <1>8, <1>12 DEF Layered
  <2>2. Whole(r) BY <1>1, <1>3, <1>4, <1>8 DEF Base, Whole, NativeOK, Sure
  <2>3. Closed(r) BY <1>1, <1>8 DEF Base, Closed, Ending
  <2>4. Hides(r) /\ Waits(r) BY <1>1, <1>7, <1>8, <2>1 DEF Base, Hides, Waits
  <2>5. Unbegun(r) BY <1>1, <1>4, <1>8 DEF Base, Unbegun
  <2>6. o.pending # NoOutput /\ waiting = NoOutput => left = {}
    BY <1>5, <1>6 DEF waiting
  <2>7. left # {} => o.connected # {} OBVIOUS
  <2>8. Shown(r)
    BY <1>4, <1>5, <1>7, <1>8, <1>12, <1>14, <2>1, <2>6, <2>7
       DEF SurfaceInv, Shown, Waiting, Orphaned
  <2> QED BY <1>9, <1>10, <1>12, <2>2, <2>3, <2>4, <2>5, <2>8 DEF SurfaceInv, Base
<1>13. CASE Layered(f) /\ f.active = s
  <2>1. /\ Rec(l) /\ l.native = native
        /\ l.locked = o.locked /\ l.passthrough = o.passthrough
        /\ l.kind = o.kind /\ l.state = "rebinding" /\ l.active = NoOutput
        /\ l.pending = next /\ l.free = o.free /\ l.retry = o.retry
        /\ l.closed = o.closed /\ l.closing = o.closing /\ l.begun = o.begun
        /\ l.connected = left /\ l.shut = o.shut /\ l.placing = placing
        /\ l.visible = o.visible /\ l.released = o.released /\ l.config = o.config
        /\ l.soon = o.soon /\ l.later = o.later /\ l.dragging = o.dragging
    BY <1>8, FieldNames DEF Rec
  <2> HIDE DEF l
  <2>2. Layered(l) /\ o.begun /\ ~o.closed
    BY <1>1, <1>2, <1>5, <1>13, <2>1 DEF Base, Unbegun, Closed, Layered
  <2>3. Whole(l) BY <1>1, <1>3, <1>4, <2>1 DEF Base, Whole, NativeOK
  <2>4. Closed(l) BY <1>1, <2>1, <2>2 DEF Base, Closed, Ending
  <2>5. Hides(l) /\ Waits(l) BY <1>1, <1>6, <2>1, <2>2 DEF Base, Hides, Waits
  <2>6. Unbegun(l) BY <2>1, <2>2 DEF Unbegun
  <2>7. Base(l) BY <2>3, <2>4, <2>5, <2>6 DEF Base
  <2>8. /\ Result(a) /\ a.is \in {"applied", "failed"} /\ Base(a.o)
        /\ a.o.pending = next /\ a.o.state = "rebinding" /\ a.o.connected = left
    BY <2>1, <2>7, FreeKeepsBase
  <2> HIDE DEF a
  <2>9. ~a.o.closed BY <2>8 DEF Base, Closed
  <2>10. SurfaceInv(ScheduleRetry(a.o)) BY <2>8, <2>9, ScheduleInv
  <2> DEFINE g == [a.o EXCEPT !.state = "degraded"]
  <2>11. /\ Base(g) /\ g.state = "degraded" /\ g.pending = next
         /\ g.connected = left /\ ~g.closed
    BY <2>8, <2>9, StateKeeps
  <2>12. a.is = "failed" => Degraded(a).o = ScheduleRetry(g)
    BY <2>8 DEF Degraded, Retryable, Result
  <2> HIDE DEF g
  <2>13. SurfaceInv(ScheduleRetry(g)) BY <1>6, <2>11, ScheduleInv
  <2> QED BY <1>2, <1>9, <1>10, <1>13, <2>8, <2>10, <2>12, <2>13 DEF Succeeded
<1> QED BY <1>11, <1>12, <1>13

\* An output is added: a surface that was lost waits for it.
LEMMA AddedKeeps ==
    ASSUME NEW o, SurfaceInv(o), NEW s \in Outputs \ o.connected
    PROVE  SurfaceInv(ScreenAdded(o, s))
<1> DEFINE some == o.connected \cup {s}
           screen == IF o.connected = {} THEN s ELSE o.screen
           j == [o EXCEPT !.connected = some, !.screen = screen]
           next == Preferred(j)
           w == [j EXCEPT !.pending = next, !.state = "rebinding"]
<1>1. Base(o) /\ Rec(o) /\ o.connected \in SUBSET Outputs
  BY InvKnows DEF SurfaceInv
<1>2. ScreenAdded(o, s) = IF j.state \notin {"rebinding", "degraded"} THEN j ELSE ScheduleRetry(w)
  BY DEF ScreenAdded, OutputAdded, j, w, next
<1> HIDE DEF screen
<1>3. /\ Rec(j) /\ j.native = o.native /\ j.sure = o.sure /\ j.region = o.region
      /\ j.locked = o.locked /\ j.passthrough = o.passthrough
      /\ j.kind = o.kind /\ j.state = o.state /\ j.active = o.active
      /\ j.pending = o.pending /\ j.free = o.free /\ j.retry = o.retry
      /\ j.closed = o.closed /\ j.closing = o.closing /\ j.begun = o.begun
      /\ j.connected = some /\ j.shut = o.shut /\ j.placing = o.placing
      /\ j.visible = o.visible /\ j.released = o.released /\ j.config = o.config
      /\ j.soon = o.soon /\ j.later = o.later /\ j.dragging = o.dragging
  BY <1>1, FieldNames DEF Rec
<1> HIDE DEF j
<1>4. some \in SUBSET Outputs /\ some # {} BY <1>1
<1>5. next \in some /\ next # NoOutput BY <1>3, <1>4, TargetIsThere, OutputsAssumption
<1> HIDE DEF next
<1>6. CASE j.state \notin {"rebinding", "degraded"}
  <2>1. Whole(j) BY <1>1, <1>3, <1>4 DEF Base, Whole, NativeOK, Sure
  <2>2. Closed(j) BY <1>1, <1>3 DEF Base, Closed, Ending
  <2>3. Hides(j) /\ Waits(j) BY <1>1, <1>3, <1>6 DEF Base, Hides, Waits
  <2>4. Unbegun(j) BY <1>1, <1>3 DEF Base, Unbegun
  <2>5. o.pending = NoOutput BY <1>1, <1>3, <1>6 DEF Base, Waits
  <2>6. Shown(j) BY <1>3, <1>6, <2>5 DEF SurfaceInv, Shown, Layered
  <2> QED BY <1>2, <1>6, <2>1, <2>2, <2>3, <2>4, <2>6 DEF SurfaceInv, Base
<1>7. CASE j.state \in {"rebinding", "degraded"}
  <2>1. /\ Rec(w) /\ w.native = j.native
        /\ w.locked = j.locked /\ w.passthrough = j.passthrough
        /\ w.kind = j.kind /\ w.state = "rebinding" /\ w.active = j.active
        /\ w.pending = next /\ w.free = j.free /\ w.retry = j.retry
        /\ w.closed = j.closed /\ w.closing = j.closing /\ w.begun = j.begun
        /\ w.connected = j.connected /\ w.shut = j.shut /\ w.placing = j.placing
        /\ w.visible = j.visible /\ w.released = j.released /\ w.config = j.config
        /\ w.soon = j.soon /\ w.later = j.later /\ w.dragging = j.dragging
    BY <1>3, FieldNames DEF Rec
  <2> HIDE DEF w
  <2>2. Whole(w) BY <1>1, <1>3, <1>4, <2>1 DEF Base, Whole, NativeOK
  <2>3. Closed(w) BY <1>1, <1>3, <1>7, <2>1 DEF Base, Closed, Ending
  <2>4. Hides(w) /\ Waits(w) BY <1>1, <1>3, <1>5, <1>7, <2>1 DEF Base, Hides, Waits, Layered
  <2>5. Unbegun(w) /\ ~w.closed BY <1>1, <1>3, <1>7, <2>1 DEF Base, Unbegun, Closed
  <2>6. SurfaceInv(ScheduleRetry(w)) BY <2>1, <2>2, <2>3, <2>4, <2>5, ScheduleInv DEF Base
  <2> QED BY <1>2, <1>7, <2>6
<1> QED BY <1>6, <1>7
\* Single edits that no part of the invariant reads.
LEMMA EditsAreCalm ==
    ASSUME NEW o, Rec(o), NativeOK(o), NEW v
    PROVE  /\ Calm(o, [o EXCEPT !.bad = v])
           /\ Calm(o, [o EXCEPT !.inputDue = v])
           /\ Calm(o, [o EXCEPT !.resize = v])
           /\ Calm(o, [o EXCEPT !.suppress = v])
           /\ Calm(o, [o EXCEPT !.moved = v])
           /\ Calm(o, [o EXCEPT !.applied = v])
           /\ Calm(o, [o EXCEPT !.grab = v])
           /\ Calm(o, [o EXCEPT !.stroke = v])
           /\ Calm(o, [o EXCEPT !.layer = v])
           /\ Calm(o, [o EXCEPT !.at = v])
<1>1. Calm(o, [o EXCEPT !.bad = v])
  BY FieldNames, QuietIsCalm DEF Rec, Life
<1>2. Calm(o, [o EXCEPT !.inputDue = v])
  BY FieldNames, QuietIsCalm DEF Rec, Life
<1>3. Calm(o, [o EXCEPT !.resize = v])
  BY FieldNames, QuietIsCalm DEF Rec, Life
<1>4. Calm(o, [o EXCEPT !.suppress = v])
  BY FieldNames, QuietIsCalm DEF Rec, Life
<1>5. Calm(o, [o EXCEPT !.moved = v])
  BY FieldNames, QuietIsCalm DEF Rec, Life
<1>6. Calm(o, [o EXCEPT !.applied = v])
  BY FieldNames, QuietIsCalm DEF Rec, Life
<1>7. Calm(o, [o EXCEPT !.grab = v])
  BY FieldNames, QuietIsCalm DEF Rec, Life
<1>8. Calm(o, [o EXCEPT !.stroke = v])
  BY FieldNames, QuietIsCalm DEF Rec, Life
<1>9. Calm(o, [o EXCEPT !.layer = v])
  BY FieldNames, QuietIsCalm DEF Rec, Life
<1>10. Calm(o, [o EXCEPT !.at = v])
  BY FieldNames, QuietIsCalm DEF Rec, Life
<1> QED BY <1>1, <1>2, <1>3, <1>4, <1>5, <1>6, <1>7, <1>8, <1>9, <1>10

\* The same edits keep the invariant.
LEMMA QuietKeeps ==
    ASSUME NEW o, SurfaceInv(o), NEW v
    PROVE  /\ SurfaceInv([o EXCEPT !.bad = v]) /\ SurfaceInv([o EXCEPT !.inputDue = v])
           /\ SurfaceInv([o EXCEPT !.resize = v]) /\ SurfaceInv([o EXCEPT !.suppress = v])
           /\ SurfaceInv([o EXCEPT !.grab = v]) /\ SurfaceInv([o EXCEPT !.layer = v])
<1>1. Rec(o) /\ NativeOK(o) BY InvKnows DEF SurfaceInv
<1> QED BY <1>1, EditsAreCalm, CalmInv

\* A shutdown closes the window and disarms it, or fails and leaves it closing.
LEMMA ShutdownKeeps ==
    ASSUME NEW o, SurfaceInv(o), o.begun
    PROVE  SurfaceInv(Shutdown(o))
<1> DEFINE c == [o EXCEPT !.closing = TRUE, !.soon = FALSE, !.later = FALSE,
                          !.inputDue = FALSE, !.resize = FALSE]
           k == [c EXCEPT !.state = "closing", !.retry = FALSE, !.pending = NoOutput]
           s == ReleaseSurface(k)
           r == CloseAdapter(k)
           d == [r EXCEPT !.o.free = TRUE, !.o.active = NoOutput, !.o.state = "closed"]
           e == [r.o EXCEPT !.free = TRUE, !.active = NoOutput, !.state = "closed"]
           z == [e EXCEPT !.closed = TRUE, !.closing = FALSE]
<1>1. Rec(o) /\ Base(o) /\ NativeOK(o) BY InvKnows DEF SurfaceInv
<1>2. CASE o.closed BY <1>2 DEF Shutdown
<1>3. CASE ~o.closed
  <2>1. o.state # "closed" /\ ~o.shut BY <1>1, <1>3 DEF Base, Closed
  <2>2. /\ Rec(k) /\ k.native = o.native /\ k.locked = o.locked /\ k.passthrough = o.passthrough
        /\ k.kind = o.kind /\ k.state = "closing" /\ k.active = o.active
        /\ k.pending = NoOutput /\ k.free = o.free /\ k.retry = FALSE
        /\ k.closed = o.closed /\ k.closing = TRUE /\ k.begun = o.begun
        /\ k.connected = o.connected /\ k.shut = o.shut /\ k.placing = o.placing
        /\ k.visible = o.visible /\ k.released = o.released /\ k.config = o.config
        /\ k.soon = FALSE /\ k.later = FALSE /\ k.dragging = o.dragging /\ c.state = o.state
    BY <1>1, FieldNames DEF Rec
  <2>3. CloseLife(c) = IF Succeeded(r) THEN d ELSE r
    BY <2>1, <2>2 DEF CloseLife, r, d, k
  <2> HIDE DEF k
  <2>4. NativeOK(k) /\ ~k.shut BY <1>1, <2>1, <2>2 DEF NativeOK
  <2>5. /\ Result(s) /\ s.is \in {"applied", "failed"} /\ Like(k, s.o)
        /\ (k.released => s.is = "applied" /\ s.o = k)
        /\ (~k.released /\ (s.is = "applied" \/ Layered(k)) => ~s.o.visible)
        /\ (~k.released /\ s.is # "applied" => ~s.o.released)
        /\ (~k.visible => ~s.o.visible)
    BY <2>2, <2>4, ReleaseDoes
  <2>6. /\ Result(r) /\ r.is = s.is
        /\ r.o = [s.o EXCEPT !.stroke = FALSE, !.shut = (s.is = "applied")]
    BY <2>2, <2>4, CloseIsRelease
  <2> HIDE DEF s, r
  <2> DEFINE m == s.is = "applied"
             h == [s.o EXCEPT !.stroke = FALSE, !.shut = m]
  <2>7. r.o = h BY <2>6
  <2> HIDE DEF m
  <2>8. /\ Mind(s.o) = Mind(k) /\ Aim(s.o) = Aim(k)
        /\ Rec(s.o) /\ NativeOK(s.o)
        /\ s.o.locked = k.locked /\ s.o.passthrough = k.passthrough
    BY <2>5 DEF Like
  <2>9. /\ s.o.kind = k.kind /\ s.o.state = k.state /\ s.o.active = k.active
        /\ s.o.pending = k.pending /\ s.o.free = k.free /\ s.o.retry = k.retry
        /\ s.o.closed = k.closed /\ s.o.closing = k.closing /\ s.o.begun = k.begun
        /\ s.o.connected = k.connected /\ s.o.placing = k.placing
        /\ s.o.soon = k.soon /\ s.o.later = k.later /\ s.o.dragging = k.dragging
        /\ DOMAIN s.o.config = DOMAIN k.config
    BY <2>8, SameMind
  <2>10. /\ Rec(h) /\ h.native = s.o.native /\ h.locked = o.locked /\ h.passthrough = o.passthrough
         /\ h.kind = o.kind /\ h.state = "closing" /\ h.active = o.active
         /\ h.pending = NoOutput /\ h.free = o.free /\ h.retry = FALSE
         /\ h.closed = o.closed /\ h.closing = TRUE /\ h.begun = o.begun
         /\ h.connected = o.connected /\ (h.shut <=> m) /\ h.placing = o.placing
         /\ h.visible = s.o.visible /\ h.released = s.o.released
         /\ DOMAIN h.config = DOMAIN o.config
         /\ h.soon = FALSE /\ h.later = FALSE /\ h.dragging = o.dragging
    BY <2>2, <2>8, <2>9, FieldNames DEF Rec
  <2> HIDE DEF h
  <2>11. NativeOK(h) BY <2>8, <2>10 DEF NativeOK
  <2>12. CASE s.is = "failed"
    <3>1. Shutdown(o) = h BY <1>3, <2>3, <2>6, <2>7, <2>12 DEF Shutdown, Succeeded
    <3>2. ~m BY <2>12 DEF m
    <3>3. Whole(h) BY <1>1, <2>10, <2>11 DEF Base, Whole
    <3>4. Closed(h) BY <1>1, <1>3, <2>10, <3>2 DEF Base, Closed, Ending
    <3>5. ~k.released BY <2>5, <2>12
    <3>6. Hides(h) BY <1>1, <2>2, <2>5, <2>10, <2>12, <3>5 DEF Base, Hides
    <3>7. Waits(h) /\ Unbegun(h) /\ Shown(h) BY <2>10 DEF Waits, Unbegun, Shown
    <3> QED BY <3>1, <3>3, <3>4, <3>6, <3>7 DEF SurfaceInv, Base
  <2>13. CASE s.is = "applied"
    <3>1. d.o = e /\ d.is = "applied" BY <2>6, <2>13 DEF Result
    <3>2. Shutdown(o) = z BY <1>3, <2>3, <2>6, <2>13, <3>1 DEF Shutdown, Succeeded
    <3>3. m BY <2>13 DEF m
    <3>4. /\ Rec(z) /\ z.native = h.native /\ z.locked = o.locked /\ z.passthrough = o.passthrough
          /\ z.kind = o.kind /\ z.state = "closed" /\ z.active = NoOutput
          /\ z.pending = NoOutput /\ z.retry = FALSE
          /\ z.closed = TRUE /\ z.closing = FALSE /\ z.begun = o.begun
          /\ z.connected = o.connected /\ z.shut /\ z.placing = o.placing
          /\ z.visible = h.visible
          /\ DOMAIN z.config = DOMAIN o.config
          /\ z.soon = FALSE /\ z.later = FALSE /\ z.dragging = o.dragging
      BY <2>7, <2>10, <3>3, FieldNames DEF Rec
    <3> HIDE DEF z
    <3>5. ~z.visible
      BY <1>1, <2>2, <2>5, <2>10, <2>13, <3>4 DEF Base, Hides
    <3>6. Whole(z) BY <1>1, <2>11, <3>4 DEF Base, Whole, NativeOK
    <3>7. Closed(z) BY <3>4, <3>5 DEF Closed, Ending
    <3>8. Hides(z) /\ Waits(z) /\ Unbegun(z) /\ Shown(z)
      BY <3>4, <3>5 DEF Hides, Waits, Unbegun, Shown
    <3> QED BY <3>2, <3>6, <3>7, <3>8 DEF SurfaceInv, Base
  <2> QED BY <2>5, <2>12, <2>13
<1> QED BY <1>2, <1>3

\* The lock is toggled, in the window and then in the configuration.
LEMMA ToggleKeeps ==
    ASSUME NEW o, SurfaceInv(o)
    PROVE  /\ \A locked : Calm(o, SetPassthrough(o, locked))
           /\ SurfaceInv(Toggle(o))
<1>1. Rec(o) /\ NativeOK(o) BY InvKnows DEF SurfaceInv
<1>2. ASSUME NEW locked
      PROVE  Calm(o, SetPassthrough(o, locked))
  <2> DEFINE p == [o EXCEPT !.passthrough = locked]
             m == SetInputMode(p, locked).o
  <2>1. /\ Rec(p) /\ Life(p) = Life(o) /\ p.native = o.native /\ p.sure = o.sure
        /\ p.region = o.region /\ p.locked = o.locked /\ p.passthrough = locked
    BY <1>1, FieldNames DEF Rec, Life
  <2> HIDE DEF p
  <2>2. NativeOK(p) BY <1>1, <2>1 DEF NativeOK
  <2>3. /\ Rec(m) /\ Life(m) = Life(p) /\ NativeKept(p, m) /\ (Sure(p) => Sure(m))
        /\ m.locked = locked /\ m.passthrough = p.passthrough
    BY <2>1, <2>2, ModeIsCalm
  <2> HIDE DEF m
  <2>4. p.kind = o.kind BY <2>1, SameLife
  <2>5. Calm(o, m) BY <2>1, <2>3, <2>4 DEF Calm, NativeKept, Sure, Layered
  <2>6. Rec(m) /\ NativeOK(m) BY <2>5, CalmKeeps
  <2>7. Calm(m, [m EXCEPT !.inputDue = TRUE]) BY <2>6, EditsAreCalm
  <2>8. Calm(o, [m EXCEPT !.inputDue = TRUE]) BY <2>5, <2>7, CalmTrans
  <2>9. Calm(o, o) BY <1>1, CalmRefl
  <2> QED BY <2>8, <2>9 DEF SetPassthrough, m, p
<1> DEFINE w == SetPassthrough(o, ~o.config.passthrough)
           t == [w EXCEPT !.config.passthrough = ~@]
<1>3. Calm(o, w) BY <1>2
<1> HIDE DEF w
<1>4. Rec(w) /\ NativeOK(w) BY <1>3, CalmKeeps
<1> DEFINE c == [w.config EXCEPT !.passthrough = ~@]
<1>5. DOMAIN c = DOMAIN w.config OBVIOUS
<1>6. t = [w EXCEPT !.config = c] BY <1>4, FieldNames DEF Rec
<1> HIDE DEF c, t
<1>7. /\ Rec(t) /\ Life(t) = Life(w) /\ t.native = w.native /\ t.sure = w.sure
      /\ t.region = w.region /\ t.locked = w.locked /\ t.passthrough = w.passthrough
  BY <1>4, <1>5, <1>6, FieldNames DEF Rec, Life
<1>8. Calm(w, t) BY <1>4, <1>7, QuietIsCalm
<1>9. SurfaceInv(t) BY <1>3, <1>8, CalmInv
<1> QED BY <1>2, <1>9 DEF Toggle, t, w

\* A frame with a new height arrives.
LEMMA FrameKeeps ==
    ASSUME NEW o, SurfaceInv(o), NEW h
    PROVE  SurfaceInv(OnFrame(o, h))
<1> DEFINE w == o.resize \/ h # o.height
           p == [o EXCEPT !.content = h, !.inputDue = TRUE, !.resize = w]
<1>1. Rec(o) /\ NativeOK(o) BY InvKnows DEF SurfaceInv
<1>2. OnFrame(o, h) = IF Ending(o) THEN o ELSE p BY <1>1, FieldNames DEF OnFrame, Rec
<1> HIDE DEF w
<1>3. /\ Rec(p) /\ Life(p) = Life(o) /\ p.native = o.native /\ p.sure = o.sure
      /\ p.region = o.region /\ p.locked = o.locked /\ p.passthrough = o.passthrough
  BY <1>1, FieldNames DEF Rec, Life
<1>4. Calm(o, p) BY <1>1, <1>3, QuietIsCalm
<1> QED BY <1>2, <1>4, CalmInv

\* The geometry is refreshed.
LEMMA GeometryKeeps ==
    ASSUME NEW o, SurfaceInv(o)
    PROVE  SurfaceInv(RefreshGeometry(o))
<1>1. Rec(o) /\ NativeOK(o) BY InvKnows DEF SurfaceInv
<1>2. Calm(o, ResizeContent(o)) BY <1>1, ResizeIsCalm
<1>3. SurfaceInv(ResizeContent(o)) BY <1>2, CalmInv
<1> QED BY <1>3, QuietKeeps DEF RefreshGeometry

\* The input region is refreshed.
LEMMA InputKeeps ==
    ASSUME NEW o, SurfaceInv(o)
    PROVE  SurfaceInv(SetInputMode(o, o.passthrough).o)
<1>1. Rec(o) /\ NativeOK(o) BY InvKnows DEF SurfaceInv
<1> DEFINE m == SetInputMode(o, o.passthrough).o
<1>2. /\ Rec(m) /\ Life(m) = Life(o) /\ NativeKept(o, m) /\ (Sure(o) => Sure(m))
      /\ m.locked = o.passthrough /\ m.passthrough = o.passthrough
  BY <1>1, ModeIsCalm
<1> HIDE DEF m
<1>3. Calm(o, m) BY <1>2 DEF Calm
<1> QED BY <1>3, CalmInv DEF m

\* A stroke begins calmly.
LEMMA BeginsCalmly ==
    ASSUME NEW o, Rec(o), NativeOK(o)
    PROVE  Calm(o, BeginDrag(o))
<1> DEFINE p == [o EXCEPT !.stroke = TRUE, !.at = o.layer]
<1>1. /\ Rec(p) /\ Life(p) = Life(o) /\ p.native = o.native /\ p.sure = o.sure
      /\ p.region = o.region /\ p.locked = o.locked /\ p.passthrough = o.passthrough
  BY FieldNames DEF Rec, Life
<1>2. Calm(o, p) /\ Calm(o, o) BY <1>1, QuietIsCalm, CalmRefl
<1> QED BY <1>2 DEF BeginDrag, BeginNiriDrag, BeginLayerDrag, BeginWindowDrag

\* The panel is pressed, which begins a drag.
LEMMA PressKeeps ==
    ASSUME NEW o, SurfaceInv(o), o.begun
    PROVE  SurfaceInv(Press(o))
<1> DEFINE b == BeginDrag(o)
           p == [b EXCEPT !.dragging = TRUE, !.moved = FALSE, !.applied = TRUE, !.grab = TRUE]
<1>1. Rec(o) /\ NativeOK(o) BY InvKnows DEF SurfaceInv
<1>2. Calm(o, b) BY <1>1, BeginsCalmly
<1> HIDE DEF b
<1>3. SurfaceInv(b) /\ b.begun BY <1>2, CalmInv, SameLife DEF Calm
<1>4. Rec(b) /\ Base(b) BY <1>3, InvKnows DEF SurfaceInv
<1>5. /\ Rec(p) /\ p.native = b.native /\ p.sure = b.sure /\ p.region = b.region
      /\ p.locked = b.locked /\ p.passthrough = b.passthrough
      /\ p.kind = b.kind /\ p.state = b.state /\ p.active = b.active
      /\ p.pending = b.pending /\ p.free = b.free /\ p.retry = b.retry
      /\ p.closed = b.closed /\ p.closing = b.closing /\ p.begun = b.begun
      /\ p.connected = b.connected /\ p.shut = b.shut /\ p.placing = b.placing
      /\ p.visible = b.visible /\ p.released = b.released /\ p.config = b.config
      /\ p.soon = b.soon /\ p.later = b.later
  BY <1>4, FieldNames DEF Rec
<1> HIDE DEF p
<1>6. p.pending # NoOutput => Waiting(p)
  BY <1>3, <1>5 DEF SurfaceInv, Shown, Waiting, Orphaned
<1>7. SurfaceInv(p) BY <1>3, <1>4, <1>5, <1>6, DisarmedKeeps, InvKnows
<1> QED BY <1>3, <1>7 DEF Press, p, b

\* A step of a stroke moves the surface calmly.
LEMMA UpdateIsCalm ==
    ASSUME NEW o, Rec(o), NativeOK(o), NEW d
    PROVE  LET r == UpdateDrag(o, d)
           IN  Result(r) /\ Calm(o, r.o)
<1> DEFINE h == Held(o)
           y == h.native.y + d
           z == h.at + d
           m == [h EXCEPT !.native.y = y]
           w == [m EXCEPT !.at = z]
           g == Constrained(o, o.at + d)
           l == MoveTo(o, NoOutput, g)
           r == UpdateDrag(o, d)
<1> HIDE DEF g
<1>1. Calm(o, h) /\ h.native # NoSurface BY HeldIsCalm
<1>2. Rec(h) /\ NativeOK(h) BY <1>1, CalmKeeps
<1>3. Calm(o, l.o) /\ Result(l) BY MoveIsCalm DEF Result
<1> HIDE DEF h, y, z
<1>4. Calm(h, m) BY <1>1, <1>2, PlacedIsCalm
<1>5. Rec(m) /\ NativeOK(m) BY <1>4, CalmKeeps
<1>6. m.at = h.at BY <1>2, FieldNames DEF Rec
<1>7. [h EXCEPT !.native.y = h.native.y + d, !.at = h.at + d] = w BY DEF y, z
<1> HIDE DEF m
<1>8. Calm(m, w) BY <1>5, EditsAreCalm
<1> HIDE DEF w
<1>9. Calm(o, w) BY <1>1, <1>4, <1>8, CalmTrans
<1>10. Calm(o, o) BY CalmRefl
<1>11. \/ r = Rejected(o) \/ r = Applied(o) \/ r = Unsupported(o)
       \/ r = Failed(h) \/ r = l \/ r = Applied(w)
  <2>1. CASE o.shut \/ ~o.stroke BY <2>1 DEF UpdateDrag
  <2>2. CASE ~o.shut /\ Layered(o)
    <3>1. l = LayerMove(o, g) BY <2>2 DEF MoveTo
    <3> HIDE DEF l
    <3>2. UpdateLayerDrag(o, d) = IF g = o.at THEN Applied(o) ELSE LayerMove(o, g)
      BY DEF UpdateLayerDrag, g
    <3> QED BY <3>1, <3>2, <2>2 DEF UpdateDrag
  <2>3. CASE ~o.shut /\ ~Layered(o)
    <3>1. [Held(o) EXCEPT !.native.y = @ + d, !.at = @ + d] = w
      BY <1>7, <1>2, FieldNames DEF h, Rec
    <3>2. UpdateWindowDrag(o, d) \in {Unsupported(o), Applied(o), Failed(h), Applied(w)}
      BY <3>1 DEF UpdateWindowDrag, h
    <3> QED BY <3>2, <2>3 DEF UpdateDrag
  <2> QED BY <2>1, <2>2, <2>3
<1> HIDE DEF r, l
<1>12. Result(r) /\ r.o \in {o, h, l.o, w}
  BY <1>3, <1>11 DEF Rejected, Applied, Unsupported, Failed, Result
<1> QED BY <1>1, <1>3, <1>9, <1>10, <1>12 DEF r

\* So does a step of a drag, which records whether it was applied.
LEMMA DragIsCalm ==
    ASSUME NEW o, Rec(o), NativeOK(o), NEW d
    PROVE  Calm(o, Drag(o, d))
<1> DEFINE r == UpdateDrag(o, d)
           v == r.o.moved \/ r.o.at # o.layer
           j == IF Succeeded(r) THEN [r EXCEPT !.o.moved = v] ELSE [r EXCEPT !.o.applied = FALSE]
           e == [r.o EXCEPT !.moved = v]
           f == [r.o EXCEPT !.applied = FALSE]
           g == [e EXCEPT !.layer = e.at]
<1>1. Result(r) /\ Calm(o, r.o) BY UpdateIsCalm
<1>2. Rec(r.o) /\ NativeOK(r.o) BY <1>1, CalmKeeps
<1>3. DragStep(o, d) = j
  <2>1. [r EXCEPT !.o.moved = @ \/ r.o.at # o.layer] = [r EXCEPT !.o.moved = v]
    BY <1>1, <1>2, FieldNames DEF Result, Rec
  <2> QED BY <2>1 DEF DragStep
<1> HIDE DEF v, r
<1>4. /\ Succeeded(r) => Succeeded(j) /\ j.o = e
      /\ ~Succeeded(r) => ~Succeeded(j) /\ j.o = f
  BY <1>1 DEF Result, Succeeded
<1>5. Calm(r.o, e) /\ Calm(r.o, f) BY <1>2, EditsAreCalm
<1> HIDE DEF j, e, f
<1>6. Rec(e) /\ NativeOK(e) BY <1>5, CalmKeeps
<1>7. Calm(e, g) BY <1>6, EditsAreCalm
<1>8. Drag(o, d) = IF Succeeded(r) THEN g ELSE f BY <1>3, <1>4 DEF Drag
<1> HIDE DEF g
<1> QED BY <1>1, <1>5, <1>7, <1>8, CalmTrans

\* The pointer moves the panel.
LEMMA DragMoveKeeps ==
    ASSUME NEW o, SurfaceInv(o), NEW d
    PROVE  SurfaceInv(IF Target(o) = NoOutput THEN Aimed(o) ELSE Drag(Aimed(o), d))
<1>1. Rec(o) /\ NativeOK(o) BY InvKnows DEF SurfaceInv
<1>2. Calm(o, Aimed(o)) BY <1>1, AimedIsCalm
<1>3. Rec(Aimed(o)) /\ NativeOK(Aimed(o)) BY <1>2, CalmKeeps
<1>4. Calm(Aimed(o), Drag(Aimed(o), d)) BY <1>3, DragIsCalm
<1> QED BY <1>2, <1>4, CalmTrans, CalmInv

\* An ordinary window is carried to the output that the pointer is on.
LEMMA CarriedIsCalm ==
    ASSUME NEW o, Rec(o), NativeOK(o), NEW cursor
    PROVE  Calm(o, Carried(o, cursor))
<1>1. Calm(o, o) BY CalmRefl
<1>2. CASE o.kind = "window" /\ o.native # NoSurface
  BY <1>2, PlacedIsCalm DEF Carried, Layered
<1>3. CASE o.native = NoSurface
  <2> DEFINE n == [o.native EXCEPT !.output = cursor]
             p == [o EXCEPT !.native = n]
  <2>1. n = o.native BY <1>3 DEF NoSurface
  <2>2. Carried(o, cursor) = IF o.kind = "window" THEN p ELSE o BY DEF Carried
  <2> HIDE DEF n
  <2>3. /\ Rec(p) /\ Life(p) = Life(o) /\ p.native = o.native /\ p.sure = o.sure
        /\ p.region = o.region /\ p.locked = o.locked /\ p.passthrough = o.passthrough
    BY <2>1, FieldNames DEF Rec, Life
  <2>4. Calm(o, p) BY <2>3, QuietIsCalm
  <2> QED BY <1>1, <2>2, <2>4
<1> QED BY <1>1, <1>2, <1>3 DEF Carried

\* A drag ends.
LEMMA DragEndsKeeps ==
    ASSUME NEW o, SurfaceInv(o)
    PROVE  LET p == DragEnds(o)
           IN  SurfaceInv(p) /\ p.begun = o.begun /\ p.connected = o.connected
<1> DEFINE p == [[o EXCEPT !.dragging = FALSE, !.moved = FALSE, !.applied = TRUE, !.grab = FALSE]
                   EXCEPT !.stroke = FALSE]
<1>1. Rec(o) /\ Base(o) BY InvKnows DEF SurfaceInv
<1>2. /\ Rec(p) /\ p.native = o.native /\ p.sure = o.sure /\ p.region = o.region
      /\ p.locked = o.locked /\ p.passthrough = o.passthrough
      /\ p.kind = o.kind /\ p.state = o.state /\ p.active = o.active
      /\ p.pending = o.pending /\ p.free = o.free /\ p.retry = o.retry
      /\ p.closed = o.closed /\ p.closing = o.closing /\ p.begun = o.begun
      /\ p.connected = o.connected /\ p.shut = o.shut /\ p.placing = o.placing
      /\ p.visible = o.visible /\ p.released = o.released /\ p.config = o.config
      /\ p.soon = o.soon /\ p.later = o.later /\ ~p.dragging
  BY <1>1, FieldNames DEF Rec
<1> HIDE DEF p
<1>3. p.pending # NoOutput => Waiting(p)
  BY <1>2 DEF SurfaceInv, Shown, Waiting, Orphaned
<1>4. SurfaceInv(p) BY <1>1, <1>2, <1>3, DisarmedKeeps, InvKnows
<1> QED BY <1>2, <1>4 DEF DragEnds, EndDrag, p

\* The place it ends at is committed, at once or after a rebuild on another output.
LEMMA CommitKeeps ==
    ASSUME NEW o, SurfaceInv(o), o.begun, NEW cursor \in o.connected
    PROVE  SurfaceInv(CommitDrag(o, cursor))
<1> DEFINE a == Aimed(o)
           output == IF Rebinds(o) THEN cursor ELSE Target(o)
           y == Clamped(o.layer, o.content, TRUE)
           c == [screen |-> output, object |-> output, y |-> y, margin |-> EdgeMargin(o, y)]
           b == [a EXCEPT !.placing = c]
           q == Rebind(b, output, TRUE)
           m == IF Layered(o) THEN MoveTo(a, output, y) ELSE Applied(a)
           n == CommitPosition(m.o, c)
<1>1. Rec(o) /\ NativeOK(o) /\ o.connected \in SUBSET Outputs BY InvKnows DEF SurfaceInv
<1>2. Calm(o, a) BY <1>1, AimedIsCalm
<1>3. SurfaceInv(a) /\ a.begun /\ a.connected = o.connected
  BY <1>2, CalmInv, SameLife DEF Calm
<1> HIDE DEF a
<1>4. /\ Rec(a) /\ NativeOK(a) /\ a.connected \in SUBSET Outputs
      /\ (a.dragging => a.begun)
  BY <1>3, InvKnows DEF SurfaceInv
<1>5. CommitDrag(o, cursor) =
        IF Target(o) = NoOutput THEN a
        ELSE IF output # a.selected /\ Layered(o)
             THEN IF Succeeded(q) THEN Save(q.o, c) ELSE q.o
             ELSE IF Succeeded(m) THEN Save(n, c) ELSE m.o
  BY DEF CommitDrag, a, output, y, c, b, q, m, n
<1>6. Target(o) # NoOutput => output \in o.connected BY <1>1, TargetIsThere
<1>7. c.object = c.screen OBVIOUS
<1> HIDE DEF output, y, c
<1>8. CASE Target(o) # NoOutput /\ output # a.selected /\ Layered(o)
  <2>1. /\ Rec(b) /\ b.native = a.native /\ b.sure = a.sure /\ b.region = a.region
        /\ b.locked = a.locked /\ b.passthrough = a.passthrough
        /\ b.kind = a.kind /\ b.state = a.state /\ b.active = a.active
        /\ b.pending = a.pending /\ b.free = a.free /\ b.retry = a.retry
        /\ b.closed = a.closed /\ b.closing = a.closing /\ b.begun = a.begun
        /\ b.connected = a.connected /\ b.shut = a.shut /\ b.placing = c
        /\ b.visible = a.visible /\ b.released = a.released /\ b.config = a.config
        /\ b.soon = a.soon /\ b.later = a.later /\ b.dragging = a.dragging
    BY <1>4, FieldNames DEF Rec
  <2> HIDE DEF b
  <2>2. Base(b) /\ (b.pending = NoOutput => Shown(b))
    BY <1>3, <1>4, <1>7, <2>1, DisarmedKeeps DEF SurfaceInv
  <2>3. output \in b.connected /\ b.begun BY <1>3, <1>6, <1>8, <2>1
  <2>4. PICK dragging \in BOOLEAN : dragging = TRUE OBVIOUS
  <2>5. SurfaceInv(Rebind(b, output, dragging).o) BY <2>2, <2>3, RebindKeeps
  <2>6. SurfaceInv(q.o) BY <2>4, <2>5
  <2> HIDE DEF q
  <2>7. Calm(q.o, Save(q.o, c)) BY <2>6, SaveIsCalm, InvKnows DEF SurfaceInv
  <2> QED BY <1>5, <1>8, <2>6, <2>7, CalmInv
<1>9. CASE Target(o) # NoOutput /\ ~(output # a.selected /\ Layered(o))
  <2>1. Calm(a, MoveTo(a, output, y).o) /\ Calm(a, a) BY <1>4, MoveIsCalm, CalmRefl
  <2>2. Calm(a, m.o) BY <2>1 DEF Applied
  <2> HIDE DEF m
  <2>3. Rec(m.o) /\ NativeOK(m.o) BY <2>2, CalmKeeps
  <2>4. Calm(m.o, n) BY <2>3, CommitIsCalm
  <2>5. Calm(a, n) BY <2>2, <2>4, CalmTrans
  <2> HIDE DEF n
  <2>6. SurfaceInv(m.o) /\ SurfaceInv(n) BY <1>3, <2>2, <2>5, CalmInv
  <2>7. Calm(n, Save(n, c)) BY <2>6, SaveIsCalm, InvKnows DEF SurfaceInv
  <2> QED BY <1>5, <1>9, <2>6, <2>7, CalmInv
<1> QED BY <1>3, <1>5, <1>8, <1>9

\* The panel is released.
LEMMA FinishKeeps ==
    ASSUME NEW o, SurfaceInv(o), o.begun, NEW cursor \in o.connected
    PROVE  SurfaceInv(FinishDrag(o, cursor))
<1> DEFINE c == Carried(o, cursor)
           e == DragEnds(c)
           commits == o.moved /\ o.applied /\ Positions(o)
           w == IF commits THEN CommitDrag(e, cursor) ELSE e
           m == IF Ending(w) THEN w ELSE SetInputMode(w, w.passthrough).o
<1>1. Rec(o) /\ NativeOK(o) BY InvKnows DEF SurfaceInv
<1>2. Calm(o, c) BY <1>1, CarriedIsCalm
<1> HIDE DEF c
<1>3. SurfaceInv(c) /\ c.begun /\ c.connected = o.connected
  BY <1>2, CalmInv, SameLife DEF Calm
<1>4. SurfaceInv(e) /\ e.begun /\ e.connected = o.connected BY <1>3, DragEndsKeeps
<1> HIDE DEF e, commits
<1>5. SurfaceInv(CommitDrag(e, cursor)) BY <1>4, CommitKeeps
<1>6. SurfaceInv(w) BY <1>4, <1>5
<1> HIDE DEF w
<1>7. SurfaceInv(m) BY <1>6, InputKeeps
<1> HIDE DEF m
<1>8. SurfaceInv([m EXCEPT !.suppress = TRUE]) BY <1>7, QuietKeeps
<1>9. FinishDrag(o, cursor) = IF ~o.moved THEN e ELSE [m EXCEPT !.suppress = TRUE]
  BY DEF FinishDrag, c, e, commits, w, m
<1> QED BY <1>4, <1>8, <1>9

\* The lock button is clicked, perhaps at the end of a drag.
LEMMA ClickKeeps ==
    ASSUME NEW o, SurfaceInv(o), o.begun, NEW cursor \in o.connected
    PROVE  SurfaceInv(ClickLock(o, cursor))
<1> DEFINE w == IF o.dragging /\ o.moved THEN FinishDrag(o, cursor) ELSE [o EXCEPT !.grab = FALSE]
<1>1. SurfaceInv(w) BY FinishKeeps, QuietKeeps
<1>2. ClickLock(o, cursor) = IF w.suppress THEN w ELSE Toggle(w) BY DEF ClickLock, w
<1> HIDE DEF w
<1> QED BY <1>1, <1>2, ToggleKeeps

\* The timers that place a new window once more.
LEMMA TimersKeep ==
    ASSUME NEW o, SurfaceInv(o), o.begun
    PROVE  /\ SurfaceInv(Activate([o EXCEPT !.soon = FALSE]))
           /\ SurfaceInv(Activate([o EXCEPT !.later = FALSE]))
<1> DEFINE p == [o EXCEPT !.soon = FALSE]
           q == [o EXCEPT !.later = FALSE]
<1>1. Rec(o) /\ Base(o) BY InvKnows DEF SurfaceInv
<1>2. /\ Rec(p) /\ p.native = o.native /\ p.sure = o.sure /\ p.region = o.region
      /\ p.locked = o.locked /\ p.passthrough = o.passthrough
      /\ p.kind = o.kind /\ p.state = o.state /\ p.active = o.active
      /\ p.pending = o.pending /\ p.free = o.free /\ p.retry = o.retry
      /\ p.closed = o.closed /\ p.closing = o.closing /\ p.begun = o.begun
      /\ p.connected = o.connected /\ p.shut = o.shut /\ p.placing = o.placing
      /\ p.visible = o.visible /\ p.released = o.released /\ p.config = o.config
      /\ ~p.soon /\ p.later = o.later /\ p.dragging = o.dragging
  BY <1>1, FieldNames DEF Rec
<1>3. /\ Rec(q) /\ q.native = o.native /\ q.sure = o.sure /\ q.region = o.region
      /\ q.locked = o.locked /\ q.passthrough = o.passthrough
      /\ q.kind = o.kind /\ q.state = o.state /\ q.active = o.active
      /\ q.pending = o.pending /\ q.free = o.free /\ q.retry = o.retry
      /\ q.closed = o.closed /\ q.closing = o.closing /\ q.begun = o.begun
      /\ q.connected = o.connected /\ q.shut = o.shut /\ q.placing = o.placing
      /\ q.visible = o.visible /\ q.released = o.released /\ q.config = o.config
      /\ q.soon = o.soon /\ ~q.later /\ q.dragging = o.dragging
  BY <1>1, FieldNames DEF Rec
<1> HIDE DEF p, q
<1>4. /\ p.pending # NoOutput => Waiting(p)
      /\ q.pending # NoOutput => Waiting(q)
      /\ o.placing # NoPlacement => o.placing.object \in {o.placing.screen, Gone}
  BY <1>1, <1>2, <1>3, InvKnows DEF SurfaceInv, Shown, Waiting, Orphaned
<1>5. SurfaceInv(p) BY <1>2, <1>4, DisarmedKeeps
<1>6. SurfaceInv(q) BY <1>3, <1>4, DisarmedKeeps
<1>7. SurfaceInv(Activate(p)) /\ SurfaceInv(Activate(q)) BY <1>2, <1>3, <1>5, <1>6, ActivateKeeps
<1> QED BY <1>7 DEF p, q

\* The timer that retries a rebuild.
LEMMA RetryKeeps ==
    ASSUME NEW o, SurfaceInv(o), o.retry
    PROVE  SurfaceInv(IF Closing(o) THEN [o EXCEPT !.retry = FALSE]
                      ELSE AttemptRebind([o EXCEPT !.retry = FALSE], FALSE).o)
<1> DEFINE p == [o EXCEPT !.retry = FALSE]
<1>1. Rec(o) /\ Base(o) BY InvKnows DEF SurfaceInv
<1>2. /\ Rec(p) /\ p.native = o.native /\ p.sure = o.sure /\ p.region = o.region
      /\ p.locked = o.locked /\ p.passthrough = o.passthrough
      /\ p.kind = o.kind /\ p.state = o.state /\ p.active = o.active
      /\ p.pending = o.pending /\ p.free = o.free /\ ~p.retry
      /\ p.closed = o.closed /\ p.closing = o.closing /\ p.begun = o.begun
      /\ p.connected = o.connected /\ p.shut = o.shut /\ p.placing = o.placing
      /\ p.visible = o.visible /\ p.released = o.released /\ p.config = o.config
      /\ p.soon = o.soon /\ p.later = o.later /\ p.dragging = o.dragging
  BY <1>1, FieldNames DEF Rec
<1> HIDE DEF p
<1>3. /\ o.placing # NoPlacement => o.placing.object \in {o.placing.screen, Gone}
      /\ o.dragging => o.begun
  BY <1>1, InvKnows
<1>4. Base(p) /\ (p.pending = NoOutput => SurfaceInv(p)) BY <1>1, <1>2, <1>3, DisarmedKeeps
<1>5. CASE Closing(o)
  <2>1. p.pending = NoOutput BY <1>1, <1>2, <1>5 DEF Base, Waits, Closing
  <2> QED BY <1>4, <1>5, <2>1 DEF p
<1>6. CASE ~Closing(o)
  <2>1. ~Closing(p) BY <1>2, <1>6 DEF Closing
  <2>2. PICK dragging \in BOOLEAN : dragging = FALSE OBVIOUS
  <2>3. p.pending # NoOutput => SurfaceInv(AttemptRebind(p, dragging).o)
    BY <1>4, <2>1, AttemptDoes
  <2>4. p.pending = NoOutput => AttemptRebind(p, dragging) = Rejected(p) BY DEF AttemptRebind
  <2>5. SurfaceInv(AttemptRebind(p, dragging).o) BY <1>4, <2>3, <2>4 DEF Rejected
  <2>6. SurfaceInv(AttemptRebind(p, FALSE).o) BY <2>2, <2>5
  <2> QED BY <1>6, <2>6 DEF p
<1> QED BY <1>5, <1>6

\* Settings are applied, and the window is activated with them.
LEMMA SettingsKeep ==
    ASSUME NEW o, SurfaceInv(o), o.begun, NEW top, NEW margin
    PROVE  SurfaceInv(Activate(ApplyConfig([o EXCEPT !.config.top = top, !.config.margin = margin])))
<1> DEFINE c == [o.config EXCEPT !.top = top, !.margin = margin]
           p == [o EXCEPT !.config = c]
           q == ApplyConfig(p)
<1>1. Rec(o) /\ NativeOK(o) BY InvKnows DEF SurfaceInv
<1>2. DOMAIN c = DOMAIN o.config OBVIOUS
<1>3. [o EXCEPT !.config.top = top, !.config.margin = margin] = p
  BY <1>1, FieldNames DEF Rec
<1> HIDE DEF c
<1>4. /\ Rec(p) /\ Life(p) = Life(o) /\ p.native = o.native /\ p.sure = o.sure
      /\ p.region = o.region /\ p.locked = o.locked /\ p.passthrough = o.passthrough
  BY <1>1, <1>2, FieldNames DEF Rec, Life
<1> HIDE DEF p
<1>5. Calm(o, p) BY <1>1, <1>4, QuietIsCalm
<1>6. SurfaceInv(p) /\ p.begun BY <1>5, CalmInv, SameLife DEF Calm
<1>7. Calm(p, q) BY <1>6, ConfigIsCalm, InvKnows DEF SurfaceInv
<1>8. SurfaceInv(q) /\ q.begun BY <1>6, <1>7, CalmInv, SameLife DEF Calm
<1> HIDE DEF q
<1>9. SurfaceInv(Activate(q)) BY <1>8, ActivateKeeps
<1> QED BY <1>3, <1>9 DEF q

\* The window as it is built satisfies the invariant, in every session and with every
\* configuration.
LEMMA BuiltKeeps ==
    ASSUME NEW session, NEW config \in Configs
    PROVE  SurfaceInv(Built(session, config))
<1> DEFINE kind == Selected(session)
           height == CHOOSE h \in Heights : \A i \in Heights : h <= i
           screen == FirstOf(Outputs)
           b == [kind |-> kind, bad |-> {}, released |-> FALSE, shut |-> FALSE,
                 native |-> NoSurface, visible |-> FALSE, grab |-> FALSE, stroke |-> FALSE, at |-> 0,
                 state |-> "prepared", active |-> NoOutput, pending |-> NoOutput, free |-> FALSE,
                 retry |-> FALSE,
                 layer |-> 0, chosen |-> NoOutput, selected |-> NoOutput, placing |-> NoPlacement,
                 keep |-> FALSE, home |-> config.screen, homeMargin |-> NoMargin,
                 locked |-> config.passthrough, sure |-> FALSE, region |-> <<"all">>, rejected |-> 0,
                 height |-> 0, content |-> height,
                 dragging |-> FALSE, moved |-> FALSE, applied |-> TRUE,
                 passthrough |-> config.passthrough, closed |-> FALSE, closing |-> FALSE,
                 soon |-> FALSE, later |-> FALSE, inputDue |-> FALSE, resize |-> FALSE,
                 suppress |-> FALSE, config |-> config, screen |-> screen,
                 connected |-> Outputs, begun |-> FALSE]
<1>1. Built(session, config) = ApplyConfig(b) BY DEF Built, b, kind, height, screen
<1> HIDE DEF kind, height, screen
<1>2. Rec(b) BY DEF Rec, Fields
<1>3. /\ b.native = NoSurface /\ b.sure = FALSE /\ b.locked = b.passthrough
      /\ b.state = "prepared" /\ b.active = NoOutput /\ b.pending = NoOutput
      /\ b.free = FALSE /\ b.closed = FALSE /\ b.closing = FALSE /\ b.begun = FALSE
      /\ b.connected = Outputs /\ b.shut = FALSE /\ b.placing = NoPlacement
      /\ b.visible = FALSE /\ b.released = FALSE /\ b.config = config
      /\ b.soon = FALSE /\ b.later = FALSE /\ b.dragging = FALSE
  OBVIOUS
<1> HIDE DEF b
<1>4. "screen" \in DOMAIN config BY ConfigsAssumption
<1>5. Whole(b) BY <1>2, <1>3, <1>4 DEF Whole, NativeOK
<1>6. Closed(b) BY <1>3 DEF Closed, Ending
<1>7. Hides(b) /\ Waits(b) BY <1>3 DEF Hides, Waits
<1>8. Unbegun(b) /\ Shown(b) BY <1>3 DEF Unbegun, Shown
<1>9. SurfaceInv(b) BY <1>5, <1>6, <1>7, <1>8 DEF SurfaceInv, Base
<1>10. Calm(b, ApplyConfig(b)) BY <1>9, ConfigIsCalm, InvKnows DEF SurfaceInv
<1> QED BY <1>1, <1>9, <1>10, CalmInv

\* Which calls fail during an event is no part of the window.
LEMMA BadIsQuiet ==
    ASSUME NEW o, SurfaceInv(o), NEW bad
    PROVE  /\ SurfaceInv([o EXCEPT !.bad = bad])
           /\ [o EXCEPT !.bad = bad].begun = o.begun
           /\ [o EXCEPT !.bad = bad].retry = o.retry
           /\ [o EXCEPT !.bad = bad].connected = o.connected
<1>1. Rec(o) BY InvKnows DEF SurfaceInv
<1> QED BY <1>1, QuietKeeps, FieldNames DEF Rec

-------------------------------------------------------------------------------
(* The theorems about the window.                                          *)

\* Every event keeps the invariant, whichever of the bridge's calls fail in it.
LEMMA NextKeeps == SurfaceInv(overlay) /\ [Next]_vars => SurfaceInv(overlay)'
<1> SUFFICES ASSUME SurfaceInv(overlay), [Next]_vars
             PROVE  SurfaceInv(overlay')
  OBVIOUS
<1>1. /\ overlay.dragging \/ overlay.soon \/ overlay.later => overlay.begun
      /\ Rec(overlay)
  BY InvKnows DEF SurfaceInv
<1>2. CASE Start
  <2>1. PICK bad : overlay' = [Show(Activate([[overlay EXCEPT !.bad = bad] EXCEPT !.begun = TRUE]))
                                 EXCEPT !.bad = {}]
    BY <1>2 DEF Start, Event
  <2> DEFINE o == [overlay EXCEPT !.bad = bad]
  <2>2. SurfaceInv(o) /\ ~o.begun BY <1>2, BadIsQuiet DEF Start
  <2> HIDE DEF o
  <2>3. SurfaceInv(Show(Activate([o EXCEPT !.begun = TRUE]))) BY <2>2, BeginKeeps
  <2> QED BY <2>1, <2>3, BadIsQuiet DEF o
<1>3. CASE ActivationTimer
  <2>1. PICK bad : overlay' = [Activate([[overlay EXCEPT !.bad = bad] EXCEPT !.soon = FALSE])
                                 EXCEPT !.bad = {}]
    BY <1>3 DEF ActivationTimer, Event
  <2> DEFINE o == [overlay EXCEPT !.bad = bad]
  <2>2. SurfaceInv(o) /\ o.begun BY <1>1, <1>3, BadIsQuiet DEF ActivationTimer
  <2> HIDE DEF o
  <2>3. SurfaceInv(Activate([o EXCEPT !.soon = FALSE])) BY <2>2, TimersKeep
  <2> QED BY <2>1, <2>3, BadIsQuiet DEF o
<1>4. CASE ActivationRetryTimer
  <2>1. PICK bad : overlay' = [Activate([[overlay EXCEPT !.bad = bad] EXCEPT !.later = FALSE])
                                 EXCEPT !.bad = {}]
    BY <1>4 DEF ActivationRetryTimer, Event
  <2> DEFINE o == [overlay EXCEPT !.bad = bad]
  <2>2. SurfaceInv(o) /\ o.begun BY <1>1, <1>4, BadIsQuiet DEF ActivationRetryTimer
  <2> HIDE DEF o
  <2>3. SurfaceInv(Activate([o EXCEPT !.later = FALSE])) BY <2>2, TimersKeep
  <2> QED BY <2>1, <2>3, BadIsQuiet DEF o
<1>5. CASE GeometryTimer
  <2>1. PICK bad : overlay' = [RefreshGeometry([[overlay EXCEPT !.bad = bad] EXCEPT !.resize = FALSE])
                                 EXCEPT !.bad = {}]
    BY <1>5 DEF GeometryTimer, Event
  <2> DEFINE o == [overlay EXCEPT !.bad = bad]
  <2>2. SurfaceInv(o) BY BadIsQuiet
  <2> HIDE DEF o
  <2>3. SurfaceInv([o EXCEPT !.resize = FALSE]) BY <2>2, QuietKeeps
  <2>4. SurfaceInv(RefreshGeometry([o EXCEPT !.resize = FALSE])) BY <2>3, GeometryKeeps
  <2> QED BY <2>1, <2>4, BadIsQuiet DEF o
<1>6. CASE InputTimer
  <2>1. PICK bad :
           LET o == [overlay EXCEPT !.bad = bad]
           IN  overlay' = [(IF Ending(o) THEN [o EXCEPT !.inputDue = FALSE]
                            ELSE SetInputMode([o EXCEPT !.inputDue = FALSE], o.passthrough).o)
                             EXCEPT !.bad = {}]
    BY <1>6 DEF InputTimer, Event
  <2> DEFINE o == [overlay EXCEPT !.bad = bad]
             p == [o EXCEPT !.inputDue = FALSE]
  <2>2. SurfaceInv(o) BY BadIsQuiet
  <2>3. overlay' = [(IF Ending(o) THEN p ELSE SetInputMode(p, o.passthrough).o) EXCEPT !.bad = {}]
    BY <2>1
  <2> HIDE DEF o
  <2>4. SurfaceInv(p) BY <2>2, QuietKeeps
  <2>5. p.passthrough = o.passthrough BY <2>2, InvKnows, FieldNames DEF SurfaceInv, Rec
  <2> HIDE DEF p
  <2>6. SurfaceInv(SetInputMode(p, o.passthrough).o) BY <2>4, <2>5, InputKeeps
  <2> QED BY <2>3, <2>4, <2>6, BadIsQuiet
<1>7. CASE ClickTimer
  BY <1>7, QuietKeeps DEF ClickTimer
<1>8. CASE RetryTimer
  <2>1. PICK bad :
           LET o == [overlay EXCEPT !.bad = bad]
           IN  overlay' = [(IF Closing(o) THEN [o EXCEPT !.retry = FALSE]
                            ELSE AttemptRebind([o EXCEPT !.retry = FALSE], FALSE).o)
                             EXCEPT !.bad = {}]
    BY <1>8 DEF RetryTimer, Event
  <2> DEFINE o == [overlay EXCEPT !.bad = bad]
             p == IF Closing(o) THEN [o EXCEPT !.retry = FALSE]
                  ELSE AttemptRebind([o EXCEPT !.retry = FALSE], FALSE).o
  <2>2. SurfaceInv(o) /\ o.retry BY <1>8, BadIsQuiet DEF RetryTimer
  <2>3. overlay' = [p EXCEPT !.bad = {}] BY <2>1
  <2> HIDE DEF o
  <2>4. SurfaceInv(p) BY <2>2, RetryKeeps
  <2> HIDE DEF p
  <2> QED BY <2>3, <2>4, BadIsQuiet
<1>9. CASE PressPanel
  BY <1>9, PressKeeps DEF PressPanel, Usable
<1>10. CASE DragMove
  <2>1. PICK d, bad :
           LET o == [overlay EXCEPT !.bad = bad]
           IN  overlay' = [(IF Target(o) = NoOutput THEN Aimed(o) ELSE Drag(Aimed(o), d))
                             EXCEPT !.bad = {}]
    BY <1>10 DEF DragMove, Event
  <2> DEFINE o == [overlay EXCEPT !.bad = bad]
             p == IF Target(o) = NoOutput THEN Aimed(o) ELSE Drag(Aimed(o), d)
  <2>2. SurfaceInv(o) BY BadIsQuiet
  <2>3. overlay' = [p EXCEPT !.bad = {}] BY <2>1
  <2> HIDE DEF o
  <2>4. SurfaceInv(p) BY <2>2, DragMoveKeeps
  <2> HIDE DEF p
  <2> QED BY <2>3, <2>4, BadIsQuiet
<1>11. CASE Release
  <2> PICK cursor \in overlay.connected :
         \E bad : overlay' = [FinishDrag([overlay EXCEPT !.bad = bad], cursor) EXCEPT !.bad = {}]
    BY <1>11 DEF Release, Event
  <2>1. PICK bad : overlay' = [FinishDrag([overlay EXCEPT !.bad = bad], cursor) EXCEPT !.bad = {}]
    OBVIOUS
  <2> DEFINE o == [overlay EXCEPT !.bad = bad]
  <2>2. SurfaceInv(o) /\ o.begun /\ cursor \in o.connected
    BY <1>1, <1>11, BadIsQuiet DEF Release
  <2> HIDE DEF o
  <2>3. SurfaceInv(FinishDrag(o, cursor)) BY <2>2, FinishKeeps
  <2> QED BY <2>1, <2>3, BadIsQuiet DEF o
<1>12. CASE LockClicked
  BY <1>12, ClickKeeps DEF LockClicked, Usable
<1>13. CASE TrayToggled
  BY <1>13, ToggleKeeps DEF TrayToggled
<1>14. CASE SettingsApplied
  <2>1. PICK top \in BOOLEAN, margin \in Margins :
           overlay' = Activate(ApplyConfig([overlay EXCEPT !.config.top = top,
                                                           !.config.margin = margin]))
    BY <1>14 DEF SettingsApplied
  <2>2. overlay.begun BY <1>14 DEF SettingsApplied
  <2>3. SurfaceInv(Activate(ApplyConfig([overlay EXCEPT !.config.top = top,
                                                        !.config.margin = margin])))
    BY <2>2, SettingsKeep
  <2> QED BY <2>1, <2>3
<1>15. CASE FrameShown
  BY <1>15, FrameKeeps DEF FrameShown
<1>16. CASE Unplugged
  BY <1>16, RemovedKeeps DEF Unplugged
<1>17. CASE Plugged
  BY <1>17, AddedKeeps DEF Plugged
<1>18. CASE ShutDown
  <2>1. PICK bad : overlay' = [Shutdown([overlay EXCEPT !.bad = bad]) EXCEPT !.bad = {}]
    BY <1>18 DEF ShutDown
  <2> DEFINE o == [overlay EXCEPT !.bad = bad]
  <2>2. SurfaceInv(o) /\ o.begun BY <1>18, BadIsQuiet DEF ShutDown
  <2> HIDE DEF o
  <2>3. SurfaceInv(Shutdown(o)) BY <2>2, ShutdownKeeps
  <2> QED BY <2>1, <2>3, BadIsQuiet DEF o
<1>19. CASE UNCHANGED vars BY <1>19 DEF vars
<1> QED
  BY <1>2, <1>3, <1>4, <1>5, <1>6, <1>7, <1>8, <1>9, <1>10, <1>11, <1>12, <1>13, <1>14,
     <1>15, <1>16, <1>17, <1>18, <1>19 DEF Next, Timers

\* The invariant of the window holds in every reachable state, for any number of outputs,
\* failures and events, in any order (surface_lifecycle.py, surface.py, drag.py, window.py).
THEOREM SurfaceIsRight == Spec => []SurfaceInv(overlay)
<1>1. Init => SurfaceInv(overlay) BY BuiltKeeps DEF Init
<1> QED BY <1>1, NextKeeps, PTL DEF Spec

\* A surface that is taken for active is shown, on the output it is taken to be on.
THEOREM ActiveSurfaceIsShown == Spec => []ActiveIsShown
<1>1. SurfaceInv(overlay) => ActiveIsShown BY DEF SurfaceInv, Shown, ActiveIsShown
<1> QED BY <1>1, SurfaceIsRight, PTL

\* A region that is cached, and therefore not submitted again, is the one the compositor has.
THEOREM CachedRegionIsKnown == Spec => []RegionIsKnown
<1>1. SurfaceInv(overlay) => RegionIsKnown
  BY DEF SurfaceInv, Base, Whole, Sure, RegionIsKnown
<1> QED BY <1>1, SurfaceIsRight, PTL

\* An overlay that was shut down is not shown, and nothing is armed that could show it.
THEOREM ClosedIsClosedForGood == Spec => []ClosedStaysClosed
<1>1. SurfaceInv(overlay) => ClosedStaysClosed
  BY DEF SurfaceInv, Base, Closed, Waits, Ending, ClosedStaysClosed
<1> QED BY <1>1, SurfaceIsRight, PTL

\* An output that waits for its surface is connected, and its retry is armed, unless a
\* rebuild raised: a place waits for an output that is gone (position.py, begin_rebuild).
THEOREM PendingOutputIsRetried == Spec => []PendingIsRetried
<1>1. SurfaceInv(overlay) => PendingIsRetried
  BY DEF SurfaceInv, Base, Waits, Shown, Waiting, PendingIsRetried
<1> QED BY <1>1, SurfaceIsRight, PTL

(***************************************************************************)
(* Part 3: where the window is.                                            *)
(***************************************************************************)

\* What most calls leave as it is of the place, the configuration and the drag.
Spot(o) ==
    <<o.bad, o.content, o.height, o.layer, o.home, o.homeMargin, o.config, o.chosen,
      o.stroke, o.grab>>

\* Two windows with the same spot agree on each part of it.
LEMMA SameSpot ==
    ASSUME NEW o, NEW p, Spot(p) = Spot(o)
    PROVE  /\ p.bad = o.bad /\ p.content = o.content /\ p.height = o.height
           /\ p.layer = o.layer /\ p.home = o.home /\ p.homeMargin = o.homeMargin
           /\ p.config = o.config /\ p.chosen = o.chosen /\ p.stroke = o.stroke
           /\ p.grab = o.grab
BY DEF Spot

\* The native window of a layer surface keeps its place.
SameY(o, p) == Layered(o) /\ o.native # NoSurface => p.native.y = o.native.y

\* A call that leaves the place and the life of the window as they are.
Still(o, p) ==
    /\ Rec(p) /\ Life(p) = Life(o) /\ NativeKept(o, p)
    /\ Spot(p) = Spot(o) /\ p.at = o.at /\ SameY(o, p)

\* Two of them in a row.
LEMMA StillTrans ==
    ASSUME NEW o, NEW p, NEW q, Still(o, p), Still(p, q)
    PROVE  Still(o, q)
<1>1. p.kind = o.kind BY SameLife DEF Still
<1> QED BY <1>1 DEF Still, NativeKept, SameY, Layered

\* Doing nothing.
LEMMA StillRefl == ASSUME NEW o, Rec(o), NativeOK(o) PROVE Still(o, o)
BY DEF Still, NativeKept, SameY

\* After such a call the window is typed and of the same kind.
LEMMA StillKeeps ==
    ASSUME NEW o, NEW p, Still(o, p)
    PROVE  Rec(p) /\ NativeOK(p) /\ p.kind = o.kind /\ p.shut = o.shut /\ (Layered(p) <=> Layered(o))
BY SameLife DEF Still, NativeKept, Layered

\* Writing a field that belongs to neither.
LEMMA EditsAreStill ==
    ASSUME NEW o, Rec(o), NativeOK(o), NEW v
    PROVE  /\ Still(o, [o EXCEPT !.selected = v]) /\ Still(o, [o EXCEPT !.screen = v])
           /\ Still(o, [o EXCEPT !.rejected = v]) /\ Still(o, [o EXCEPT !.sure = v])
           /\ Still(o, [o EXCEPT !.locked = v]) /\ Still(o, [o EXCEPT !.region = v])
           /\ Still(o, [o EXCEPT !.passthrough = v]) /\ Still(o, [o EXCEPT !.inputDue = v])
           /\ Still(o, [o EXCEPT !.resize = v]) /\ Still(o, [o EXCEPT !.suppress = v])
           /\ Still(o, [o EXCEPT !.moved = v]) /\ Still(o, [o EXCEPT !.applied = v])
           /\ Still(o, [o EXCEPT !.keep = v])
<1>1. ASSUME NEW p, Rec(p), Life(p) = Life(o), Spot(p) = Spot(o), p.at = o.at, p.native = o.native
      PROVE  Still(o, p)
  BY <1>1 DEF Still, NativeKept, NativeOK, SameY
<1> QED BY <1>1, FieldNames DEF Rec, Life, Spot

\* Asking for the native handle.
LEMMA HeldIsStill ==
    ASSUME NEW o, Rec(o), NativeOK(o)
    PROVE  Still(o, Held(o)) /\ Held(o).native # NoSurface /\ (o.native # NoSurface => Held(o) = o)
<1>1. Calm(o, Held(o)) /\ Held(o).native # NoSurface BY HeldIsCalm
<1>2. Spot(Held(o)) = Spot(o) /\ Held(o).at = o.at BY FieldNames DEF Held, Rec, Spot
<1>3. o.native # NoSurface => Held(o) = o BY DEF Held
<1> QED BY <1>1, <1>2, <1>3 DEF Still, Calm, SameY

\* Submitting a region.
LEMMA SetInputIsStill ==
    ASSUME NEW o, Rec(o), NativeOK(o), NEW region
    PROVE  Still(o, SetInput(o, region).o)
<1> DEFINE h == Held(o)
           p == [h EXCEPT !.native.input = region]
           r == SetInput(o, region)
<1>1. Still(o, h) /\ h.native # NoSurface BY HeldIsStill
<1>2. Rec(h) /\ NativeOK(h) BY <1>1, StillKeeps
<1> HIDE DEF h
<1>3. /\ Spot(p) = Spot(h) /\ p.at = h.at /\ p.native = [h.native EXCEPT !.input = region]
  BY <1>2, FieldNames DEF Rec, Spot
<1> HIDE DEF p
<1>4. p.native.y = h.native.y BY <1>1, <1>2, <1>3 DEF NativeOK, NativeFields
<1>5. r = Rejected(o) \/ r = Failed(h) \/ r = Applied(p)
  BY DEF SetInput, LayerInput, WindowInput, SetInputRect, h, p
<1>6. Rec(r.o) /\ Life(r.o) = Life(o) /\ NativeKept(o, r.o) BY SetInputDoes
<1> HIDE DEF r
<1>7. r.o \in {o, h, p} BY <1>5 DEF Rejected, Failed, Applied
<1>8. Spot(r.o) = Spot(o) /\ r.o.at = o.at /\ SameY(o, r.o)
  BY <1>1, <1>3, <1>4, <1>7 DEF Still, SameY
<1> QED BY <1>6, <1>8 DEF r, Still

\* Applying the input region.
LEMMA RegionIsStill ==
    ASSUME NEW o, Rec(o), NativeOK(o)
    PROVE  Still(o, ApplyInputRegion(o).o)
<1> DEFINE region == WantedRegion(o)
           r == SetInput(o, region)
           k == [r EXCEPT !.o.region = region, !.o.sure = TRUE]
           e == [r.o EXCEPT !.region = region]
           f == [e EXCEPT !.sure = TRUE]
<1> HIDE DEF region
<1>1. Still(o, r.o) /\ Result(r) BY SetInputIsStill, SetInputDoes
<1>2. Rec(r.o) /\ NativeOK(r.o) BY <1>1, StillKeeps
<1> HIDE DEF r
<1>3. k.o = f BY <1>1 DEF Result
<1>4. Still(r.o, e) BY <1>2, EditsAreStill
<1>5. Rec(e) /\ NativeOK(e) BY <1>4, StillKeeps
<1> HIDE DEF e
<1>6. Still(e, f) BY <1>5, EditsAreStill
<1>7. Still(o, f) /\ Still(o, o) BY <1>1, <1>4, <1>6, StillTrans, StillRefl
<1> HIDE DEF f
<1>8. ApplyInputRegion(o) \in {Applied(o), r, k}
  BY DEF ApplyInputRegion, region, r, k
<1> HIDE DEF k
<1>9. Applied(o).o = o BY DEF Applied
<1> QED BY <1>1, <1>3, <1>7, <1>8, <1>9

\* A new lock state.
LEMMA ModeIsStill ==
    ASSUME NEW o, Rec(o), NativeOK(o), NEW locked
    PROVE  Still(o, SetInputMode(o, locked).o)
<1> DEFINE v == o.sure /\ locked = o.locked
           e == [o EXCEPT !.sure = v]
           p == [e EXCEPT !.locked = locked]
<1>1. [o EXCEPT !.sure = @ /\ locked = o.locked, !.locked = locked] = p
  BY FieldNames DEF Rec
<1> HIDE DEF v
<1>2. Still(o, e) BY EditsAreStill
<1>3. Rec(e) /\ NativeOK(e) BY <1>2, StillKeeps
<1> HIDE DEF e
<1>4. Still(e, p) BY <1>3, EditsAreStill
<1>5. Rec(p) /\ NativeOK(p) BY <1>4, StillKeeps
<1> HIDE DEF p
<1>6. Still(p, ApplyInputRegion(p).o) BY <1>5, RegionIsStill
<1>7. SetInputMode(o, locked) = ApplyInputRegion(p) BY <1>1 DEF SetInputMode
<1> QED BY <1>2, <1>4, <1>6, <1>7, StillTrans

\* Setting the blur.
LEMMA BlurIsStill ==
    ASSUME NEW o, Rec(o), NativeOK(o)
    PROVE  Still(o, SetBlur(o).o)
<1>1. Still(o, Held(o)) /\ Still(o, o) BY HeldIsStill, StillRefl
<1> QED BY <1>1 DEF SetBlur, LayerBlur, WindowBlur, Applied, Failed, Rejected

\* Choosing the output to work on, and binding the widget to one.
LEMMA AimedIsStill ==
    ASSUME NEW o, Rec(o), NativeOK(o), NEW output
    PROVE  Still(o, Aimed(o)) /\ Still(o, Bound(o, output))
<1> DEFINE s == Target(o)
<1> HIDE DEF s
<1>1. Still(o, [o EXCEPT !.selected = s]) /\ Still(o, [o EXCEPT !.screen = output]) /\ Still(o, o)
  BY EditsAreStill, StillRefl
<1> QED BY <1>1 DEF Aimed, Bound, s

\* The toolkit's own move, which moves no layer surface.
LEMMA MoveWindowIsStill ==
    ASSUME NEW o, Rec(o), NativeOK(o), NEW output, NEW y
    PROVE  Still(o, MoveWindow(o, output, y))
<1> DEFINE h == Held(o)
           p == [h EXCEPT !.native.y = y, !.native.output = output]
           m == MoveWindow(o, output, y)
<1>1. Still(o, h) BY HeldIsStill
<1>2. Rec(h) BY <1>1, StillKeeps
<1> HIDE DEF h
<1>3. Spot(p) = Spot(h) /\ p.at = h.at BY <1>2, FieldNames DEF Rec, Spot
<1>4. Calm(o, m) BY MoveWindowIsCalm
<1>5. m = o \/ (m = p /\ o.kind = "window") BY DEF MoveWindow, h
<1> HIDE DEF m, p
<1>6. Spot(m) = Spot(o) /\ m.at = o.at BY <1>1, <1>3, <1>5 DEF Still
<1>7. SameY(o, m) BY <1>5 DEF SameY, Layered
<1> QED BY <1>4, <1>6, <1>7 DEF Still, Calm, m

\* A move through the adapter: a layer surface is then at the place it was given, which
\* the strategy of the drag records; a move that fails changes nothing.
LEMMA MoveDoes ==
    ASSUME NEW o, Rec(o), NativeOK(o), NEW output, NEW y
    PROVE  LET r == MoveTo(o, output, y) IN
           /\ Result(r)
           /\ Rec(r.o) /\ Life(r.o) = Life(o) /\ NativeKept(o, r.o) /\ Spot(r.o) = Spot(o)
           /\ ~Layered(o) \/ r.is # "applied" => Still(o, r.o)
           /\ Layered(o) /\ r.is = "applied" =>
                 /\ r.o.at = y /\ r.o.native # NoSurface
                 /\ r.o.native.layer => r.o.native.y = y
           /\ Layered(o) /\ o.bad = {} /\ ~o.shut => r.is = "applied"
<1> DEFINE h == Held(o)
           m == [h EXCEPT !.native.y = y]
           a == SetAnchor(o, y)
           p == [a EXCEPT !.at = y]
           r == MoveTo(o, output, y)
<1>1. Still(o, h) /\ h.native # NoSurface BY HeldIsStill
<1>2. Rec(h) /\ NativeOK(h) BY <1>1, StillKeeps
<1>3. a = IF h.native.layer THEN m ELSE h BY DEF SetAnchor, h, m
<1> HIDE DEF h
<1>4. /\ Rec(m) /\ Spot(m) = Spot(h) /\ m.at = h.at /\ m.native = [h.native EXCEPT !.y = y]
  BY <1>2, FieldNames DEF Rec, Spot
<1>5. m.native # NoSurface /\ m.native.y = y
  BY <1>1, <1>2, <1>4, NoWindow DEF NativeOK, NativeFields
<1> HIDE DEF m
<1>6. Rec(a) /\ Spot(a) = Spot(o) /\ a.native # NoSurface /\ (a.native.layer => a.native.y = y)
  BY <1>1, <1>2, <1>3, <1>4, <1>5 DEF Still
<1> HIDE DEF a
<1>7. Spot(p) = Spot(a) /\ p.at = y /\ p.native = a.native
  BY <1>6, FieldNames DEF Rec, Spot
<1> HIDE DEF p
<1>8. Still(o, o) /\ Still(o, MoveWindow(o, output, y)) BY StillRefl, MoveWindowIsStill
<1>9. Calm(o, r.o) /\ Result(r) BY MoveIsCalm DEF Result
<1>10. Layered(o) => \/ r = Rejected(o) /\ o.shut
                     \/ r = Failed(h) /\ "move" \in o.bad
                     \/ r = Applied(p)
  BY DEF MoveTo, LayerMove, h, p, a
<1>11. ~Layered(o) => r.o \in {o, h, MoveWindow(o, output, y)}
  BY DEF MoveTo, WindowMove, Rejected, Unsupported, Failed, Applied, h
<1> HIDE DEF r
<1>12. ~Layered(o) => Still(o, r.o) BY <1>1, <1>8, <1>11
<1>13. Layered(o) => \/ r.o = o /\ r.is = "rejected" /\ o.shut
                     \/ r.o = h /\ r.is = "failed" /\ "move" \in o.bad
                     \/ r.o = p /\ r.is = "applied"
  BY <1>10 DEF Rejected, Failed, Applied
<1>14. Spot(r.o) = Spot(o) BY <1>1, <1>6, <1>7, <1>12, <1>13 DEF Still
<1> QED BY <1>1, <1>6, <1>7, <1>8, <1>9, <1>12, <1>13, <1>14 DEF r, Calm

-------------------------------------------------------------------------------
(* Numbers, and what the configuration becomes.                            *)

\* What is measured in pixels.
Numbers(o) ==
    /\ o.layer \in Int /\ o.at \in Int /\ o.height \in Int /\ o.content \in Nat
    /\ o.config.margin \in Int /\ o.homeMargin \in Int \cup {NoMargin}
    /\ o.placing # NoPlacement => o.placing.y \in Int /\ o.placing.margin \in Int

\* What every call leaves as it is.
Frame(o) == <<o.kind, o.bad, o.content, o.closing, DOMAIN o.config>>

\* Two windows with the same frame agree on each part of it.
LEMMA SameFrame ==
    ASSUME NEW o, NEW p, Frame(p) = Frame(o)
    PROVE  /\ p.kind = o.kind /\ p.bad = o.bad /\ p.content = o.content
           /\ p.closing = o.closing /\ DOMAIN p.config = DOMAIN o.config
           /\ (Layered(p) <=> Layered(o))
BY DEF Frame, Layered

\* What holds of the window whatever fails: its numbers are numbers, only a window that is
\* shown holds the pointer, and no surface is on an output that was removed.
Firm(o) ==
    /\ Numbers(o)
    /\ o.grab => o.visible
    /\ o.active # Gone
    /\ DOMAIN o.config = {"top", "margin", "screen", "passthrough"}

\* A call that fits keeps the frame and what is firm.
Fits(o, p) == Frame(p) = Frame(o) /\ (Firm(o) => Firm(p))

\* Two calls that fit, one after the other.
LEMMA FitsTrans ==
    ASSUME NEW o, NEW p, NEW q, Fits(o, p), Fits(p, q)
    PROVE  Fits(o, q)
BY DEF Fits

\* What leaves everything as it is fits.
LEMMA StillFits ==
    ASSUME NEW o, NEW p, Still(o, p)
    PROVE  /\ Fits(o, p) /\ p.config = o.config /\ p.chosen = o.chosen
           /\ p.grab = o.grab /\ p.visible = o.visible
<1>1. Spot(p) = Spot(o) /\ Life(p) = Life(o) /\ p.at = o.at BY DEF Still
<1>2. /\ p.bad = o.bad /\ p.content = o.content /\ p.height = o.height
      /\ p.layer = o.layer /\ p.homeMargin = o.homeMargin
      /\ p.config = o.config /\ p.chosen = o.chosen /\ p.grab = o.grab
  BY <1>1, SameSpot
<1>3. /\ p.kind = o.kind /\ p.active = o.active /\ p.closing = o.closing
      /\ p.placing = o.placing /\ p.visible = o.visible
  BY <1>1, SameLife
<1>4. Frame(p) = Frame(o) BY <1>2, <1>3 DEF Frame
<1>5. Firm(o) => Firm(p) BY <1>1, <1>2, <1>3 DEF Firm, Numbers
<1> QED BY <1>2, <1>3, <1>4, <1>5 DEF Fits

\* The place of a surface is a number between the edges of its output.
LEMMA ClampedIsNumber ==
    ASSUME NEW y \in Int, NEW h \in Int, NEW partial
    PROVE  /\ Clamped(y, h, partial) \in Int
           /\ Clamped(y, h, TRUE) \in 0 .. ScreenHeight - Strip
BY SpaceAssumption DEF Clamped, Between, Least, Greatest

\* The distance that is saved for a place is a number.
LEMMA EdgeIsNumber ==
    ASSUME NEW o, o.content \in Nat, NEW y \in Int
    PROVE  EdgeMargin(o, y) \in Int
BY SpaceAssumption DEF EdgeMargin, Between, Least, Greatest

\* So is the place the configuration gives.
LEMMA LayerPlaceIsNumber ==
    ASSUME NEW o, Numbers(o), NEW output
    PROVE  LayerPlace(o, output) \in Int
<1> DEFINE home == output # NoOutput /\ o.home = output
           margin == IF home /\ o.homeMargin # NoMargin THEN o.homeMargin ELSE o.config.margin
           y == IF o.config.top THEN margin ELSE ScreenHeight - o.content - margin
<1>1. margin \in Int BY DEF Numbers
<1> HIDE DEF home, margin
<1>2. y \in Int /\ o.content \in Int BY <1>1, SpaceAssumption DEF Numbers
<1> HIDE DEF y
<1>3. Clamped(y, o.content, home) \in Int BY <1>2, ClampedIsNumber
<1> QED BY <1>3 DEF LayerPlace, y, margin, home

\* A place that is saved is the one the configuration gives from then on, but for the part
\* that hangs off the lower edge.
LEMMA SavedPlace ==
    ASSUME NEW o, o.content \in Nat, NEW l \in Int
    PROVE  LET y == Clamped(l, o.content, TRUE)
               margin == EdgeMargin(o, y)
               given == Clamped(IF o.config.top THEN margin ELSE ScreenHeight - o.content - margin,
                                o.content, TRUE)
           IN  \/ given = y
               \/ ~o.config.top /\ y + o.content > ScreenHeight /\ given = Clamped(y, o.content, FALSE)
<1> DEFINE y == Clamped(l, o.content, TRUE)
           h == o.content
<1>1. y \in 0 .. ScreenHeight - Strip
  <2>1. h \in Int OBVIOUS
  <2> HIDE DEF h
  <2> QED BY <2>1, ClampedIsNumber DEF h
<1> HIDE DEF y
<1>2. h \in Nat /\ ScreenHeight \in Nat /\ Strip \in 1 .. ScreenHeight BY SpaceAssumption
<1> HIDE DEF h
<1>3. CASE o.config.top
  <2>1. EdgeMargin(o, y) = y BY <1>1, <1>2, <1>3 DEF EdgeMargin, Between, Least, Greatest
  <2>2. Clamped(y, h, TRUE) = y BY <1>1, <1>2 DEF Clamped, Between, Least, Greatest
  <2> QED BY <1>3, <2>1, <2>2 DEF y, h
<1>4. CASE ~o.config.top /\ y + h <= ScreenHeight
  <2>1. EdgeMargin(o, y) = ScreenHeight - h - y
    BY <1>1, <1>2, <1>4 DEF EdgeMargin, Between, Least, Greatest, h
  <2>2. ScreenHeight - h - EdgeMargin(o, y) = y BY <1>1, <1>2, <2>1
  <2>3. Clamped(y, h, TRUE) = y BY <1>1, <1>2 DEF Clamped, Between, Least, Greatest
  <2> QED BY <1>4, <2>2, <2>3 DEF y, h
<1>5. CASE ~o.config.top /\ y + h > ScreenHeight
  <2>1. EdgeMargin(o, y) = 0
    BY <1>1, <1>2, <1>5 DEF EdgeMargin, Between, Least, Greatest, h
  <2>2. Clamped(ScreenHeight - h - 0, h, TRUE) = Clamped(y, h, FALSE)
    BY <1>1, <1>2, <1>5 DEF Clamped, Between, Least, Greatest
  <2> QED BY <1>5, <2>1, <2>2 DEF y, h
<1>6. y + h <= ScreenHeight \/ y + h > ScreenHeight BY <1>1, <1>2
<1> QED BY <1>3, <1>4, <1>5, <1>6


-------------------------------------------------------------------------------
(* Calls that place the window.                                            *)

\* What the geometry and the configuration leave as it is.
Hand(o) == <<o.bad, o.content, o.config, o.chosen, o.stroke, o.grab, o.at>>

\* Two windows with the same hand agree on each part of it.
LEMMA SameHand ==
    ASSUME NEW o, NEW p, Hand(p) = Hand(o)
    PROVE  /\ p.bad = o.bad /\ p.content = o.content /\ p.config = o.config
           /\ p.chosen = o.chosen /\ p.stroke = o.stroke /\ p.grab = o.grab /\ p.at = o.at
BY DEF Hand

\* A call that leaves everything as it is leaves the hand.
LEMMA StillHand ==
    ASSUME NEW o, NEW p, Still(o, p)
    PROVE  Hand(p) = Hand(o) /\ SameY(o, p) /\ p.height = o.height /\ p.layer = o.layer
           /\ p.home = o.home /\ p.homeMargin = o.homeMargin
BY SameSpot DEF Still, Hand

\* A call that leaves the life and the hand fits, when what it measures are numbers.
LEMMA HandFits ==
    ASSUME NEW o, NEW p, Life(p) = Life(o), Hand(p) = Hand(o),
           Numbers(o) => p.layer \in Int /\ p.height \in Int
                         /\ p.homeMargin \in Int \cup {NoMargin}
    PROVE  Fits(o, p)
<1>1. /\ p.bad = o.bad /\ p.content = o.content /\ p.config = o.config
      /\ p.grab = o.grab /\ p.at = o.at
  BY SameHand
<1>2. /\ p.kind = o.kind /\ p.active = o.active /\ p.closing = o.closing
      /\ p.placing = o.placing /\ p.visible = o.visible
  BY SameLife
<1>3. Frame(p) = Frame(o) BY <1>1, <1>2 DEF Frame
<1>4. Firm(o) => Firm(p) BY <1>1, <1>2 DEF Firm, Numbers
<1> QED BY <1>3, <1>4 DEF Fits

\* The geometry gives the window the height of its content, and its place if it is reset.
LEMMA GeometryDoes ==
    ASSUME NEW o, Rec(o), NativeOK(o), NEW reset
    PROVE  LET p == ApplyWindowGeometry(o, reset) IN
           /\ Fits(o, p) /\ Life(p) = Life(o) /\ Hand(p) = Hand(o) /\ SameY(o, p)
           /\ Rec(p) /\ NativeKept(o, p)
           /\ \/ p.height = o.height /\ p.layer = o.layer /\ Target(o) = NoOutput
              \/ /\ p.height = o.content
                 /\ p.layer = IF reset THEN LayerPlace(o, Target(o)) ELSE o.layer
<1> DEFINE a == Aimed(o)
           b == Bound(a, a.selected)
           l == IF reset THEN LayerPlace(a, a.selected) ELSE b.layer
           w == b.resize \/ a.height # a.content
           s == [b EXCEPT !.height = a.content,
                          !.resize = @ \/ a.height # a.content,
                          !.layer = IF reset THEN LayerPlace(a, a.selected) ELSE @]
           m == MoveTo(s, s.selected, s.layer)
           p == ApplyWindowGeometry(o, reset)
<1>1. Still(o, a) /\ a.selected = Target(o) BY AimedIsStill, AimedIsCalm
<1>2. Rec(a) /\ NativeOK(a) BY <1>1, StillKeeps
<1> HIDE DEF a
<1>3. Still(a, b) BY <1>2, AimedIsStill
<1>4. Rec(b) /\ NativeOK(b) BY <1>3, StillKeeps
<1> HIDE DEF b
<1>5. s = [b EXCEPT !.height = a.content, !.resize = w, !.layer = l]
  BY <1>4, FieldNames DEF Rec
<1>6. /\ a.content = o.content /\ b.layer = o.layer /\ a.home = o.home
      /\ a.homeMargin = o.homeMargin /\ a.config = o.config
  BY <1>1, <1>3, StillHand, SameHand
<1>7. l = IF reset THEN LayerPlace(o, Target(o)) ELSE o.layer
  BY <1>1, <1>6 DEF LayerPlace
<1> HIDE DEF l, w
<1> HIDE DEF s
<1>8. /\ Rec(s) /\ Life(s) = Life(b) /\ Hand(s) = Hand(b) /\ s.native = b.native
      /\ s.height = a.content /\ s.layer = l /\ s.homeMargin = b.homeMargin
      /\ s.selected = b.selected
  BY <1>4, <1>5, FieldNames DEF Rec, Life, Hand
<1>9. /\ Life(s) = Life(o) /\ Hand(s) = Hand(o) /\ SameY(o, s) /\ s.homeMargin = o.homeMargin
      /\ s.kind = o.kind
  BY <1>1, <1>3, <1>8, StillHand, StillTrans, SameLife DEF Still, SameY
<1>10. NativeOK(s) BY <1>4, <1>8 DEF NativeOK
<1>11. s.kind = "window" => Still(s, m.o) BY <1>8, <1>10, MoveDoes DEF Layered
<1>12. p = IF a.selected = NoOutput THEN a ELSE IF s.kind # "window" THEN s ELSE m.o
  BY DEF ApplyWindowGeometry, p, a, b, s, m
<1> HIDE DEF m, p
<1>13. (p.height = o.height /\ p.layer = o.layer) \/ (p.height = o.content /\ p.layer = l)
  BY <1>1, <1>6, <1>8, <1>11, <1>12, StillHand
<1>14. Target(o) # NoOutput => p.height = o.content /\ p.layer = l
  BY <1>1, <1>6, <1>8, <1>11, <1>12, StillHand
<1>15. Life(p) = Life(o) /\ Hand(p) = Hand(o) /\ p.homeMargin = o.homeMargin /\ SameY(o, p)
  <2>1. s.kind = "window" => Life(m.o) = Life(s) /\ Hand(m.o) = Hand(s) /\ m.o.homeMargin = s.homeMargin
    BY <1>11, StillHand DEF Still
  <2>2. s.kind = "window" => ~Layered(o) BY <1>9 DEF Layered
  <2>3. Life(a) = Life(o) /\ Hand(a) = Hand(o) /\ a.homeMargin = o.homeMargin /\ SameY(o, a)
    BY <1>1, StillHand DEF Still
  <2> QED BY <1>9, <1>12, <2>1, <2>2, <2>3 DEF SameY
<1>16. Numbers(o) => p.layer \in Int /\ p.height \in Int /\ p.homeMargin \in Int \cup {NoMargin}
  <2> SUFFICES ASSUME Numbers(o) PROVE p.layer \in Int /\ p.height \in Int /\ p.homeMargin \in Int \cup {NoMargin}
    OBVIOUS
  <2>1. LayerPlace(o, Target(o)) \in Int BY LayerPlaceIsNumber
  <2>2. o.layer \in Int /\ o.height \in Int /\ o.content \in Int /\ o.homeMargin \in Int \cup {NoMargin}
    BY DEF Numbers
  <2> QED BY <1>7, <1>13, <1>15, <2>1, <2>2
<1>17. Fits(o, p) BY <1>15, <1>16, HandFits
<1>18. Calm(o, p) BY WindowGeometryIsCalm DEF p
<1> QED BY <1>7, <1>13, <1>14, <1>15, <1>17, <1>18 DEF p, Calm

\* A configuration leaves the window its hand, and gives it the place that is configured on
\* the output in use.
LEMMA ConfigDoes ==
    ASSUME NEW o, Rec(o), NativeOK(o)
    PROVE  LET p == ApplyConfig(o) IN
           /\ Fits(o, p) /\ Hand(p) = Hand(o) /\ SameY(o, p)
           /\ /\ ~Ending(o) /\ o.config.screen \in o.connected /\ o.chosen = o.config.screen
              /\ o.config.screen # NoOutput
              => /\ p.height = o.content
                 /\ p.layer = Clamped(IF o.config.top THEN o.config.margin
                                      ELSE ScreenHeight - o.content - o.config.margin,
                                      o.content, TRUE)
<1> DEFINE r == [o EXCEPT !.rejected = 0]
           u == UpdateGeometry(r)
           c == o.config.passthrough
           l == SetInputMode(u, c).o
           output == IF Configured(o) # NoOutput THEN Configured(o)
                     ELSE IF o.chosen # NoOutput THEN o.chosen
                     ELSE o.screen
           e == [l EXCEPT !.passthrough = c]
           a == [l EXCEPT !.passthrough = c, !.selected = output]
           w == ApplyWindowGeometry(a, TRUE)
           p == [w EXCEPT !.resize = TRUE]
<1> HIDE DEF c, output
<1>1. /\ Rec(u) /\ Life(u) = Life(o) /\ Hand(u) = Hand(o) /\ u.native = o.native
      /\ u.homeMargin = NoMargin /\ u.home = o.config.screen
      /\ u.layer = o.layer /\ u.height = o.height
  <2>1. u = [r EXCEPT !.home = r.config.screen, !.homeMargin = NoMargin] BY DEF UpdateGeometry
  <2> HIDE DEF u
  <2> QED BY <2>1, FieldNames DEF Rec, Life, Hand
<1> HIDE DEF u
<1>2. NativeOK(u) /\ SameY(o, u) BY <1>1 DEF NativeOK, SameY
<1>3. Numbers(o) => u.layer \in Int /\ u.height \in Int /\ u.homeMargin \in Int \cup {NoMargin}
  BY <1>1 DEF Numbers
<1>4. Fits(o, u) BY <1>1, <1>3, HandFits
<1>5. Still(u, l) BY <1>1, <1>2, ModeIsStill
<1>6. Rec(l) /\ NativeOK(l) BY <1>5, StillKeeps
<1> HIDE DEF l
<1>7. Still(l, e) BY <1>6, EditsAreStill
<1>8. Rec(e) /\ NativeOK(e) BY <1>7, StillKeeps
<1>9. a = [e EXCEPT !.selected = output] BY <1>6, FieldNames DEF Rec
<1> HIDE DEF e, a
<1>10. Still(e, a) BY <1>8, <1>9, EditsAreStill
<1>11. Still(u, a) /\ Rec(a) /\ NativeOK(a)
  BY <1>5, <1>7, <1>10, StillTrans, StillKeeps
<1>12. /\ Fits(a, w) /\ Life(w) = Life(a) /\ Hand(w) = Hand(a) /\ SameY(a, w)
       /\ Rec(w) /\ NativeKept(a, w)
       /\ \/ w.height = a.height /\ w.layer = a.layer /\ Target(a) = NoOutput
          \/ w.height = a.content /\ w.layer = LayerPlace(a, Target(a))
  <2>1. PICK reset \in BOOLEAN : reset = TRUE OBVIOUS
  <2>2. LET g == ApplyWindowGeometry(a, reset) IN
        /\ Fits(a, g) /\ Life(g) = Life(a) /\ Hand(g) = Hand(a) /\ SameY(a, g)
        /\ Rec(g) /\ NativeKept(a, g)
        /\ \/ g.height = a.height /\ g.layer = a.layer /\ Target(a) = NoOutput
           \/ /\ g.height = a.content
              /\ g.layer = IF reset THEN LayerPlace(a, Target(a)) ELSE a.layer
    BY <1>11, GeometryDoes
  <2>3. ApplyWindowGeometry(a, reset) = w BY <2>1
  <2> HIDE DEF w
  <2> QED BY <2>1, <2>2, <2>3
<1> HIDE DEF w
<1>13. Still(w, p) BY <1>12, EditsAreStill DEF NativeKept
<1> HIDE DEF p
<1>14. ApplyConfig(o) = IF Ending(o) THEN o ELSE p
  BY DEF ApplyConfig, p, w, a, l, u, c, output
<1>15. Still(o, o) BY StillRefl
<1>16. Fits(o, p) BY <1>4, <1>11, <1>12, <1>13, StillFits, FitsTrans
<1>17. Hand(p) = Hand(o) BY <1>1, <1>11, <1>12, <1>13, StillHand
<1>18. SameY(o, p)
  <2>1. SameY(u, a) /\ SameY(w, p) BY <1>11, <1>13 DEF Still
  <2>2. a.kind = o.kind /\ u.kind = o.kind /\ w.kind = o.kind
    BY <1>1, <1>11, <1>12, SameLife, StillKeeps
  <2>3. o.native # NoSurface => a.native # NoSurface /\ w.native # NoSurface
    BY <1>1, <1>11, <1>12 DEF Still, NativeKept
  <2> QED BY <1>1, <1>12, <2>1, <2>2, <2>3 DEF SameY, Layered
<1>19. ASSUME ~Ending(o), o.config.screen \in o.connected, o.chosen = o.config.screen,
              o.config.screen # NoOutput
       PROVE  /\ p.height = o.content
              /\ p.layer = Clamped(IF o.config.top THEN o.config.margin
                                   ELSE ScreenHeight - o.content - o.config.margin,
                                   o.content, TRUE)
  <2>1. /\ a.chosen = o.chosen /\ a.config = o.config /\ a.content = o.content
        /\ a.home = o.config.screen /\ a.homeMargin = NoMargin
    BY <1>1, <1>11, StillHand, SameHand
  <2>2. a.connected = o.connected BY <1>1, <1>11, SameLife DEF Still
  <2>3. Target(a) = o.config.screen BY <1>19, <2>1, <2>2 DEF Target, TargetScreen
  <2>4. LayerPlace(a, Target(a)) = Clamped(IF o.config.top THEN o.config.margin
                                           ELSE ScreenHeight - o.content - o.config.margin,
                                           o.content, TRUE)
    BY <1>19, <2>1, <2>3 DEF LayerPlace
  <2>5. w.height = o.content /\ w.layer = LayerPlace(a, Target(a))
    BY <1>12, <1>19, <2>1, <2>3
  <2> QED BY <1>13, <2>4, <2>5, StillHand
<1>20. Ending(o) => Fits(o, ApplyConfig(o)) /\ Hand(ApplyConfig(o)) = Hand(o) /\ SameY(o, ApplyConfig(o))
  BY <1>14, <1>15, StillFits, StillHand
<1> QED BY <1>14, <1>16, <1>17, <1>18, <1>19, <1>20

\* Saving a placement changes the margin and the screen of the configuration and, on the
\* output in use, gives the window that place.
LEMMA SaveDoes ==
    ASSUME NEW o, Rec(o), NativeOK(o), NEW commit, Firm(o), commit.margin \in Int
    PROVE  LET p == Save(o, commit) IN
           /\ Frame(p) = Frame(o) /\ Firm(p) /\ SameY(o, p)
           /\ p.config = [o.config EXCEPT !.margin = commit.margin, !.screen = commit.screen]
           /\ p.chosen = o.chosen /\ p.stroke = o.stroke /\ p.grab = o.grab /\ p.at = o.at
           /\ /\ ~Ending(o) /\ commit.screen \in o.connected /\ o.chosen = commit.screen
              /\ commit.screen # NoOutput
              => /\ p.height = o.content
                 /\ p.layer = Clamped(IF o.config.top THEN commit.margin
                                      ELSE ScreenHeight - o.content - commit.margin,
                                      o.content, TRUE)
<1> DEFINE c == [o.config EXCEPT !.margin = commit.margin, !.screen = commit.screen]
           s == [o EXCEPT !.config = c]
           p == ApplyConfig(s)
<1>1. [o EXCEPT !.config.margin = commit.margin, !.config.screen = commit.screen] = s
  BY FieldNames DEF Rec
<1>2. /\ DOMAIN c = DOMAIN o.config /\ c.margin = commit.margin /\ c.screen = commit.screen
      /\ c.top = o.config.top
  BY DEF Firm
<1>3. c = [o.config EXCEPT !.margin = commit.margin, !.screen = commit.screen] OBVIOUS
<1> HIDE DEF c
<1>4. /\ Rec(s) /\ Life(s) = Life(o) /\ s.native = o.native /\ s.config = c
      /\ s.bad = o.bad /\ s.content = o.content /\ s.chosen = o.chosen /\ s.stroke = o.stroke
      /\ s.grab = o.grab /\ s.at = o.at /\ s.layer = o.layer /\ s.height = o.height
      /\ s.homeMargin = o.homeMargin /\ s.visible = o.visible /\ s.active = o.active
      /\ s.placing = o.placing /\ s.connected = o.connected /\ s.kind = o.kind
      /\ s.closing = o.closing /\ s.closed = o.closed
  BY <1>2, FieldNames DEF Rec, Life
<1> HIDE DEF s
<1>5. Frame(s) = Frame(o) BY <1>2, <1>4 DEF Frame
<1>6. Firm(s) BY <1>2, <1>4 DEF Firm, Numbers
<1>7. NativeOK(s) /\ SameY(o, s) /\ (Ending(s) <=> Ending(o)) BY <1>4 DEF NativeOK, SameY, Ending
<1>8. /\ Fits(s, p) /\ Hand(p) = Hand(s) /\ SameY(s, p)
      /\ /\ ~Ending(s) /\ s.config.screen \in s.connected /\ s.chosen = s.config.screen
         /\ s.config.screen # NoOutput
         => /\ p.height = s.content
            /\ p.layer = Clamped(IF s.config.top THEN s.config.margin
                                 ELSE ScreenHeight - s.content - s.config.margin,
                                 s.content, TRUE)
  BY <1>4, <1>7, ConfigDoes
<1>9. Save(o, commit) = p BY <1>1 DEF Save
<1> HIDE DEF p
<1>10. /\ p.config = c /\ p.chosen = o.chosen /\ p.stroke = o.stroke /\ p.grab = o.grab
       /\ p.at = o.at
  BY <1>4, <1>8, SameHand
<1>11. SameY(o, p) BY <1>4, <1>8 DEF SameY, Layered
<1> QED BY <1>2, <1>3, <1>4, <1>5, <1>6, <1>7, <1>8, <1>9, <1>10, <1>11 DEF Fits

\* Recording where a drag ended gives the window that place.
LEMMA CommitDoes ==
    ASSUME NEW o, Rec(o), NEW commit, commit.y \in Int, commit.margin \in Int
    PROVE  LET p == CommitPosition(o, commit) IN
           /\ Fits(o, p) /\ Rec(p) /\ p.native = o.native /\ Life(p) = Life(o)
           /\ p.layer = commit.y /\ p.chosen = commit.object
           /\ p.config = o.config /\ p.content = o.content /\ p.height = o.height
           /\ p.stroke = o.stroke /\ p.grab = o.grab /\ p.at = o.at
<1> DEFINE p == CommitPosition(o, commit)
<1>1. p = [[o EXCEPT !.home = commit.screen, !.homeMargin = commit.margin] EXCEPT
             !.layer = commit.y, !.selected = commit.object, !.chosen = commit.object]
  BY DEF CommitPosition, RecordCommit
<1> HIDE DEF p
<1>2. /\ Rec(p) /\ p.native = o.native /\ Life(p) = Life(o)
      /\ p.layer = commit.y /\ p.chosen = commit.object
      /\ p.config = o.config /\ p.content = o.content /\ p.height = o.height
      /\ p.stroke = o.stroke /\ p.grab = o.grab /\ p.at = o.at /\ p.bad = o.bad
      /\ p.homeMargin = commit.margin /\ p.kind = o.kind /\ p.active = o.active
      /\ p.placing = o.placing /\ p.visible = o.visible /\ p.closing = o.closing
  BY <1>1, FieldNames DEF Rec, Life
<1>3. Frame(p) = Frame(o) BY <1>2 DEF Frame
<1>4. Firm(o) => Firm(p) BY <1>2 DEF Firm, Numbers
<1> QED BY <1>2, <1>3, <1>4 DEF p, Fits

-------------------------------------------------------------------------------
(* The surface's life fits.                                                *)

\* What releasing and promoting the surface leaves as it is.
Core(o) ==
    <<o.kind, o.bad, o.content, o.closing, o.config, o.layer, o.at, o.height, o.homeMargin,
      o.placing, o.active, o.chosen, o.stroke, o.dragging>>

\* Two windows with the same core agree on each part of it.
LEMMA SameCore ==
    ASSUME NEW o, NEW p, Core(p) = Core(o)
    PROVE  /\ p.kind = o.kind /\ p.bad = o.bad /\ p.content = o.content
           /\ p.closing = o.closing /\ p.config = o.config /\ p.layer = o.layer
           /\ p.at = o.at /\ p.height = o.height /\ p.homeMargin = o.homeMargin
           /\ p.placing = o.placing /\ p.active = o.active /\ p.chosen = o.chosen
           /\ p.stroke = o.stroke /\ p.dragging = o.dragging
BY DEF Core

\* A call that keeps the core, and grabs nothing, fits.
LEMMA CoreFits ==
    ASSUME NEW o, NEW p, Core(p) = Core(o), p.grab => o.grab, p.grab /\ o.visible => p.visible
    PROVE  Fits(o, p)
<1>1. /\ p.kind = o.kind /\ p.bad = o.bad /\ p.content = o.content
      /\ p.closing = o.closing /\ p.config = o.config /\ p.layer = o.layer
      /\ p.at = o.at /\ p.height = o.height /\ p.homeMargin = o.homeMargin
      /\ p.placing = o.placing /\ p.active = o.active
  BY SameCore
<1>2. Frame(p) = Frame(o) BY <1>1 DEF Frame
<1>3. Firm(o) => Firm(p) BY <1>1 DEF Firm, Numbers
<1> QED BY <1>2, <1>3 DEF Fits

\* What leaves everything as it is keeps the core.
LEMMA StillCore ==
    ASSUME NEW o, NEW p, Still(o, p)
    PROVE  Core(p) = Core(o) /\ p.grab = o.grab /\ p.visible = o.visible
<1>1. Spot(p) = Spot(o) /\ Life(p) = Life(o) /\ p.at = o.at BY DEF Still
<1> QED BY <1>1, SameSpot, SameLife DEF Core

\* A move to a number fits.
LEMMA MoveFits ==
    ASSUME NEW o, Rec(o), NativeOK(o), NEW output, NEW y \in Int
    PROVE  Fits(o, MoveTo(o, output, y).o)
<1> DEFINE r == MoveTo(o, output, y)
<1>1. /\ Life(r.o) = Life(o) /\ Spot(r.o) = Spot(o)
      /\ ~Layered(o) \/ r.is # "applied" => Still(o, r.o)
      /\ Layered(o) /\ r.is = "applied" => r.o.at = y
  BY MoveDoes
<1> HIDE DEF r
<1>2. r.o.at \in {o.at, y} BY <1>1 DEF Still
<1>3. /\ r.o.kind = o.kind /\ r.o.active = o.active /\ r.o.closing = o.closing
      /\ r.o.placing = o.placing /\ r.o.visible = o.visible
  BY <1>1, SameLife
<1>4. /\ r.o.bad = o.bad /\ r.o.content = o.content /\ r.o.height = o.height
      /\ r.o.layer = o.layer /\ r.o.homeMargin = o.homeMargin
      /\ r.o.config = o.config /\ r.o.grab = o.grab
  BY <1>1, SameSpot
<1>5. Frame(r.o) = Frame(o) BY <1>3, <1>4 DEF Frame
<1>6. Firm(o) => Firm(r.o) BY <1>2, <1>3, <1>4 DEF Firm, Numbers
<1> QED BY <1>5, <1>6 DEF Fits, r

\* Showing the window fits, and an activation is due that will place it.
LEMMA ShowFits ==
    ASSUME NEW o, Rec(o), NativeOK(o)
    PROVE  LET p == Show(o) IN
           /\ Fits(o, p) /\ p.config = o.config /\ p.chosen = o.chosen /\ p.grab = o.grab
           /\ o.visible => p = o
           /\ ~o.visible => p.soon \/ Ending(p)
<1> DEFINE h == Held(o)
           s == [h EXCEPT !.visible = TRUE, !.native.output = o.screen]
           k == [s EXCEPT !.keep = FALSE]
           w == ApplyWindowGeometry(k, ~o.keep)
           p == [w EXCEPT !.soon = TRUE, !.later = TRUE]
<1>1. Still(o, h) /\ h.native # NoSurface BY HeldIsStill
<1>2. Rec(h) /\ NativeOK(h) BY <1>1, StillKeeps
<1> HIDE DEF h
<1>3. /\ Rec(s) /\ Core(s) = Core(h) /\ s.grab = h.grab /\ s.visible /\ s.closed = h.closed
      /\ s.native = [h.native EXCEPT !.output = o.screen]
  BY <1>2, FieldNames DEF Rec, Core
<1> HIDE DEF s
<1>4. NativeOK(s) BY <1>1, <1>2, <1>3 DEF NativeOK
<1>5. Fits(o, s) /\ s.config = o.config /\ s.chosen = o.chosen /\ s.grab = o.grab
  BY <1>1, <1>3, StillFits, CoreFits, FitsTrans, SameCore
<1>6. Still(s, k) BY <1>3, <1>4, EditsAreStill
<1>7. Rec(k) /\ NativeOK(k) BY <1>6, StillKeeps
<1> HIDE DEF k
<1>8. Fits(k, w) /\ Hand(w) = Hand(k) /\ Rec(w) /\ Life(w) = Life(k)
  <2> DEFINE reset == ~o.keep
  <2>1. w = ApplyWindowGeometry(k, reset) OBVIOUS
  <2> HIDE DEF reset, w
  <2> QED BY <1>7, <2>1, GeometryDoes
<1> HIDE DEF w
<1>9. /\ Core(p) = Core(w) /\ p.grab = w.grab /\ p.visible = w.visible /\ p.soon = TRUE
  BY <1>8, FieldNames DEF Rec, Core
<1> HIDE DEF p
<1>10. Fits(w, p) /\ p.config = w.config /\ p.chosen = w.chosen /\ p.grab = w.grab
  BY <1>9, CoreFits, SameCore
<1>11. Fits(o, p) /\ p.config = o.config /\ p.chosen = o.chosen /\ p.grab = o.grab
  BY <1>5, <1>6, <1>8, <1>10, StillFits, FitsTrans, SameHand
<1>12. Show(o) = IF o.visible THEN o ELSE IF Ending(o) THEN s ELSE p
  BY DEF Show, p, w, k, s, h
<1>13. Ending(o) => Ending(s)
  <2>1. h.closed = o.closed /\ h.closing = o.closing BY <1>1, SameLife DEF Still
  <2> QED BY <1>3, <2>1, SameCore DEF Ending
<1>14. Fits(o, o) BY DEF Fits
<1> QED BY <1>5, <1>9, <1>11, <1>12, <1>13, <1>14

\* A release keeps the core and, when no call fails, succeeds.
LEMMA ReleaseFits ==
    ASSUME NEW o, Rec(o), NativeOK(o)
    PROVE  LET r == ReleaseSurface(o) IN
           /\ Core(r.o) = Core(o) /\ Fits(o, r.o)
           /\ o.bad = {} => r.is = "applied"
<1> DEFINE h == Held(o)
           Cored(p) == Rec(p) /\ Core(p) = Core(o) /\ Fits(o, p)
           r == ReleaseSurface(o)
<1>1. Still(o, h) BY HeldIsStill
<1>2. Cored(h) /\ Cored(o) BY <1>1, StillCore, StillFits DEF Still, Fits
<1> HIDE DEF h
<1>3. ASSUME NEW p, Cored(p), NEW input, NEW clean
      PROVE  /\ Cored([p EXCEPT !.native.input = input])
             /\ Cored(Hidden(p)) /\ Cored(Destroyed(p)) /\ Cored([p EXCEPT !.released = clean])
  <2>1. ASSUME NEW q, Rec(q), Core(q) = Core(p), q.grab => p.grab, q.grab /\ p.visible => q.visible
        PROVE  Cored(q)
    BY <1>3, <2>1, CoreFits, FitsTrans
  <2> QED BY <1>3, <2>1, FieldNames DEF Rec, Core, Hidden, Destroyed
<1> HIDE DEF Cored
<1>4. \A input : Cored([h EXCEPT !.native.input = input]) BY <1>2, <1>3
<1>5. Cored(Silenced(o)) BY <1>2, <1>4 DEF Silenced, PassedThrough, h
<1>6. ASSUME NEW p, Cored(p), NEW clean PROVE Cored([Destroyed(Hidden(p)) EXCEPT !.released = clean])
  BY <1>3, <1>6
<1> DEFINE u == [h EXCEPT !.native.input = <<"all">>]
           s == Silenced(o)
           clean == BlurReleased(o) /\ {"input", "destroy"} \cap o.bad = {}
           tidy == "destroy" \notin o.bad
           f == [h EXCEPT !.released = FALSE]
           p == [Destroyed(Hidden(s)) EXCEPT !.released = clean]
           q == [Destroyed(Hidden(u)) EXCEPT !.released = tidy]
<1>7. o.bad = {} => clean /\ tidy /\ "input" \notin o.bad BY DEF BlurReleased
<1>8. Cored(f)
  <2> DEFINE no == FALSE
  <2>1. f = [h EXCEPT !.released = no] OBVIOUS
  <2> HIDE DEF no, f
  <2> QED BY <1>2, <1>3, <2>1
<1> HIDE DEF clean, tidy, s
<1>9. Cored(p) BY <1>5, <1>6 DEF s
<1>10. Cored(q) BY <1>4, <1>6
<1> HIDE DEF u, p, q, f
<1>11. \/ r = Applied(o)
       \/ r = [o |-> p, is |-> IF clean THEN "applied" ELSE "failed"]
       \/ r = Failed(f) /\ "input" \in o.bad
       \/ r = [o |-> q, is |-> IF tidy THEN "applied" ELSE "failed"]
  BY DEF ReleaseSurface, ReleaseLayer, ReleaseWindow, r, p, q, s, u, clean, tidy, f, h
<1> HIDE DEF r
<1>12. Cored(r.o) /\ (o.bad = {} => r.is = "applied")
  BY <1>2, <1>7, <1>8, <1>9, <1>10, <1>11 DEF Applied, Failed
<1> QED BY <1>12 DEF r, Cored

\* So does a promotion, which grabs nothing.
LEMMA PromoteFits ==
    ASSUME NEW o, Rec(o), NativeOK(o)
    PROVE  LET r == Promote(o) IN
           Core(r.o) = Core(o) /\ r.o.grab = o.grab /\ Fits(o, r.o)
<1> DEFINE h == Held(o)
           b == h.native.layer \/ ~o.visible
           m == [h EXCEPT !.native.layer = b]
           p == [m EXCEPT !.released = FALSE]
           w == [o EXCEPT !.released = FALSE]
           r == Promote(o)
           Cored(q) == Rec(q) /\ Core(q) = Core(o) /\ q.grab = o.grab /\ q.visible = o.visible
<1>1. Still(o, h) BY HeldIsStill
<1>2. Cored(h) /\ Cored(o) BY <1>1, StillCore DEF Still
<1> HIDE DEF h, b
<1>3. Cored(m) BY <1>2, FieldNames DEF Rec, Core
<1> HIDE DEF m
<1>4. Cored(p) /\ Cored(w) BY <1>2, <1>3, FieldNames DEF Rec, Core
<1> HIDE DEF p, w
<1>5. r \in {Rejected(o), Failed(h), Applied(p), Applied(w)}
  BY DEF Promote, LayerActivate, WindowActivate, MakeOverlay, r, h, b, m, p, w
<1> HIDE DEF r
<1>6. r.o \in {o, h, p, w} BY <1>5 DEF Rejected, Failed, Applied
<1>7. Cored(r.o) BY <1>2, <1>4, <1>6
<1>8. Fits(o, r.o) BY <1>7, CoreFits
<1> QED BY <1>7, <1>8 DEF r

\* So does releasing the surface for a rebuild, once.
LEMMA FreeFits ==
    ASSUME NEW o, Rec(o), NativeOK(o)
    PROVE  LET r == FreeForRebind(o) IN
           Core(r.o) = Core(o) /\ Fits(o, r.o)
<1> DEFINE s == ReleaseSurface(o)
           v == Succeeded(s)
           t == [s EXCEPT !.o.free = Succeeded(s)]
           q == [s.o EXCEPT !.free = v]
           r == FreeForRebind(o)
<1>1. Core(s.o) = Core(o) /\ Fits(o, s.o) /\ Result(s) /\ Rec(s.o)
  BY ReleaseFits, ReleaseDoes DEF Like
<1> HIDE DEF s
<1>2. t.o = q BY <1>1 DEF Result
<1> HIDE DEF t, v
<1>3. Core(q) = Core(s.o) /\ q.grab = s.o.grab /\ q.visible = s.o.visible
  BY <1>1, FieldNames DEF Rec, Core
<1> HIDE DEF q
<1>4. Core(q) = Core(o) /\ Fits(o, q) BY <1>1, <1>3, CoreFits, FitsTrans
<1>5. r \in {Applied(o), Unsupported(o), t} BY DEF FreeForRebind, r, s, t, v
<1> HIDE DEF r
<1>6. r.o \in {o, q} BY <1>2, <1>5 DEF Applied, Unsupported
<1>7. Fits(o, o) BY DEF Fits
<1> QED BY <1>4, <1>6, <1>7 DEF r

\* A rebuild fits.
LEMMA RebuildFits ==
    ASSUME NEW o, Rec(o), NativeOK(o), NEW output, output \in o.connected, output # NoOutput,
           ~o.shut, Layered(o), ~o.visible, ~Orphaned(o), Firm(o)
    PROVE  LET r == RebuildSurface(o, output) IN
           Frame(r.o) = Frame(o) /\ Firm(r.o)
<1> DEFINE u == [o EXCEPT !.sure = FALSE]
           v == BeginRebuild(u, output)
           e == [v EXCEPT !.height = o.content]
           b == Bound(e, output)
           t1 == Promote(b)
           t2 == MoveTo(t1.o, output, t1.o.layer)
           r2 == IF Succeeded(t1) THEN t2 ELSE t1
           t3 == ApplyInputRegion(r2.o)
           r3 == IF Succeeded(r2) THEN t3 ELSE r2
           t4 == SetBlur(r3.o)
           r4 == IF Succeeded(r3) THEN t4 ELSE r3
           z == ReleaseSurface(r4.o)
           Well(p) == Rec(p) /\ NativeOK(p) /\ Fits(b, p)
<1>1. Rec(b) /\ NativeOK(b) /\ Frame(b) = Frame(o) /\ Firm(b)
  <2> DEFINE waiting == u.placing # NoPlacement /\ u.placing.screen = output
             l == IF waiting THEN u.placing.y ELSE LayerPlace(u, output)
  <2>1. v = [u EXCEPT !.layer = l, !.keep = waiting, !.selected = output]
    BY DEF BeginRebuild
  <2>2. u.placing = o.placing /\ Numbers(u) BY FieldNames DEF Rec, Firm, Numbers
  <2>3. l \in Int BY <2>2, LayerPlaceIsNumber DEF Numbers
  <2> HIDE DEF l, waiting, v
  <2>4. b = [e EXCEPT !.screen = output] BY DEF Bound
  <2> HIDE DEF b
  <2>5. /\ Rec(b) /\ b.native = o.native /\ b.kind = o.kind /\ b.bad = o.bad
        /\ b.content = o.content /\ b.closing = o.closing /\ b.config = o.config
        /\ b.layer = l /\ b.at = o.at /\ b.height = o.content /\ b.homeMargin = o.homeMargin
        /\ b.placing = o.placing /\ b.active = o.active /\ b.grab = o.grab /\ b.visible = o.visible
    BY <2>1, <2>4, FieldNames DEF Rec
  <2>6. NativeOK(b) /\ Frame(b) = Frame(o) BY <2>5 DEF NativeOK, Frame
  <2>7. Firm(b) BY <2>3, <2>5 DEF Firm, Numbers
  <2> QED BY <2>5, <2>6, <2>7
<1>2. Mind(b) = Mind(o)
  <2> DEFINE waiting == u.placing # NoPlacement /\ u.placing.screen = output
             l == IF waiting THEN u.placing.y ELSE LayerPlace(u, output)
  <2>1. v = [u EXCEPT !.layer = l, !.keep = waiting, !.selected = output]
    BY DEF BeginRebuild
  <2> HIDE DEF l, waiting, v
  <2>2. b = [e EXCEPT !.screen = output] BY DEF Bound
  <2> HIDE DEF b
  <2> QED BY <2>1, <2>2, FieldNames DEF Rec, Mind
<1> HIDE DEF b
<1>3. ~b.shut BY <1>2, SameMind
<1>5. Well(t1.o) BY <1>1, <1>3, PromoteDoes, PromoteFits
<1> HIDE DEF t1
<1>6. Well(t2.o)
  <2>1. t1.o.layer \in Int BY <1>1, <1>5 DEF Fits, Firm, Numbers
  <2>2. Fits(t1.o, t2.o) BY <1>5, <2>1, MoveFits
  <2>3. Calm(t1.o, t2.o) BY <1>5, MoveIsCalm
  <2> QED BY <1>5, <2>2, <2>3, FitsTrans, CalmKeeps
<1> HIDE DEF t2
<1>7. Well(r2.o) BY <1>5, <1>6
<1> HIDE DEF r2
<1>8. Well(t3.o) BY <1>7, RegionIsStill, StillFits, StillKeeps, FitsTrans
<1> HIDE DEF t3
<1>9. Well(r3.o) BY <1>7, <1>8
<1> HIDE DEF r3
<1>10. Well(t4.o) BY <1>9, BlurIsStill, StillFits, StillKeeps, FitsTrans
<1> HIDE DEF t4
<1>11. Well(r4.o) BY <1>9, <1>10
<1>12. RebuildSurface(o, output) = IF Succeeded(r4) THEN r4 ELSE Undone(r4)
  <2>1. AndThen(Promote(b), LAMBDA w : MoveTo(w, output, w.layer)) = r2
    BY DEF AndThen, r2, t1, t2
  <2>2. AndThen(r2, ApplyInputRegion) = r3 BY DEF AndThen, r3, t3
  <2>3. AndThen(r3, SetBlur) = r4 BY DEF AndThen, r4, t4
  <2> QED BY <2>1, <2>2, <2>3 DEF RebuildSurface, b
<1> HIDE DEF r4
<1>14. Well(z.o) /\ Result(z)
  <2>1. Fits(r4.o, z.o) /\ Like(r4.o, z.o) /\ Result(z) BY <1>11, ReleaseFits, ReleaseDoes
  <2> QED BY <1>11, <2>1, FitsTrans DEF Like
<1>15. Undone(r4) = IF Succeeded(z) THEN [z EXCEPT !.is = r4.is] ELSE Failed(z.o)
  BY DEF Undone
<1> HIDE DEF z
<1>16. Undone(r4).o = z.o BY <1>14, <1>15 DEF Failed, Result
<1>17. RebuildSurface(o, output).o \in {r4.o, z.o} BY <1>12, <1>16
<1> QED BY <1>1, <1>11, <1>14, <1>17 DEF Fits

\* Completing a rebuild fits: the place of a drag that waited is saved for the output the
\* surface is shown on, and an activation is due that places it.
LEMMA CompleteFits ==
    ASSUME NEW o, Rec(o), NativeOK(o), o.connected \in SUBSET Outputs, NEW output, NEW dragging,
           ~o.visible, Firm(o)
    PROVE  LET p == CompleteRebind(o, output, dragging) IN
           /\ Frame(p) = Frame(o) /\ Firm(p) /\ p.grab = o.grab
           /\ p.soon \/ Ending(p)
           /\ p.config = o.config \/ p.config.screen = output
           /\ dragging => p.config = o.config
<1> DEFINE waiting == o.placing # NoPlacement /\ o.placing.screen = output
           commit == o.placing
           c == CommitPosition(o, commit)
           d == [c EXCEPT !.placing = NoPlacement]
           e == Save(d, commit)
           saved == IF ~waiting THEN o ELSE IF dragging THEN d ELSE e
           object == IF waiting THEN commit.object ELSE output
           f == [saved EXCEPT !.selected = object, !.chosen = object]
           Good(p) == /\ Rec(p) /\ NativeOK(p) /\ ~p.visible /\ Frame(p) = Frame(o) /\ Firm(p)
                      /\ p.grab = o.grab
                      /\ p.config = o.config \/ p.config.screen = output
                      /\ dragging => p.config = o.config
<1>1. Good(o) OBVIOUS
<1>2. ASSUME waiting PROVE Good(d) /\ d.config = o.config
  <2>1. commit.y \in Int /\ commit.margin \in Int BY <1>2 DEF Firm, Numbers
  <2>2. /\ Fits(o, c) /\ Rec(c) /\ c.native = o.native /\ Life(c) = Life(o)
        /\ c.config = o.config /\ c.grab = o.grab
    BY <2>1, CommitDoes
  <2> HIDE DEF c
  <2>3. c.visible = o.visible BY <2>2, SameLife
  <2>4. /\ Rec(d) /\ d.native = c.native /\ d.visible = c.visible /\ d.config = c.config
        /\ d.grab = c.grab /\ d.kind = c.kind /\ d.bad = c.bad /\ d.content = c.content
        /\ d.closing = c.closing /\ d.layer = c.layer /\ d.at = c.at /\ d.height = c.height
        /\ d.homeMargin = c.homeMargin /\ d.placing = NoPlacement /\ d.active = c.active
    BY <2>2, FieldNames DEF Rec
  <2> HIDE DEF d
  <2>5. NativeOK(d) /\ Frame(d) = Frame(c) BY <2>2, <2>4 DEF NativeOK, Frame
  <2>6. Firm(c) BY <2>2 DEF Fits
  <2>7. Firm(d) BY <2>4, <2>6 DEF Firm, Numbers
  <2> QED BY <2>2, <2>3, <2>4, <2>5, <2>7 DEF Fits
<1>3. ASSUME waiting PROVE d.connected = o.connected
  BY FieldNames DEF Rec, d, c, CommitPosition, RecordCommit
<1> HIDE DEF d
<1>4. ASSUME waiting, ~dragging PROVE Good(e)
  <2>1. commit.margin \in Int /\ commit.screen = output BY <1>4 DEF Firm, Numbers
  <2>2. Rec(d) /\ NativeOK(d) /\ Firm(d) /\ d.connected \in SUBSET Outputs
    BY <1>2, <1>3, <1>4
  <2>3. /\ Frame(e) = Frame(d) /\ Firm(e) /\ e.grab = d.grab
        /\ e.config = [d.config EXCEPT !.margin = commit.margin, !.screen = commit.screen]
    BY <2>1, <2>2, SaveDoes
  <2>4. Calm(d, e) BY <2>2, SaveIsCalm
  <2> HIDE DEF e
  <2>5. Rec(e) /\ NativeOK(e) /\ e.visible = d.visible BY <2>4, CalmKeeps, SameLife DEF Calm
  <2>6. e.config.screen = output BY <2>1, <2>2, <2>3 DEF Firm
  <2> QED BY <1>2, <1>4, <2>3, <2>5, <2>6
<1> HIDE DEF e
<1>5. Good(saved) BY <1>1, <1>2, <1>4
<1> HIDE DEF saved, object
<1>6. Good(f)
  <2>1. /\ Rec(f) /\ f.native = saved.native /\ f.visible = saved.visible
        /\ f.config = saved.config /\ f.grab = saved.grab /\ f.kind = saved.kind
        /\ f.bad = saved.bad /\ f.content = saved.content /\ f.closing = saved.closing
        /\ f.layer = saved.layer /\ f.at = saved.at /\ f.height = saved.height
        /\ f.homeMargin = saved.homeMargin /\ f.placing = saved.placing
        /\ f.active = saved.active
    BY <1>5, FieldNames DEF Rec
  <2> HIDE DEF f
  <2>2. NativeOK(f) /\ Frame(f) = Frame(saved) BY <1>5, <2>1 DEF NativeOK, Frame
  <2>3. Firm(f) BY <1>5, <2>1 DEF Firm, Numbers
  <2> QED BY <1>5, <2>1, <2>2, <2>3
<1>7. CompleteRebind(o, output, dragging) = Show(f)
  BY DEF CompleteRebind, f, saved, object, e, d, c
<1> HIDE DEF f
<1>8. /\ Fits(f, Show(f)) /\ Show(f).config = f.config /\ Show(f).grab = f.grab
      /\ Show(f).soon \/ Ending(Show(f))
  BY <1>6, ShowFits
<1> QED BY <1>6, <1>7, <1>8 DEF Fits

\* A step that fails leaves the window as it was, but for the state of the surface.
LEMMA DegradedFits ==
    ASSUME NEW r, Result(r), Rec(r.o)
    PROVE  LET d == Degraded(r) IN
           /\ Core(d.o) = Core(r.o) /\ d.o.grab = r.o.grab /\ Fits(r.o, d.o)
           /\ d.o.state = "degraded" /\ d.is = r.is
<1> DEFINE o == [r.o EXCEPT !.state = "degraded"]
           b == o.retry \/ (o.state \in {"rebinding", "degraded"} /\ o.pending # NoOutput)
           q == [o EXCEPT !.retry = b]
           n == IF Retryable(r) THEN q ELSE o
           d == [r EXCEPT !.o = n]
<1>1. Degraded(r) = d BY DEF Degraded, ScheduleRetry
<1>2. /\ Rec(o) /\ Core(o) = Core(r.o) /\ o.grab = r.o.grab /\ o.visible = r.o.visible
      /\ o.state = "degraded"
  BY FieldNames DEF Rec, Core
<1> HIDE DEF o, b
<1>3. /\ Core(q) = Core(o) /\ q.grab = o.grab /\ q.visible = o.visible /\ q.state = o.state
  BY <1>2, FieldNames DEF Rec, Core
<1> HIDE DEF q
<1>4. /\ Core(n) = Core(r.o) /\ n.grab = r.o.grab /\ n.visible = r.o.visible
      /\ n.state = "degraded"
  BY <1>2, <1>3
<1> HIDE DEF n
<1>5. d.o = n /\ d.is = r.is BY DEF Result
<1> HIDE DEF d
<1> QED BY <1>1, <1>4, <1>5, CoreFits

\* An attempt to rebuild the surface ends in a drag; when it succeeds, a place that waited
\* was saved for the output the surface is shown on, and an activation is due.
LEMMA AttemptRebuildFits ==
    ASSUME NEW o, Base(o), ~Closing(o), o.pending # NoOutput, NEW dragging, Firm(o), ~Orphaned(o)
    PROVE  LET r == AttemptRebind(o, dragging) IN
           /\ Result(r) /\ Frame(r.o) = Frame(o) /\ Firm(r.o) /\ ~r.o.grab
           /\ Succeeded(r) =>
                /\ r.o.state = "active" /\ r.o.active = o.pending /\ r.o.visible
                /\ r.o.soon \/ Ending(r.o)
                /\ r.o.config = o.config \/ r.o.config.screen = r.o.active
           /\ ~Succeeded(r) => r.o.config = o.config /\ r.o.state # "active"
           /\ dragging => r.o.config = o.config
<1> DEFINE output == o.pending
           a == FreeForRebind(o)
           b == [a.o EXCEPT !.state = "rebinding"]
           c == RebuildSurface(b, output)
           d == [c EXCEPT !.o.free = FALSE]
           e == [c.o EXCEPT !.free = FALSE]
           f == [c.o EXCEPT !.active = output, !.pending = NoOutput,
                            !.free = FALSE, !.state = "active", !.retry = FALSE]
           g == CompleteRebind(f, output, dragging)
           r == AttemptRebind(o, dragging)
           Good(w) ==
             /\ Result(w) /\ Frame(w.o) = Frame(o) /\ Firm(w.o) /\ ~w.o.grab
             /\ Succeeded(w) =>
                  /\ w.o.state = "active" /\ w.o.active = output /\ w.o.visible
                  /\ w.o.soon \/ Ending(w.o)
                  /\ w.o.config = o.config \/ w.o.config.screen = w.o.active
             /\ ~Succeeded(w) => w.o.config = o.config /\ w.o.state # "active"
             /\ dragging => w.o.config = o.config
<1>1. /\ Rec(o) /\ NativeOK(o) /\ o.connected \in SUBSET Outputs
      /\ "screen" \in DOMAIN o.config
      /\ (o.placing # NoPlacement => o.placing.object \in {o.placing.screen, Gone})
      /\ o.locked = o.passthrough
      /\ Layered(o) /\ output \in o.connected /\ ~o.shut /\ Hides(o)
  BY DEF Base, Whole, Closed, Waits, Closing
<1>2. /\ Result(a) /\ Rec(a.o) /\ NativeOK(a.o) /\ ~a.o.visible
      /\ a.o.connected = o.connected /\ a.o.shut = o.shut
      /\ a.o.locked = o.locked /\ a.o.passthrough = o.passthrough
  BY <1>1, FreeDoes
<1>3. Core(a.o) = Core(o) /\ Fits(o, a.o) BY <1>1, FreeFits
<1>4. r = IF ~Succeeded(a) THEN Degraded(a)
          ELSE IF Raises(c) THEN c
          ELSE IF ~Succeeded(c) THEN Degraded(d)
          ELSE Applied(g)
  BY DEF AttemptRebind, a, b, c, d, f, g
<1>15. output # NoOutput /\ output \in Outputs BY <1>1
<1> HIDE DEF a, output
<1>5. Frame(a.o) = Frame(o) /\ Firm(a.o) /\ ~a.o.grab /\ a.o.config = o.config
      /\ a.o.placing = o.placing
  BY <1>2, <1>3, SameCore DEF Fits, Firm
<1>6. /\ Rec(b) /\ b.native = a.o.native /\ Core(b) = Core(a.o) /\ b.grab = a.o.grab
      /\ b.visible = a.o.visible /\ b.connected = a.o.connected /\ b.shut = a.o.shut
      /\ b.locked = a.o.locked /\ b.passthrough = a.o.passthrough
  BY <1>2, FieldNames DEF Rec, Core
<1> HIDE DEF b
<1>7. /\ NativeOK(b) /\ Layered(b) /\ Frame(b) = Frame(o) /\ Firm(b) /\ ~b.grab
      /\ b.config = o.config /\ b.placing = o.placing
  BY <1>1, <1>2, <1>5, <1>6, CoreFits, SameCore, SameFrame DEF Fits, NativeOK
<1>16. ~Orphaned(b) BY <1>7 DEF Orphaned
<1>8. /\ Result(c) /\ c.is \in {"applied", "failed"} /\ Rec(c.o) /\ NativeOK(c.o) /\ Mind(c.o) = Mind(b) /\ ~c.o.visible
      /\ c.o.config = b.config
      /\ (b.locked = b.passthrough => c.o.locked = c.o.passthrough)
      /\ (c.is = "applied" => c.o.screen = output /\ Sure(c.o) /\ c.o.native # NoSurface)
  BY <1>1, <1>2, <1>6, <1>7, <1>15, <1>16, RebuildDoes
<1>9. Frame(c.o) = Frame(b) /\ Firm(c.o)
  BY <1>1, <1>2, <1>6, <1>7, <1>15, <1>16, RebuildFits
<1> HIDE DEF c
<1>10. /\ Frame(c.o) = Frame(o) /\ ~c.o.grab /\ c.o.config = o.config
       /\ c.o.connected = o.connected /\ c.o.placing = o.placing
  BY <1>2, <1>6, <1>7, <1>8, <1>9, SameMind DEF Firm
<1>17. ~Raises(c) BY <1>8 DEF Raises
<1>11. ASSUME ~Succeeded(a) PROVE Good(r)
  <2>1. r = Degraded(a) BY <1>4, <1>11
  <2>2. ~Succeeded(r) BY <1>2, <1>11, <2>1, DegradedFits DEF Succeeded
  <2>3. Result(r) BY <1>2, <2>1 DEF Degraded, Result
  <2> HIDE DEF r
  <2> QED BY <1>2, <1>5, <2>1, <2>2, <2>3, DegradedFits, SameCore DEF Fits
<1>12. ASSUME Succeeded(a), ~Succeeded(c) PROVE Good(r)
  <2>1. Result(d) /\ d.is = c.is /\ d.o = e BY <1>8 DEF Result
  <2>2. r = Degraded(d) BY <1>4, <1>12, <1>17
  <2> HIDE DEF d
  <2>3. Rec(e) /\ Core(e) = Core(c.o) /\ e.grab = c.o.grab /\ e.visible = c.o.visible
    BY <1>8, FieldNames DEF Rec, Core
  <2> HIDE DEF e, r
  <2>4. Frame(e) = Frame(o) /\ Firm(e) /\ ~e.grab /\ e.config = o.config
    BY <1>9, <1>10, <2>3, CoreFits, SameCore DEF Fits
  <2>5. ~Succeeded(r) BY <1>12, <2>1, <2>2, <2>3, DegradedFits DEF Succeeded
  <2>6. Result(r) BY <2>1, <2>2 DEF Degraded, Result
  <2> QED BY <2>1, <2>2, <2>3, <2>4, <2>5, <2>6, DegradedFits, SameCore DEF Fits
<1>13. ASSUME Succeeded(a), Succeeded(c) PROVE Good(r)
  <2>1. r = Applied(g) /\ c.is = "applied" BY <1>4, <1>13, <1>17 DEF Succeeded
  <2>2. /\ Rec(f) /\ f.native = c.o.native /\ f.kind = c.o.kind /\ f.bad = c.o.bad
        /\ f.content = c.o.content /\ f.closing = c.o.closing /\ f.config = c.o.config
        /\ f.layer = c.o.layer /\ f.at = c.o.at /\ f.height = c.o.height
        /\ f.homeMargin = c.o.homeMargin /\ f.placing = c.o.placing
        /\ f.active = output /\ f.state = "active" /\ f.grab = c.o.grab
        /\ f.visible = c.o.visible /\ f.connected = c.o.connected
        /\ f.locked = c.o.locked /\ f.passthrough = c.o.passthrough
        /\ f.sure = c.o.sure /\ f.region = c.o.region /\ f.screen = c.o.screen
    BY <1>8, FieldNames DEF Rec
  <2> HIDE DEF f, r
  <2>3. NativeOK(f) /\ Frame(f) = Frame(c.o) /\ Sure(f)
    BY <1>8, <2>1, <2>2 DEF NativeOK, Frame, Sure
  <2>4. Firm(f)
    <3>1. output # Gone BY <1>15, OutputsAssumption
    <3> QED BY <1>9, <2>2, <3>1 DEF Firm, Numbers
  <2>5. f.connected \in SUBSET Outputs /\ ~f.visible /\ "screen" \in DOMAIN f.config
        /\ output \in f.connected /\ f.locked = f.passthrough
        /\ (f.placing # NoPlacement => f.placing.object \in {f.placing.screen, Gone})
    BY <1>1, <1>2, <1>6, <1>8, <1>10, <2>2
  <2>6. /\ Frame(g) = Frame(f) /\ Firm(g) /\ g.grab = f.grab
        /\ g.soon \/ Ending(g)
        /\ g.config = f.config \/ g.config.screen = output
        /\ dragging => g.config = f.config
    BY <2>2, <2>3, <2>4, <2>5, CompleteFits
  <2>7. g.state = f.state /\ g.active = f.active /\ g.visible
    BY <1>8, <2>1, <2>2, <2>3, <2>5, CompleteDoes
  <2> HIDE DEF g
  <2> QED BY <1>10, <2>1, <2>2, <2>3, <2>6, <2>7 DEF Applied, Result, Succeeded, output
<1>14. Good(r) BY <1>11, <1>12, <1>13
<1> HIDE DEF r, Good
<1> QED BY <1>14 DEF r, output, Good

\* An attempt that raises changes nothing of the place.
LEMMA AttemptRaiseFits ==
    ASSUME NEW o, Base(o), ~Closing(o), o.pending # NoOutput, NEW dragging, Firm(o), Orphaned(o)
    PROVE  LET r == AttemptRebind(o, dragging) IN
           /\ Result(r) /\ Frame(r.o) = Frame(o) /\ Firm(r.o) /\ ~r.o.grab
           /\ ~Succeeded(r) /\ r.o.config = o.config /\ r.o.state # "active"
<1> DEFINE output == o.pending
           a == FreeForRebind(o)
           b == [a.o EXCEPT !.state = "rebinding"]
           u == [b EXCEPT !.sure = FALSE]
           c == RebuildSurface(b, output)
           r == AttemptRebind(o, dragging)
<1>1. Rec(o) /\ NativeOK(o) /\ Layered(o) /\ Hides(o) /\ output \in o.connected
  BY DEF Base, Whole, Waits
<1>2. /\ Result(a) /\ Rec(a.o) /\ NativeOK(a.o) /\ ~a.o.visible
      /\ a.o.connected = o.connected /\ a.o.placing = o.placing
  BY <1>1, FreeDoes
<1>3. Core(a.o) = Core(o) /\ Fits(o, a.o) BY <1>1, FreeFits
<1>4. ASSUME Succeeded(a), Raises(c) PROVE r = c
  BY <1>4 DEF AttemptRebind
<1>5. ASSUME ~Succeeded(a) PROVE r = Degraded(a)
  BY <1>5 DEF AttemptRebind
<1> HIDE DEF r, a
<1>6. /\ b.connected = o.connected /\ b.placing = o.placing
      /\ Core(u) = Core(a.o) /\ u.grab = a.o.grab /\ u.visible = a.o.visible
      /\ u.state = "rebinding"
  BY <1>2, FieldNames DEF Rec, Core
<1>7. Orphaned(b) BY <1>6 DEF Orphaned
<1>8. c = Raised(u) BY <1>1, <1>6, <1>7, RebuildRaises
<1> HIDE DEF b, u, c, output
<1>9. Result(c) /\ c.is = "raised" /\ c.o = u BY <1>8 DEF Raised, Result
<1>10. Fits(a.o, u) BY <1>6, CoreFits
<1>11. /\ Frame(a.o) = Frame(o) /\ Firm(a.o) /\ ~a.o.grab
       /\ Frame(u) = Frame(o) /\ Firm(u) /\ ~u.grab
       /\ a.o.config = o.config /\ u.config = o.config
  BY <1>2, <1>3, <1>6, <1>10, SameCore DEF Fits, Firm
<1>12. CASE Succeeded(a)
  BY <1>4, <1>6, <1>9, <1>11, <1>12 DEF Raises, Succeeded, r
<1>13. CASE ~Succeeded(a)
  <2> DEFINE d == Degraded(a)
  <2>1. Result(d) BY <1>2 DEF Degraded, Result
  <2>2. /\ Core(d.o) = Core(a.o) /\ d.o.grab = a.o.grab /\ Fits(a.o, d.o)
        /\ d.o.state = "degraded" /\ d.is = a.is
    BY <1>2, DegradedFits
  <2>3. r = d BY <1>5, <1>13
  <2> HIDE DEF d
  <2> QED BY <1>11, <1>13, <2>1, <2>2, <2>3, SameCore DEF Fits, Succeeded, r
<1> QED BY <1>12, <1>13

\* What a rebuild leaves of the window: the pointer is free, and either the
\* surface is shown on its output and will be placed, or nothing was saved.
Rebuilt(o, r, output, dragging) ==
    /\ Result(r) /\ Frame(r.o) = Frame(o) /\ Firm(r.o) /\ ~r.o.grab
    /\ Succeeded(r) =>
          /\ r.o.state = "active" /\ r.o.active = output /\ r.o.visible
          /\ r.o.soon \/ Ending(r.o)
          /\ r.o.config = o.config \/ r.o.config.screen = output
    /\ ~Succeeded(r) => r.o.config = o.config /\ r.o.state # "active"
    /\ dragging => r.o.config = o.config

\* Every attempt leaves that.
LEMMA AttemptFits ==
    ASSUME NEW o, Base(o), ~Closing(o), o.pending # NoOutput, NEW dragging, Firm(o)
    PROVE  Rebuilt(o, AttemptRebind(o, dragging), o.pending, dragging)
<1>1. CASE Orphaned(o) BY <1>1, AttemptRaiseFits DEF Rebuilt
<1>2. CASE ~Orphaned(o)
  <2> DEFINE r == AttemptRebind(o, dragging)
  <2>1. /\ Result(r) /\ Frame(r.o) = Frame(o) /\ Firm(r.o) /\ ~r.o.grab
        /\ Succeeded(r) =>
             /\ r.o.state = "active" /\ r.o.active = o.pending /\ r.o.visible
             /\ r.o.soon \/ Ending(r.o)
             /\ r.o.config = o.config \/ r.o.config.screen = r.o.active
        /\ ~Succeeded(r) => r.o.config = o.config /\ r.o.state # "active"
        /\ dragging => r.o.config = o.config
    BY <1>2, AttemptRebuildFits
  <2> HIDE DEF r
  <2> QED BY <2>1 DEF Rebuilt, r
<1> QED BY <1>1, <1>2

\* A rebind to another output rebuilds the surface, or does nothing.
LEMMA RebindFits ==
    ASSUME NEW o, Base(o), o.begun, NEW output, output \in o.connected, NEW dragging, Firm(o)
    PROVE  LET r == Rebind(o, output, dragging) IN
           \/ (Closing(o) \/ ~Layered(o)) /\ r.o = o /\ ~Succeeded(r) /\ Result(r)
           \/ ~Closing(o) /\ Layered(o) /\ Rebuilt(o, r, output, dragging)
<1> DEFINE i == [o EXCEPT !.pending = output, !.state = "rebinding", !.retry = FALSE]
           a == FreeForRebind(i)
           b == AttemptRebind(a.o, dragging)
           d == Degraded(a)
           r == Rebind(o, output, dragging)
<1>1. r = IF Closing(o) THEN Rejected(o)
          ELSE IF ~Layered(o) THEN Unsupported(o)
          ELSE IF Succeeded(a) THEN b ELSE d
  BY DEF Rebind, i, a, b, d
<1>2. CASE Closing(o) \/ ~Layered(o)
  <2>1. r \in {Rejected(o), Unsupported(o)} BY <1>1, <1>2
  <2> HIDE DEF r
  <2>2. r.o = o /\ ~Succeeded(r) /\ Result(r)
    BY <2>1 DEF Rejected, Unsupported, Succeeded, Result
  <2> QED BY <1>2, <2>2 DEF r
<1>3. CASE ~Closing(o) /\ Layered(o)
  <2>1. /\ Rec(i) /\ i.native = o.native /\ i.kind = o.kind
        /\ i.state = "rebinding" /\ i.active = o.active
        /\ i.pending = output /\ i.closed = o.closed
        /\ i.closing = o.closing /\ i.begun = o.begun /\ i.connected = o.connected
        /\ i.shut = o.shut /\ i.placing = o.placing /\ i.soon = o.soon
        /\ i.later = o.later /\ i.dragging = o.dragging /\ i.config = o.config
        /\ i.visible = o.visible /\ i.locked = o.locked /\ i.passthrough = o.passthrough
        /\ i.free = o.free /\ i.released = o.released
        /\ Core(i) = Core(o) /\ i.grab = o.grab
    BY FieldNames DEF Base, Whole, Rec, Core
  <2> HIDE DEF i
  <2>2. Whole(i) BY <2>1 DEF Base, Whole, NativeOK
  <2>3. Closed(i) BY <2>1, <1>3 DEF Base, Closed, Ending, Closing
  <2>4. Hides(i) /\ Waits(i) BY <2>1, <1>3 DEF Base, Hides, Waits, Layered
  <2>5. Unbegun(i) BY <2>1 DEF Unbegun
  <2>6. output # NoOutput BY OutputsAssumption DEF Base, Whole
  <2>7. /\ Result(a) /\ a.is \in {"applied", "failed"} /\ Base(a.o)
        /\ a.o.pending = output /\ a.o.state = "rebinding" /\ ~a.o.visible
    BY <2>1, <2>2, <2>3, <2>4, <2>5, FreeKeepsBase DEF Base
  <2>8. Core(a.o) = Core(i) /\ Fits(i, a.o)
    BY <2>1, <2>2, FreeFits DEF Whole
  <2> HIDE DEF a
  <2>9. Fits(o, i) BY <2>1, CoreFits
  <2>10. Frame(a.o) = Frame(o) /\ Firm(a.o) /\ ~a.o.grab /\ a.o.config = o.config
    BY <2>1, <2>7, <2>8, <2>9, SameCore DEF Fits, Firm
  <2>11. ASSUME Succeeded(a) PROVE Rebuilt(o, r, output, dragging)
    <3>1. r = b BY <1>1, <1>3, <2>11
    <3>2. /\ Result(b) /\ Frame(b.o) = Frame(a.o) /\ Firm(b.o) /\ ~b.o.grab
          /\ (Succeeded(b) =>
                /\ b.o.state = "active" /\ b.o.active = a.o.pending /\ b.o.visible
                /\ b.o.soon \/ Ending(b.o)
                /\ b.o.config = a.o.config \/ b.o.config.screen = b.o.active)
          /\ (~Succeeded(b) => b.o.config = a.o.config /\ b.o.state # "active")
          /\ (dragging => b.o.config = a.o.config)
      BY <2>6, <2>7, <2>10, AttemptFits DEF Closing, Rebuilt
    <3> HIDE DEF b, r
    <3> QED BY <2>7, <2>10, <3>1, <3>2 DEF Rebuilt
  <2>12. ASSUME ~Succeeded(a) PROVE Rebuilt(o, r, output, dragging)
    <3>1. r = d BY <1>1, <1>3, <2>12
    <3>2. Rec(a.o) BY <2>7 DEF Base, Whole
    <3>3. /\ Core(d.o) = Core(a.o) /\ d.o.grab = a.o.grab /\ Fits(a.o, d.o)
          /\ d.o.state = "degraded" /\ d.is = a.is
      BY <2>7, <3>2, DegradedFits
    <3>4. Result(d) BY <2>7 DEF Degraded, Result
    <3> HIDE DEF d, r
    <3>5. d.o.config = a.o.config BY <3>3, SameCore
    <3> QED BY <2>10, <2>12, <3>1, <3>3, <3>4, <3>5 DEF Rebuilt, Fits, Succeeded
  <2> QED BY <1>3, <2>11, <2>12
<1> HIDE DEF r
<1> QED BY <1>2, <1>3 DEF r

\* A promotion that is recorded changes only the state of the surface and its output.
LEMMA PromotedFits ==
    ASSUME NEW o, Rec(o), NativeOK(o), NEW output, output # Gone
    PROVE  LET r == Promoted(Promote(PrepareLife(o).o), output)
               p == r.o
           IN  /\ Result(r) /\ Frame(p) = Frame(o) /\ (Firm(o) => Firm(p))
               /\ p.config = o.config /\ p.chosen = o.chosen /\ p.grab = o.grab
               /\ p.layer = o.layer /\ p.at = o.at /\ p.stroke = o.stroke
               /\ p.dragging = o.dragging
               /\ ~Succeeded(r) => p.state = "degraded"
<1> DEFINE q == PrepareLife(o).o
           t == Promote(q)
           r == Promoted(t, output)
           f == [t.o EXCEPT !.state = "degraded"]
           g == [t.o EXCEPT !.free = FALSE, !.active = output, !.pending = NoOutput,
                            !.state = "active", !.retry = FALSE]
<1>1. \E s : q = o \/ q = [o EXCEPT !.state = s]
  <2>1. Prepare(o) = Applied(o) \/ Prepare(o) = Rejected(o) BY DEF Prepare
  <2> DEFINE w == Prepare(o)
             s == IF Succeeded(w) THEN "prepared" ELSE "degraded"
             v == [w EXCEPT !.o.state = s]
             n == [o EXCEPT !.state = s]
  <2>2. w = [o |-> o, is |-> w.is] BY <2>1 DEF Applied, Rejected
  <2> HIDE DEF w, s
  <2>3. v.o = n BY <2>2
  <2>4. PrepareLife(o) \in {Rejected(o), Applied(o), v} BY DEF PrepareLife, v, w, s
  <2> HIDE DEF v
  <2>5. q \in {o, n} BY <2>3, <2>4 DEF Rejected, Applied
  <2> HIDE DEF q
  <2> QED BY <2>5
<1> HIDE DEF q
<1>2. /\ Rec(q) /\ q.native = o.native /\ Core(q) = Core(o) /\ q.grab = o.grab
      /\ q.visible = o.visible
  BY <1>1, FieldNames DEF Rec, Core
<1>3. NativeOK(q) /\ Fits(o, q) BY <1>2, CoreFits DEF NativeOK
<1>4. /\ Core(t.o) = Core(q) /\ t.o.grab = q.grab /\ Fits(q, t.o)
  BY <1>2, <1>3, PromoteFits
<1>5. Result(t) /\ Rec(t.o)
  <2> DEFINE h == Held(q)
             m == MakeOverlay(q)
             x == [m EXCEPT !.released = FALSE]
             y == [q EXCEPT !.released = FALSE]
             bb == h.native.layer \/ ~q.visible
             mm == [h EXCEPT !.native.layer = bb]
  <2>1. Rec(h) BY <1>2, <1>3, HeldIsStill DEF Still
  <2>2. m = mm BY DEF MakeOverlay
  <2> HIDE DEF h, bb
  <2>3. Rec(mm) BY <2>1 DEF Rec
  <2> HIDE DEF mm, m
  <2>4. Rec(x) /\ Rec(y) BY <1>2, <2>2, <2>3 DEF Rec
  <2> HIDE DEF x, y
  <2>5. t \in {Rejected(q), Failed(h), Applied(x), Applied(y)}
    BY DEF Promote, LayerActivate, WindowActivate, h, m, x, y
  <2> HIDE DEF t
  <2> QED BY <1>2, <2>1, <2>4, <2>5 DEF Rejected, Failed, Applied, Result
<1> HIDE DEF t
<1>6. Fits(o, t.o) /\ Core(t.o) = Core(o) /\ t.o.grab = o.grab
  BY <1>2, <1>3, <1>4, FitsTrans
<1>7. CASE ~Succeeded(t)
  <2>1. Result(r) /\ r.o = f /\ r.is = t.is BY <1>5, <1>7 DEF Promoted, Result
  <2> HIDE DEF r
  <2>2. /\ Core(f) = Core(t.o) /\ f.grab = t.o.grab /\ f.visible = t.o.visible
        /\ f.state = "degraded"
    BY <1>5, FieldNames DEF Rec, Core
  <2> HIDE DEF f
  <2>3. Fits(o, f) BY <1>6, <2>2, CoreFits, FitsTrans
  <2> QED BY <1>6, <2>1, <2>2, <2>3, SameCore DEF Fits, r, t, q
<1>8. CASE Succeeded(t)
  <2>1. Result(r) /\ r.o = g /\ r.is = t.is BY <1>5, <1>8 DEF Promoted, Result
  <2> HIDE DEF r
  <2>2. /\ g.kind = t.o.kind /\ g.bad = t.o.bad /\ g.content = t.o.content
        /\ g.closing = t.o.closing /\ g.config = t.o.config /\ g.layer = t.o.layer
        /\ g.at = t.o.at /\ g.height = t.o.height /\ g.homeMargin = t.o.homeMargin
        /\ g.placing = t.o.placing /\ g.active = output /\ g.chosen = t.o.chosen
        /\ g.stroke = t.o.stroke /\ g.dragging = t.o.dragging /\ g.grab = t.o.grab
        /\ g.visible = t.o.visible
    BY <1>5, FieldNames DEF Rec
  <2> HIDE DEF g
  <2>3. Frame(g) = Frame(t.o) BY <2>2 DEF Frame
  <2>4. Firm(t.o) => Firm(g) BY <2>2 DEF Firm, Numbers
  <2>5. /\ t.o.config = o.config /\ t.o.chosen = o.chosen /\ t.o.layer = o.layer
        /\ t.o.at = o.at /\ t.o.stroke = o.stroke /\ t.o.dragging = o.dragging
    BY <1>6, SameCore
  <2>6. Succeeded(r) BY <1>8, <2>1 DEF Succeeded
  <2> QED BY <1>6, <2>1, <2>2, <2>3, <2>4, <2>5, <2>6 DEF Fits, r, t, q
<1> HIDE DEF r
<1> QED BY <1>7, <1>8 DEF r, t, q

\* A place was saved for the output that the surface is shown on.
Saved(p) ==
    /\ p.visible /\ p.state = "active" /\ p.active = p.config.screen /\ p.active # NoOutput
    /\ p.soon \/ Ending(p)

\* What an activation of the surface's life leaves of the window.
Enlivened(o, r) ==
    /\ Result(r) /\ Frame(r.o) = Frame(o) /\ Firm(r.o)
    /\ r.o.config = o.config \/ Saved(r.o)
    /\ ~Succeeded(r) /\ Layered(o) => r.o.state # "active"

\* It keeps what is firm.
LEMMA ActivateLifeFits ==
    ASSUME NEW o, NEW output, Activated(o, output), Shown(o) \/ o.state = "prepared", Firm(o)
    PROVE  Enlivened(o, ActivateLife(o, output))
<1> DEFINE a == AttemptRebind(o, FALSE)
           b == Rebind(o, output, FALSE)
           q == Promoted(Promote(PrepareLife(o).o), output)
           r == ActivateLife(o, output)
<1>1. /\ Base(o) /\ o.begun /\ ~Closing(o) /\ Rec(o) /\ NativeOK(o)
      /\ o.state \in {"prepared", "active", "rebinding", "degraded"}
      /\ output \in o.connected \cup {NoOutput} /\ NoOutput \notin o.connected
      /\ Gone \notin o.connected /\ Gone # NoOutput /\ output # Gone
      /\ (output = NoOutput => o.connected = {})
  BY OutputsAssumption
     DEF Activated, Base, Closed, Closing, Ending, Whole
<1>2. CASE o.state = "active" /\ (output = NoOutput \/ o.active \in {NoOutput, output})
  <2>1. r = Applied(o) BY <1>1, <1>2, ActivateLifeIs
  <2> HIDE DEF r
  <2> QED BY <2>1 DEF Applied, Result, Enlivened, Succeeded, r
<1>3. CASE o.state = "active" /\ output # NoOutput /\ o.active \notin {NoOutput, output}
  <2>1. r = b BY <1>1, <1>3, ActivateLifeIs
  <2>3. PICK no \in BOOLEAN : no = FALSE OBVIOUS
  <2>4. \/ (Closing(o) \/ ~Layered(o)) /\ Rebind(o, output, no).o = o
           /\ ~Succeeded(Rebind(o, output, no)) /\ Result(Rebind(o, output, no))
        \/ ~Closing(o) /\ Layered(o) /\ Rebuilt(o, Rebind(o, output, no), output, no)
    BY <1>1, <1>3, RebindFits
  <2>5. Rebind(o, output, no) = r BY <2>1, <2>3
  <2> HIDE DEF r
  <2> QED BY <1>1, <1>3, <2>4, <2>5 DEF Rebuilt, Enlivened, Saved, r
<1>4. CASE o.state = "rebinding" \/ (o.state = "degraded" /\ o.pending # NoOutput)
  <2>1. r = a BY <1>1, <1>4, ActivateLifeIs
  <2>2. CASE o.pending = NoOutput
    <3>1. a = Rejected(o) BY <2>2 DEF AttemptRebind
    <3> HIDE DEF a, r
    <3> QED BY <1>4, <2>1, <2>2, <3>1 DEF Rejected, Result, Enlivened, Succeeded, r
  <2>3. CASE o.pending # NoOutput
    <3>1. PICK no \in BOOLEAN : no = FALSE OBVIOUS
    <3>2. LET w == AttemptRebind(o, no) IN
          /\ Result(w) /\ Frame(w.o) = Frame(o) /\ Firm(w.o) /\ ~w.o.grab
          /\ Succeeded(w) =>
                /\ w.o.state = "active" /\ w.o.active = o.pending /\ w.o.visible
                /\ w.o.soon \/ Ending(w.o)
                /\ w.o.config = o.config \/ w.o.config.screen = w.o.active
          /\ ~Succeeded(w) => w.o.config = o.config /\ w.o.state # "active"
      BY <1>1, <2>3, AttemptFits DEF Rebuilt
    <3>3. AttemptRebind(o, no) = r BY <2>1, <3>1
    <3> HIDE DEF a, r
    <3> QED BY <2>3, <3>2, <3>3 DEF Enlivened, Saved, r
  <2> QED BY <2>2, <2>3
<1>5. CASE o.state = "prepared" \/ (o.state = "degraded" /\ o.pending = NoOutput)
  <2>1. r = q BY <1>1, <1>5, ActivateLifeIs
  <2>2. /\ Result(q) /\ Frame(q.o) = Frame(o) /\ Firm(q.o)
        /\ q.o.config = o.config /\ q.o.chosen = o.chosen /\ q.o.grab = o.grab
        /\ q.o.layer = o.layer /\ q.o.at = o.at /\ q.o.stroke = o.stroke
        /\ q.o.dragging = o.dragging
        /\ ~Succeeded(q) => q.o.state = "degraded"
    <3>1. Rec(o) /\ NativeOK(o) /\ output # Gone BY <1>1
    <3>2. ASSUME Firm(o) PROVE LET w == q IN
             /\ Result(w) /\ Frame(w.o) = Frame(o) /\ (Firm(o) => Firm(w.o))
             /\ w.o.config = o.config /\ w.o.chosen = o.chosen /\ w.o.grab = o.grab
             /\ w.o.layer = o.layer /\ w.o.at = o.at /\ w.o.stroke = o.stroke
             /\ w.o.dragging = o.dragging
             /\ ~Succeeded(w) => w.o.state = "degraded"
      BY <3>1, PromotedFits, Zenon
    <3> HIDE DEF q
    <3> QED BY <3>2
  <2> HIDE DEF q, r
  <2> QED BY <2>1, <2>2 DEF Enlivened, r
<1> HIDE DEF r
<1> QED BY <1>1, <1>2, <1>3, <1>4, <1>5 DEF r

\* A stroke is where the controller has the window, unless that is about to be placed.
DragsFrom(o) == Layered(o) /\ o.state = "active" /\ o.stroke => o.soon \/ o.at = o.layer

\* An active layer surface is at the place the controller has, and so is the stroke.
Placed(o) ==
    Layered(o) /\ o.state = "active" =>
        /\ o.at = o.layer
        /\ o.native # NoSurface /\ o.native.layer => o.native.y = o.layer

\* An activation of the window keeps what is firm, saves no place but that of a surface
\* it shows, and, when nothing fails, places the surface.
LEMMA ActivateFits ==
    ASSUME NEW o, Base(o), ~Ending(o), o.begun, Shown(o) \/ o.state = "prepared", Firm(o)
    PROVE  LET p == Activate(o) IN
           /\ Rec(p) /\ NativeOK(p) /\ Frame(p) = Frame(o) /\ Firm(p)
           /\ p.config = o.config \/ Saved(p)
           /\ o.bad = {} => Placed(p)
<1> DEFINE output == Target(o)
           m == Aimed(o)
           b == Bound(m, output)
           v == b.sure /\ o.state = "active"
           a == [b EXCEPT !.sure = @ /\ o.state = "active"]
           r == ActivateLife(a, output)
           q == r.o
           c == [q EXCEPT !.chosen = output]
           w == MoveTo(c, output, q.layer)
           e == Aimed(q)
           f == IF e.selected = NoOutput THEN e ELSE MoveWindow(e, e.selected, e.layer)
           t == IF Layered(o) /\ Succeeded(r) THEN w.o ELSE f
           n == ApplyInputRegion(t).o
           p == IF Raises(r) THEN q ELSE n
<1>1. /\ Rec(o) /\ NativeOK(o) /\ o.connected \in SUBSET Outputs BY InvKnows
<1>2. Still(o, m) /\ Calm(o, m) BY <1>1, AimedIsStill, AimedIsCalm
<1>3. Still(m, b) /\ Calm(m, b)
  <2>1. Rec(m) /\ NativeOK(m) BY <1>2, CalmKeeps
  <2> HIDE DEF m, output
  <2> QED BY <2>1, AimedIsStill, AimedIsCalm
<1>4. Rec(b) /\ NativeOK(b) /\ Calm(o, b) BY <1>2, <1>3, CalmTrans, CalmKeeps
<1> HIDE DEF m, b
<1>5. /\ Rec(a) /\ Life(a) = Life(b) /\ a.native = b.native /\ a.locked = b.locked
      /\ a.region = b.region /\ a.passthrough = b.passthrough
      /\ (a.sure => b.sure /\ o.state = "active")
      /\ Spot(a) = Spot(b) /\ a.at = b.at
  BY <1>4, FieldNames DEF Rec, Life, Spot
<1>6. Calm(b, a) /\ Still(b, a)
  BY <1>4, <1>5 DEF Calm, NativeKept, NativeOK, Sure, Still, SameY
<1> HIDE DEF a
<1>7. Calm(o, a) /\ Still(o, a) BY <1>2, <1>3, <1>4, <1>6, CalmTrans, StillTrans
<1>8. /\ a.state = o.state /\ a.begun = o.begun /\ a.closed = o.closed /\ a.closing = o.closing
      /\ a.connected = o.connected /\ a.pending = o.pending /\ a.visible = o.visible
      /\ a.active = o.active /\ (Layered(a) <=> Layered(o)) /\ a.dragging = o.dragging
  BY <1>7, SameLife DEF Calm, Layered
<1>9. Base(a) BY <1>7, CalmBase
<1>10. output \in o.connected \cup {NoOutput} /\ (output = NoOutput => o.connected = {})
  BY <1>1, TargetIsThere
<1> HIDE DEF output
<1>11. Activated(a, output) BY <1>5, <1>8, <1>9, <1>10 DEF Activated, Ending
<1>12. Shown(a) \/ a.state = "prepared"
  BY <1>7, <1>8, SameLife DEF Shown, Waiting, Orphaned, Calm, NativeKept, Layered
<1>13. /\ Fits(o, a) /\ a.config = o.config /\ a.grab = o.grab /\ a.at = o.at
       /\ a.layer = o.layer /\ a.stroke = o.stroke
  BY <1>7, StillFits, StillHand, SameHand
<1>14. Enlivened(a, r) BY <1>11, <1>12, <1>13, ActivateLifeFits DEF Fits
<1>15. Base(q)
  <2>1. CASE Shown(a) BY <1>11, <2>1, ActivateLifeKeeps DEF SurfaceInv
  <2>2. CASE a.state = "prepared"
    <3>1. a.pending = NoOutput BY <1>9, <2>2 DEF Base, Waits
    <3>2. Base(Promoted(Promote(PrepareLife(a).o), output).o)
      BY <1>11, <2>2, <3>1, PromotedDoes
    <3>3. r = Promoted(Promote(PrepareLife(a).o), output)
      BY <2>2, ActivateLifeIs DEF Closing
    <3> HIDE DEF r
    <3> QED BY <3>2, <3>3
  <2> QED BY <1>12, <2>1, <2>2
<1>16. Activate(o) = p
  BY DEF Activate, p, n, t, f, e, w, c, q, r, a, b, m, output
<1> HIDE DEF r
<1>17. Rec(q) /\ NativeOK(q) BY <1>15, InvKnows
<1>18. /\ Frame(q) = Frame(o) /\ Firm(q) /\ (q.config = o.config \/ Saved(q))
       /\ (~Succeeded(r) /\ Layered(o) => q.state # "active")
       /\ (Raises(r) => ~Succeeded(r))
  BY <1>8, <1>13, <1>14 DEF Enlivened, Fits, Raises, Succeeded
<1>19. (Layered(q) <=> Layered(o)) /\ q.bad = o.bad BY <1>18, SameFrame
<1>20. /\ Rec(c) /\ c.native = q.native /\ Life(c) = Life(q) /\ c.config = q.config
       /\ c.kind = q.kind /\ c.bad = q.bad /\ c.content = q.content /\ c.height = q.height
       /\ c.closing = q.closing /\ c.layer = q.layer /\ c.at = q.at /\ c.shut = q.shut
       /\ c.homeMargin = q.homeMargin /\ c.placing = q.placing /\ c.active = q.active
       /\ c.visible = q.visible /\ c.grab = q.grab /\ c.stroke = q.stroke
       /\ c.dragging = q.dragging /\ c.state = q.state
  BY <1>17, FieldNames DEF Rec, Life
<1> HIDE DEF c
<1>21. Fits(q, c) /\ NativeOK(c) /\ (Layered(c) <=> Layered(q))
  <2>1. Frame(c) = Frame(q) BY <1>20 DEF Frame
  <2>2. Firm(q) => Firm(c) BY <1>20 DEF Firm, Numbers
  <2> QED BY <1>17, <1>20, <2>1, <2>2 DEF Fits, NativeOK, Layered
<1> DEFINE Good(x) == /\ Rec(x) /\ NativeOK(x) /\ Fits(q, x) /\ Life(x) = Life(q)
                      /\ x.config = q.config /\ x.layer = q.layer
                      /\ o.bad = {} => Placed(x)
<1>22. ASSUME Layered(o), Succeeded(r) PROVE Good(w.o)
  <2>1. q.layer \in Int BY <1>18 DEF Firm, Numbers
  <2>2. /\ Rec(w.o) /\ Life(w.o) = Life(c) /\ NativeKept(c, w.o) /\ Spot(w.o) = Spot(c)
        /\ (~Layered(c) \/ w.is # "applied" => Still(c, w.o))
        /\ (Layered(c) /\ w.is = "applied" =>
              /\ w.o.at = q.layer /\ w.o.native # NoSurface
              /\ w.o.native.layer => w.o.native.y = q.layer)
        /\ (Layered(c) /\ c.bad = {} /\ ~c.shut => w.is = "applied")
    BY <1>20, <1>21, MoveDoes
  <2>3. Fits(c, w.o) BY <1>20, <1>21, <2>1, MoveFits
  <2> HIDE DEF w
  <2>4. w.o.config = c.config /\ w.o.layer = c.layer BY <2>2, SameSpot
  <2>6. ASSUME o.bad = {} PROVE Placed(w.o)
    <3>1. SUFFICES ASSUME w.o.state = "active"
                   PROVE  /\ w.o.at = w.o.layer
                          /\ w.o.native.layer => w.o.native.y = w.o.layer
      BY DEF Placed
    <3>2. ~c.shut BY <1>15, <1>20, <2>2, <3>1, SameLife DEF Base, Closed
    <3> QED BY <1>19, <1>20, <1>21, <1>22, <2>2, <2>4, <2>6, <3>2
  <2>7. Fits(q, w.o) BY <1>21, <2>3, FitsTrans
  <2>8. NativeOK(w.o) BY <2>2 DEF NativeKept
  <2> QED BY <1>20, <2>2, <2>4, <2>6, <2>7, <2>8
<1>23. ASSUME ~(Layered(o) /\ Succeeded(r)) PROVE Good(f)
  <2>1. Still(q, e) BY <1>17, AimedIsStill
  <2>2. Rec(e) /\ NativeOK(e) BY <2>1, StillKeeps
  <2> HIDE DEF e
  <2> DEFINE y == e.layer
  <2>3. Still(e, MoveWindow(e, e.selected, y)) BY <2>2, MoveWindowIsStill
  <2>4. Still(q, f) BY <2>1, <2>3, StillTrans
  <2> HIDE DEF f
  <2>5. Rec(f) /\ NativeOK(f) /\ Life(f) = Life(q) BY <2>4, StillKeeps DEF Still
  <2>6. f.config = q.config /\ f.layer = q.layer /\ Fits(q, f)
    BY <2>4, StillFits, StillHand, SameHand
  <2>7. f.state = q.state /\ (Layered(f) <=> Layered(q)) BY <2>5, SameLife DEF Layered
  <2>8. Placed(f) BY <1>18, <1>19, <1>23, <2>7 DEF Placed
  <2> QED BY <2>5, <2>6, <2>8
<1>24. Good(t) BY <1>22, <1>23
<1> HIDE DEF t, w, f
<1>25. Still(t, n) BY <1>24, RegionIsStill
<1> HIDE DEF n
<1>26. /\ Rec(n) /\ NativeOK(n) /\ Fits(t, n) /\ Life(n) = Life(t) /\ SameY(t, n)
       /\ n.config = t.config /\ n.layer = t.layer /\ n.at = t.at /\ NativeKept(t, n)
  BY <1>25, StillKeeps, StillFits, StillHand, SameHand DEF Still
<1>27. Frame(n) = Frame(o) /\ Firm(n) BY <1>18, <1>24, <1>26 DEF Fits
<1>28. Placed(t) => Placed(n)
  <2>1. n.state = t.state /\ (Layered(n) <=> Layered(t)) BY <1>26, SameLife DEF Layered
  <2> QED BY <1>26, <2>1 DEF Placed, NativeKept, SameY
<1>29. n.config = o.config \/ Saved(n)
  <2>1. Life(n) = Life(q) BY <1>24, <1>26
  <2>2. /\ n.visible = q.visible /\ n.state = q.state /\ n.active = q.active
        /\ n.soon = q.soon /\ n.closed = q.closed /\ n.closing = q.closing
    BY <2>1, SameLife
  <2> QED BY <1>18, <1>24, <1>26, <2>2 DEF Saved, Ending
<1>30. CASE Raises(r)
  <2>1. p = q BY <1>30
  <2>2. Placed(q) BY <1>18, <1>19, <1>30 DEF Placed
  <2> HIDE DEF p, q
  <2> QED BY <1>16, <1>17, <1>18, <2>1, <2>2
<1>31. CASE ~Raises(r)
  <2>1. p = n BY <1>31
  <2> HIDE DEF p
  <2> QED BY <1>16, <1>24, <1>26, <1>27, <1>28, <1>29, <2>1
<1> QED BY <1>30, <1>31

-------------------------------------------------------------------------------
(* What every event does to the place.                                     *)

\* The place of a surface the controller believes in is known.
InPlace(o) == Layered(o) /\ AsBelieved(o) => Known(o)

\* What holds between two events as long as nothing failed.
Tidy(o) == ~o.closing /\ DragsFrom(o) /\ InPlace(o)

\* A place that was saved is that of a surface which is shown on its output, there already or
\* soon.
SavedWell(p) ==
    /\ p.visible
    /\ AsBelieved(p) =>
          /\ p.active = p.config.screen /\ p.active # NoOutput
          /\ p.soon \/ Ending(p) \/ p.config.margin = EdgeMargin(p, p.native.y)

\* What a step saves, it saves well.
SavesWell(o, p) ==
    Layered(p) =>
        \/ p.config.screen = o.config.screen /\ p.config.margin = o.config.margin
        \/ SavedWell(p)

\* A proper step keeps what is firm; it keeps what is tidy when nothing fails, and saves well.
Proper(o, p) ==
    /\ Frame(p) = Frame(o) /\ Firm(p)
    /\ o.bad = {} /\ Tidy(o) => Tidy(p)
    /\ SavesWell(o, p)

\* A place that is saved for the output the surface is shown on is saved well.
LEMMA SavedIsWell == ASSUME NEW p, Saved(p) PROVE SavedWell(p)
BY DEF Saved, SavedWell

\* A surface that is placed is in its place.
LEMMA PlacedIsKnown == ASSUME NEW p, Placed(p) PROVE InPlace(p) /\ DragsFrom(p)
BY DEF Placed, InPlace, DragsFrom, AsBelieved, Known

\* A window is tidy when its surface is not active, or will be placed.
LEMMA FreeIsTidy ==
    ASSUME NEW p, Closed(p), ~p.closing, p.soon \/ Ending(p) \/ p.state # "active"
    PROVE  Tidy(p)
BY DEF Closed, Tidy, DragsFrom, InPlace, AsBelieved, Known, Ending

\* What leaves everything as it is leaves what was tidy, and what was saved well.
LEMMA StillIsTidy ==
    ASSUME NEW o, NEW p, Still(o, p)
    PROVE  /\ Tidy(o) => Tidy(p)
           /\ Layered(o) /\ SavedWell(o) => SavedWell(p)
           /\ Placed(o) => Placed(p)
           /\ DragsFrom(o) => DragsFrom(p)
           /\ InPlace(o) => InPlace(p)
<1>1. /\ p.content = o.content /\ p.height = o.height /\ p.layer = o.layer
      /\ p.config = o.config /\ p.chosen = o.chosen /\ p.stroke = o.stroke
      /\ p.grab = o.grab /\ p.at = o.at
  BY SameSpot DEF Still
<1>2. /\ p.state = o.state /\ p.active = o.active /\ p.closed = o.closed
      /\ p.closing = o.closing /\ p.soon = o.soon /\ p.visible = o.visible
      /\ p.dragging = o.dragging /\ (Layered(p) <=> Layered(o))
  BY SameLife DEF Still, Layered
<1>3. p.native # NoSurface /\ p.native.layer =>
        /\ o.native # NoSurface /\ o.native.layer
        /\ Layered(o) => p.native.y = o.native.y /\ p.native.output = o.native.output
  BY DEF Still, NativeKept, SameY
<1>4. DragsFrom(o) => DragsFrom(p) BY <1>1, <1>2 DEF DragsFrom
<1>5. InPlace(o) => InPlace(p) BY <1>1, <1>2, <1>3 DEF InPlace, AsBelieved, Known
<1>6. Placed(o) => Placed(p) BY <1>1, <1>2, <1>3 DEF Placed
<1>7. Tidy(o) => Tidy(p) BY <1>2, <1>4, <1>5 DEF Tidy
<1>8. \A y : EdgeMargin(p, y) = EdgeMargin(o, y) BY <1>1 DEF EdgeMargin
<1>9. Layered(o) /\ SavedWell(o) => SavedWell(p)
  BY <1>1, <1>2, <1>3, <1>8 DEF SavedWell, AsBelieved, Ending
<1> QED BY <1>4, <1>5, <1>6, <1>7, <1>9

\* It is proper.
LEMMA StillIsProper ==
    ASSUME NEW o, NEW p, Still(o, p), Firm(o)
    PROVE  Proper(o, p)
BY StillFits, StillIsTidy DEF Proper, Fits, SavesWell

\* What is proper after it is proper.
LEMMA ProperAfterStill ==
    ASSUME NEW o, NEW a, NEW p, Still(o, a), Firm(a) => Proper(a, p), Firm(o)
    PROVE  Proper(o, p)
<1>1. Firm(a) /\ Frame(a) = Frame(o) /\ a.config = o.config BY StillFits DEF Fits
<1>2. a.bad = o.bad /\ (Layered(a) <=> Layered(o)) BY <1>1, SameFrame
<1>3. Tidy(o) => Tidy(a) BY StillIsTidy
<1> QED BY <1>1, <1>2, <1>3 DEF Proper, SavesWell

\* And so is it after what is proper.
LEMMA StillAfterProper ==
    ASSUME NEW o, NEW p, NEW q, Proper(o, p), Still(p, q)
    PROVE  Proper(o, q)
<1>1. Fits(p, q) /\ q.config = p.config BY StillFits
<1>2. Frame(q) = Frame(o) /\ Firm(q) /\ (Layered(q) <=> Layered(p))
  BY <1>1, SameFrame DEF Proper, Fits
<1>3. o.bad = {} /\ Tidy(o) => Tidy(q) BY StillIsTidy DEF Proper
<1>4. SavesWell(o, q) BY <1>1, <1>2, StillIsTidy DEF Proper, SavesWell
<1> QED BY <1>2, <1>3, <1>4 DEF Proper

\* An activation is proper.
LEMMA ActivateIsProper ==
    ASSUME NEW o, SurfaceInv(o), o.begun, Firm(o)
    PROVE  LET p == Activate(o) IN
           /\ Frame(p) = Frame(o) /\ Firm(p) /\ SavesWell(o, p)
           /\ ~Ending(o) /\ o.bad = {} => InPlace(p) /\ DragsFrom(p)
<1>1. CASE Ending(o)
  <2>1. Activate(o) = o BY <1>1 DEF Activate
  <2> QED BY <1>1, <2>1 DEF SavesWell
<1>2. CASE ~Ending(o)
  <2> DEFINE p == Activate(o)
  <2>1. /\ Rec(p) /\ NativeOK(p) /\ Frame(p) = Frame(o) /\ Firm(p)
        /\ p.config = o.config \/ Saved(p)
        /\ o.bad = {} => Placed(p)
    BY <1>2, ActivateFits DEF SurfaceInv
  <2> HIDE DEF p
  <2>2. SavesWell(o, p) BY <2>1, SavedIsWell DEF SavesWell
  <2> QED BY <2>1, <2>2, PlacedIsKnown DEF p
<1> QED BY <1>1, <1>2

\* The start of the application: what is shown is placed once more.
LEMMA BeginIsProper ==
    ASSUME NEW o, SurfaceInv(o), ~o.begun, Firm(o)
    PROVE  Proper(o, Show(Activate([o EXCEPT !.begun = TRUE])))
<1> DEFINE b == [o EXCEPT !.begun = TRUE]
           p == Activate(b)
           s == Show(p)
<1>1. Rec(o) /\ Base(o) BY DEF SurfaceInv, Base, Whole
<1>2. /\ Rec(b) /\ b.native = o.native /\ b.sure = o.sure /\ b.region = o.region
      /\ b.locked = o.locked /\ b.passthrough = o.passthrough
      /\ b.kind = o.kind /\ b.state = o.state /\ b.active = o.active
      /\ b.pending = o.pending /\ b.free = o.free /\ b.retry = o.retry
      /\ b.closed = o.closed /\ b.closing = o.closing /\ b.begun
      /\ b.connected = o.connected /\ b.shut = o.shut /\ b.placing = o.placing
      /\ b.visible = o.visible /\ b.released = o.released /\ b.config = o.config
      /\ b.soon = o.soon /\ b.later = o.later /\ b.dragging = o.dragging
      /\ Core(b) = Core(o) /\ b.grab = o.grab
  BY <1>1, FieldNames DEF Rec, Core
<1> HIDE DEF b
<1>3. Whole(b) BY <1>1, <1>2 DEF Base, Whole, NativeOK, Sure
<1>4. Closed(b) /\ ~Ending(b) BY <1>1, <1>2 DEF Base, Closed, Unbegun, Ending
<1>5. Hides(b) /\ Waits(b) /\ Unbegun(b) BY <1>1, <1>2 DEF Base, Hides, Waits, Unbegun, Layered
<1>6. Base(b) /\ b.state = "prepared" /\ ~b.visible /\ ~b.dragging
  BY <1>1, <1>2, <1>3, <1>4, <1>5 DEF Base, Unbegun
<1>7. Fits(o, b) BY <1>2, CoreFits
<1>8. Frame(b) = Frame(o) /\ Firm(b) /\ b.bad = o.bad BY <1>7, SameFrame DEF Fits
<1>9. /\ Rec(p) /\ NativeOK(p) /\ Frame(p) = Frame(b) /\ Firm(p)
      /\ (p.config = b.config \/ Saved(p))
      /\ (b.bad = {} => Placed(p))
  BY <1>2, <1>4, <1>6, <1>8, ActivateFits
<1>10. SurfaceInv(s) BY BeginKeeps DEF s, p, b
<1> HIDE DEF p
<1>11. /\ Fits(p, s) /\ s.config = p.config /\ s.grab = p.grab
       /\ (p.visible => s = p)
       /\ (~p.visible => s.soon \/ Ending(s))
  BY <1>9, ShowFits
<1> HIDE DEF s
<1>12. Frame(s) = Frame(o) /\ Firm(s) BY <1>8, <1>9, <1>11 DEF Fits
<1>13. SavesWell(o, s)
  BY <1>2, <1>9, <1>11, SavedIsWell DEF SavesWell, Saved
<1>14. ASSUME o.bad = {}, Tidy(o) PROVE Tidy(s)
  <2>1. ~s.closing BY <1>12, <1>14, SameFrame DEF Tidy
  <2>2. CASE p.visible
    BY <1>8, <1>9, <1>11, <1>14, <2>1, <2>2, PlacedIsKnown DEF Tidy
  <2>3. CASE ~p.visible
    BY <1>10, <1>11, <2>1, <2>3, FreeIsTidy DEF SurfaceInv, Base
  <2> QED BY <2>2, <2>3
<1> QED BY <1>12, <1>13, <1>14 DEF Proper, s, p, b

\* What is dragged and where it is known to be depends on no more than this.
LEMMA SameIsTidy ==
    ASSUME NEW o, NEW p, p.kind = o.kind, p.native = o.native, p.closing = o.closing,
           p.stroke = o.stroke, p.at = o.at, p.layer = o.layer, p.height = o.height,
           p.state = o.state, p.chosen = o.chosen, p.active = o.active, p.soon = o.soon,
           p.config.top = o.config.top, Tidy(o)
    PROVE  Tidy(p)
BY DEF Tidy, DragsFrom, InPlace, AsBelieved, Known, Layered

\* The timers of the activation place the surface once more.
LEMMA TimersAreProper ==
    ASSUME NEW o, SurfaceInv(o), o.begun, ~Ending(o), Firm(o)
    PROVE  /\ Proper(o, Activate([o EXCEPT !.soon = FALSE]))
           /\ Proper(o, Activate([o EXCEPT !.later = FALSE]))
<1>1. Rec(o) /\ Base(o) BY InvKnows DEF SurfaceInv
<1>2. ASSUME NEW p, SurfaceInv(p), p.begun, Core(p) = Core(o), p.grab = o.grab,
             p.visible = o.visible, p.closed = o.closed, p.native = o.native, p.state = o.state
      PROVE  Proper(o, Activate(p))
  <2> DEFINE q == Activate(p)
  <2>1. Fits(o, p) /\ p.config = o.config BY <1>2, CoreFits, SameCore
  <2>2. Frame(p) = Frame(o) /\ Firm(p) /\ p.bad = o.bad /\ ~Ending(p)
    BY <1>2, <2>1, SameFrame DEF Fits, Ending
  <2>3. /\ Frame(q) = Frame(p) /\ Firm(q) /\ SavesWell(p, q)
        /\ (p.bad = {} => InPlace(q) /\ DragsFrom(q))
    BY <1>2, <2>2, ActivateIsProper
  <2> HIDE DEF q
  <2>5. q.closing = o.closing BY <2>2, <2>3, SameFrame
  <2>6. o.bad = {} /\ Tidy(o) => Tidy(q) BY <2>2, <2>3, <2>5 DEF Tidy
  <2>7. SavesWell(o, q) BY <2>1, <2>3 DEF SavesWell
  <2> QED BY <2>2, <2>3, <2>6, <2>7 DEF Proper, q
<1> DEFINE p == [o EXCEPT !.soon = FALSE]
           q == [o EXCEPT !.later = FALSE]
<1>3. /\ Rec(p) /\ p.native = o.native /\ p.sure = o.sure /\ p.region = o.region
      /\ p.locked = o.locked /\ p.passthrough = o.passthrough
      /\ p.kind = o.kind /\ p.state = o.state /\ p.active = o.active
      /\ p.pending = o.pending /\ p.free = o.free /\ p.retry = o.retry
      /\ p.closed = o.closed /\ p.closing = o.closing /\ p.begun = o.begun
      /\ p.connected = o.connected /\ p.shut = o.shut /\ p.placing = o.placing
      /\ p.visible = o.visible /\ p.released = o.released /\ p.config = o.config
      /\ ~p.soon /\ p.later = o.later /\ p.dragging = o.dragging
      /\ Core(p) = Core(o) /\ p.grab = o.grab
  BY <1>1, FieldNames DEF Rec, Core
<1>4. /\ Rec(q) /\ q.native = o.native /\ q.sure = o.sure /\ q.region = o.region
      /\ q.locked = o.locked /\ q.passthrough = o.passthrough
      /\ q.kind = o.kind /\ q.state = o.state /\ q.active = o.active
      /\ q.pending = o.pending /\ q.free = o.free /\ q.retry = o.retry
      /\ q.closed = o.closed /\ q.closing = o.closing /\ q.begun = o.begun
      /\ q.connected = o.connected /\ q.shut = o.shut /\ q.placing = o.placing
      /\ q.visible = o.visible /\ q.released = o.released /\ q.config = o.config
      /\ q.soon = o.soon /\ ~q.later /\ q.dragging = o.dragging
      /\ Core(q) = Core(o) /\ q.grab = o.grab
  BY <1>1, FieldNames DEF Rec, Core
<1> HIDE DEF p, q
<1>5. /\ p.pending # NoOutput => Waiting(p)
      /\ q.pending # NoOutput => Waiting(q)
      /\ o.placing # NoPlacement => o.placing.object \in {o.placing.screen, Gone}
  BY <1>1, <1>3, <1>4, InvKnows DEF SurfaceInv, Shown, Waiting, Orphaned
<1>6. SurfaceInv(p) BY <1>3, <1>5, DisarmedKeeps
<1>7. SurfaceInv(q) BY <1>4, <1>5, DisarmedKeeps
<1>8. Proper(o, Activate(p)) BY <1>2, <1>3, <1>6
<1>9. Proper(o, Activate(q)) BY <1>2, <1>4, <1>7
<1> QED BY <1>8, <1>9 DEF p, q

\* A rebuild that is retried saves a place for the output the surface is shown on.
LEMMA RetryIsProper ==
    ASSUME NEW o, SurfaceInv(o), Firm(o)
    PROVE  Proper(o, IF Closing(o) THEN [o EXCEPT !.retry = FALSE]
                     ELSE AttemptRebind([o EXCEPT !.retry = FALSE], FALSE).o)
<1> DEFINE p == [o EXCEPT !.retry = FALSE]
<1>1. Rec(o) /\ Base(o) BY InvKnows DEF SurfaceInv
<1>2. /\ Rec(p) /\ p.native = o.native /\ p.sure = o.sure /\ p.region = o.region
      /\ p.locked = o.locked /\ p.passthrough = o.passthrough
      /\ p.kind = o.kind /\ p.state = o.state /\ p.active = o.active
      /\ p.pending = o.pending /\ p.free = o.free /\ ~p.retry
      /\ p.closed = o.closed /\ p.closing = o.closing /\ p.begun = o.begun
      /\ p.connected = o.connected /\ p.shut = o.shut /\ p.placing = o.placing
      /\ p.visible = o.visible /\ p.released = o.released /\ p.config = o.config
      /\ p.soon = o.soon /\ p.later = o.later /\ p.dragging = o.dragging
      /\ Core(p) = Core(o) /\ p.grab = o.grab
  BY <1>1, FieldNames DEF Rec, Core
<1> HIDE DEF p
<1>3. /\ o.placing # NoPlacement => o.placing.object \in {o.placing.screen, Gone}
      /\ o.dragging => o.begun
  BY <1>1, InvKnows
<1>4. Base(p) BY <1>1, <1>2, <1>3, DisarmedKeeps
<1>5. Frame(p) = Frame(o) /\ Firm(p) BY <1>2, CoreFits DEF Fits
<1>6. Tidy(o) => Tidy(p) BY <1>2, SameCore, SameIsTidy
<1>7. Proper(o, p) BY <1>2, <1>5, <1>6 DEF Proper, SavesWell
<1>8. CASE Closing(o) BY <1>7, <1>8 DEF p
<1>9. CASE ~Closing(o)
  <2>1. ~Closing(p) BY <1>2, <1>9 DEF Closing
  <2>2. PICK dragging \in BOOLEAN : dragging = FALSE OBVIOUS
  <2> DEFINE r == AttemptRebind(p, dragging)
  <2>3. CASE p.pending = NoOutput
    <3>1. r = Rejected(p) BY <2>3 DEF AttemptRebind
    <3>2. Proper(o, r.o) BY <1>7, <3>1 DEF Rejected
    <3> QED BY <1>9, <2>2, <3>2 DEF p
  <2>4. CASE p.pending # NoOutput
    <3>1. SurfaceInv(r.o) BY <1>4, <2>1, <2>4, AttemptDoes
    <3>2. /\ Result(r) /\ Frame(r.o) = Frame(p) /\ Firm(r.o) /\ ~r.o.grab
          /\ (Succeeded(r) =>
                /\ r.o.state = "active" /\ r.o.active = p.pending /\ r.o.visible
                /\ r.o.soon \/ Ending(r.o)
                /\ r.o.config = p.config \/ r.o.config.screen = r.o.active)
          /\ (~Succeeded(r) => r.o.config = p.config /\ r.o.state # "active")
      BY <1>4, <1>5, <2>1, <2>4, AttemptFits DEF Rebuilt
    <3> HIDE DEF r
    <3>3. SavesWell(o, r.o)
      <4>1. r.o.config = o.config \/ Saved(r.o) BY <1>2, <2>4, <3>2 DEF Saved
      <4> QED BY <4>1, SavedIsWell DEF SavesWell
    <3>4. ASSUME Tidy(o) PROVE Tidy(r.o)
      <4>1. ~r.o.closing BY <1>5, <3>2, <3>4, SameFrame DEF Tidy
      <4>2. r.o.soon \/ Ending(r.o) \/ r.o.state # "active" BY <3>2
      <4> QED BY <3>1, <3>2, <4>1, <4>2, FreeIsTidy DEF SurfaceInv, Base
    <3>5. Proper(o, r.o) BY <1>5, <3>2, <3>3, <3>4 DEF Proper
    <3> QED BY <1>9, <2>2, <3>5 DEF p, r
  <2> QED BY <2>3, <2>4
<1> QED BY <1>8, <1>9

\* A window with another configuration of the same fields fits, when its margin is a number.
LEMMA ConfigFits ==
    ASSUME NEW o, Rec(o), NEW c, DOMAIN c = DOMAIN o.config, Firm(o) => c.margin \in Int
    PROVE  LET p == [o EXCEPT !.config = c] IN
           /\ Rec(p) /\ Life(p) = Life(o) /\ p.native = o.native /\ p.config = c
           /\ Fits(o, p) /\ p.grab = o.grab /\ p.bad = o.bad /\ p.closing = o.closing
           /\ c.top = o.config.top /\ Tidy(o) => Tidy(p)
           /\ /\ c.top = o.config.top /\ c.margin = o.config.margin
              /\ c.screen = o.config.screen /\ SavedWell(o)
              => SavedWell(p)
<1> DEFINE p == [o EXCEPT !.config = c]
<1>1. /\ Rec(p) /\ Life(p) = Life(o) /\ p.native = o.native /\ p.config = c
      /\ p.kind = o.kind /\ p.bad = o.bad /\ p.content = o.content /\ p.closing = o.closing
      /\ p.layer = o.layer /\ p.at = o.at /\ p.height = o.height
      /\ p.homeMargin = o.homeMargin /\ p.placing = o.placing /\ p.active = o.active
      /\ p.grab = o.grab /\ p.visible = o.visible /\ p.stroke = o.stroke
      /\ p.dragging = o.dragging /\ p.state = o.state /\ p.chosen = o.chosen /\ p.soon = o.soon
  BY FieldNames DEF Rec, Life
<1> HIDE DEF p
<1>2. Frame(p) = Frame(o) BY <1>1 DEF Frame
<1>3. Firm(o) => Firm(p) BY <1>1 DEF Firm, Numbers
<1>4. c.top = o.config.top /\ Tidy(o) => Tidy(p) BY <1>1, SameIsTidy
<1>5. ASSUME c.top = o.config.top, c.margin = o.config.margin, c.screen = o.config.screen, SavedWell(o)
      PROVE  SavedWell(p)
  <2>1. p.closed = o.closed BY <1>1, SameLife
  <2>2. \A y : EdgeMargin(p, y) = EdgeMargin(o, y) BY <1>1, <1>5 DEF EdgeMargin
  <2> QED BY <1>1, <1>5, <2>1, <2>2 DEF SavedWell, AsBelieved, Ending
<1> QED BY <1>1, <1>2, <1>3, <1>4, <1>5 DEF Fits, p

\* The lock is no part of the place.
LEMMA ToggleIsProper ==
    ASSUME NEW o, SurfaceInv(o), Firm(o)
    PROVE  /\ \A locked : Still(o, SetPassthrough(o, locked))
           /\ Proper(o, Toggle(o))
           /\ Toggle(o).config.screen = o.config.screen
           /\ Toggle(o).config.margin = o.config.margin
           /\ Layered(o) /\ SavedWell(o) => SavedWell(Toggle(o))
<1>1. Rec(o) /\ NativeOK(o) BY InvKnows DEF SurfaceInv
<1>2. ASSUME NEW locked
      PROVE  Still(o, SetPassthrough(o, locked))
  <2> DEFINE p == [o EXCEPT !.passthrough = locked]
             m == SetInputMode(p, locked).o
             yes == TRUE
             i == [m EXCEPT !.inputDue = yes]
  <2>1. Still(o, p) BY <1>1, EditsAreStill
  <2>2. Rec(p) /\ NativeOK(p) BY <2>1, StillKeeps
  <2> HIDE DEF p
  <2>3. Still(p, m) BY <2>2, ModeIsStill
  <2>4. Rec(m) /\ NativeOK(m) BY <2>3, StillKeeps
  <2>5. SetPassthrough(o, locked) = IF Ending(o) THEN o ELSE i BY DEF SetPassthrough, i, m, p
  <2> HIDE DEF m, yes
  <2>6. Still(m, i) BY <2>4, EditsAreStill
  <2>7. Still(o, i) BY <2>1, <2>3, <2>6, StillTrans
  <2>8. Still(o, o) BY <1>1, StillRefl
  <2> HIDE DEF i
  <2> QED BY <2>5, <2>7, <2>8
<1> DEFINE w == SetPassthrough(o, ~o.config.passthrough)
           v == ~w.config.passthrough
           t == [w EXCEPT !.config.passthrough = ~@]
           c == [w.config EXCEPT !.passthrough = v]
           n == [w EXCEPT !.config = c]
<1>3. Still(o, w) BY <1>2
<1> HIDE DEF w
<1>4. Rec(w) /\ NativeOK(w) /\ Firm(w) BY <1>3, StillKeeps, StillFits DEF Fits
<1>5. t = n BY <1>4, FieldNames DEF Rec
<1> HIDE DEF t
<1>6. /\ DOMAIN c = DOMAIN w.config /\ c.margin = w.config.margin /\ c.top = w.config.top
      /\ c.screen = w.config.screen
  <2> HIDE DEF v
  <2> QED OBVIOUS
<1> HIDE DEF c
<1>7. Fits(w, n) /\ n.config = c /\ (Tidy(w) => Tidy(n)) /\ (SavedWell(w) => SavedWell(n))
  BY <1>4, <1>6, ConfigFits DEF Firm, Numbers
<1> HIDE DEF n
<1>8. Proper(w, n) BY <1>4, <1>6, <1>7 DEF Proper, Fits, SavesWell
<1>9. Proper(o, n) BY <1>3, <1>8, ProperAfterStill
<1>10. Toggle(o) = n BY <1>5 DEF Toggle, t, w
<1>11. w.config = o.config /\ (Layered(o) /\ SavedWell(o) => SavedWell(w))
  BY <1>3, StillFits, StillIsTidy
<1> QED BY <1>2, <1>6, <1>7, <1>9, <1>10, <1>11

\* A frame with a new height moves nothing.
LEMMA FrameIsProper ==
    ASSUME NEW o, SurfaceInv(o), Firm(o), NEW h \in Nat
    PROVE  LET p == OnFrame(o, h) IN Firm(p) /\ (Tidy(o) => Tidy(p)) /\ p.config = o.config
<1> DEFINE w == o.resize \/ h # o.height
           p == [o EXCEPT !.content = h, !.inputDue = TRUE, !.resize = w]
<1>1. Rec(o) BY InvKnows DEF SurfaceInv
<1>2. OnFrame(o, h) = IF Ending(o) THEN o ELSE p BY <1>1, FieldNames DEF OnFrame, Rec
<1> HIDE DEF w
<1>3. /\ p.native = o.native /\ p.config = o.config /\ p.content = h
      /\ p.kind = o.kind /\ p.closing = o.closing
      /\ p.layer = o.layer /\ p.at = o.at /\ p.height = o.height
      /\ p.homeMargin = o.homeMargin /\ p.placing = o.placing /\ p.active = o.active
      /\ p.grab = o.grab /\ p.visible = o.visible /\ p.stroke = o.stroke
      /\ p.dragging = o.dragging /\ p.state = o.state /\ p.chosen = o.chosen /\ p.soon = o.soon
  BY <1>1, FieldNames DEF Rec
<1> HIDE DEF p
<1>4. Firm(p) BY <1>3 DEF Firm, Numbers
<1>5. Tidy(o) => Tidy(p) BY <1>3, SameIsTidy
<1> QED BY <1>2, <1>3, <1>4, <1>5

\* The input region is no part of the place either.
LEMMA InputIsProper ==
    ASSUME NEW o, SurfaceInv(o), Firm(o)
    PROVE  Proper(o, IF Ending(o) THEN [o EXCEPT !.inputDue = FALSE]
                     ELSE SetInputMode([o EXCEPT !.inputDue = FALSE], o.passthrough).o)
<1> DEFINE no == FALSE
           p == [o EXCEPT !.inputDue = no]
           m == SetInputMode(p, o.passthrough).o
<1>1. Rec(o) /\ NativeOK(o) BY InvKnows DEF SurfaceInv
<1> HIDE DEF no
<1>2. Still(o, p) BY <1>1, EditsAreStill
<1>3. Rec(p) /\ NativeOK(p) BY <1>2, StillKeeps
<1> HIDE DEF p
<1>4. Still(p, m) BY <1>3, ModeIsStill
<1> HIDE DEF m
<1>5. Proper(o, p) /\ Proper(o, m) BY <1>2, <1>4, StillTrans, StillIsProper
<1> QED BY <1>5 DEF m, p, no

\* Settings that are applied place the surface.
LEMMA SettingsAreProper ==
    ASSUME NEW o, SurfaceInv(o), o.begun, Firm(o), ~o.grab, o.bad = {}, NEW top, NEW margin \in Int
    PROVE  LET p == Activate(ApplyConfig([o EXCEPT !.config.top = top, !.config.margin = margin])) IN
           Firm(p) /\ Frame(p) = Frame(o) /\ (Tidy(o) => Tidy(p))
<1> DEFINE c == [o.config EXCEPT !.top = top, !.margin = margin]
           p == [o EXCEPT !.config = c]
           q == ApplyConfig(p)
           w == Activate(q)
<1>1. Rec(o) /\ NativeOK(o) BY InvKnows DEF SurfaceInv
<1>2. DOMAIN c = DOMAIN o.config /\ c.margin = margin BY DEF Firm
<1>3. [o EXCEPT !.config.top = top, !.config.margin = margin] = p
  BY <1>1, FieldNames DEF Rec
<1> HIDE DEF c
<1>4. /\ Rec(p) /\ Life(p) = Life(o) /\ p.native = o.native
      /\ p.locked = o.locked /\ p.passthrough = o.passthrough
      /\ p.sure = o.sure /\ p.region = o.region /\ p.grab = o.grab
      /\ Fits(o, p)
  BY <1>1, <1>2, ConfigFits, FieldNames DEF Rec
<1> HIDE DEF p
<1>5. Calm(o, p) BY <1>1, <1>4, QuietIsCalm
<1>6. SurfaceInv(p) /\ p.begun BY <1>5, CalmInv, SameLife DEF Calm
<1>7. Calm(p, q) /\ Rec(p) /\ NativeOK(p) BY <1>6, ConfigIsCalm, InvKnows DEF SurfaceInv
<1>8. SurfaceInv(q) /\ q.begun BY <1>6, <1>7, CalmInv, SameLife DEF Calm
<1>9. Fits(p, q) /\ Hand(q) = Hand(p) BY <1>7, ConfigDoes
<1> HIDE DEF q
<1>10. Frame(q) = Frame(o) /\ Firm(q) /\ ~q.grab /\ q.bad = {} /\ q.closing = o.closing
  BY <1>4, <1>9, SameHand, SameFrame DEF Fits
<1>11. /\ Frame(w) = Frame(q) /\ Firm(w)
       /\ (~Ending(q) => InPlace(w) /\ DragsFrom(w))
  BY <1>8, <1>10, ActivateIsProper
<1>12. SurfaceInv(w) BY <1>8, ActivateKeeps
<1>13. ASSUME Tidy(o) PROVE Tidy(w)
  <2>1. ~w.closing /\ ~q.closing BY <1>10, <1>11, <1>13, SameFrame DEF Tidy
  <2>3. CASE ~Ending(q) BY <1>11, <2>1, <2>3 DEF Tidy
  <2>4. CASE Ending(q)
    <3>1. w = q BY <2>4 DEF Activate, w
    <3> HIDE DEF w
    <3> QED BY <1>8, <2>1, <2>4, <3>1, FreeIsTidy DEF SurfaceInv, Base, w
  <2> QED BY <2>3, <2>4
<1> HIDE DEF w
<1> QED BY <1>3, <1>10, <1>11, <1>13 DEF w, q

\* A press starts a stroke from where the controller has the window, and moves nothing.
LEMMA PressIsProper ==
    ASSUME NEW o, SurfaceInv(o), Firm(o), o.visible
    PROVE  Proper(o, Press(o))
<1> DEFINE s == [o EXCEPT !.stroke = TRUE, !.at = o.layer]
           b == BeginDrag(o)
           p == [b EXCEPT !.dragging = TRUE, !.moved = FALSE, !.applied = TRUE, !.grab = TRUE]
<1>1. Rec(o) BY InvKnows DEF SurfaceInv
<1>2. /\ Rec(s) /\ s.native = o.native /\ s.config = o.config /\ s.content = o.content
      /\ s.kind = o.kind /\ s.bad = o.bad /\ s.closing = o.closing
      /\ s.layer = o.layer /\ s.at = o.layer /\ s.height = o.height
      /\ s.homeMargin = o.homeMargin /\ s.placing = o.placing /\ s.active = o.active
      /\ s.visible = o.visible /\ s.state = o.state /\ s.chosen = o.chosen /\ s.soon = o.soon
  BY <1>1, FieldNames DEF Rec
<1>3. b = o \/ b = s BY DEF BeginDrag, BeginNiriDrag, BeginLayerDrag, BeginWindowDrag
<1> HIDE DEF s
<1>4. /\ Rec(b) /\ b.native = o.native /\ b.config = o.config /\ b.content = o.content
      /\ b.kind = o.kind /\ b.bad = o.bad /\ b.closing = o.closing
      /\ b.layer = o.layer /\ b.height = o.height
      /\ b.homeMargin = o.homeMargin /\ b.placing = o.placing /\ b.active = o.active
      /\ b.visible = o.visible /\ b.state = o.state /\ b.chosen = o.chosen /\ b.soon = o.soon
      /\ b = o \/ b.at = o.layer
  BY <1>1, <1>2, <1>3
<1> HIDE DEF b
<1>5. /\ p.native = o.native /\ p.config = o.config /\ p.content = o.content
      /\ p.kind = o.kind /\ p.bad = o.bad /\ p.closing = o.closing
      /\ p.layer = o.layer /\ p.at = b.at /\ p.height = o.height
      /\ p.homeMargin = o.homeMargin /\ p.placing = o.placing /\ p.active = o.active
      /\ p.visible = o.visible /\ p.state = o.state /\ p.chosen = o.chosen /\ p.soon = o.soon
      /\ p.stroke = b.stroke
  BY <1>4, FieldNames DEF Rec
<1>6. Press(o) = IF b.stroke THEN p ELSE b BY DEF Press, p, b
<1> HIDE DEF p
<1>7. ASSUME NEW q, q \in {b, p} PROVE Firm(q) /\ Frame(q) = Frame(o) /\ (Tidy(o) => Tidy(q))
  <2>1. /\ q.native = o.native /\ q.config = o.config /\ q.content = o.content
        /\ q.kind = o.kind /\ q.bad = o.bad /\ q.closing = o.closing
        /\ q.layer = o.layer /\ q.at = b.at /\ q.height = o.height
        /\ q.homeMargin = o.homeMargin /\ q.placing = o.placing /\ q.active = o.active
        /\ q.visible = o.visible /\ q.state = o.state /\ q.chosen = o.chosen /\ q.soon = o.soon
        /\ q.stroke = b.stroke
    BY <1>4, <1>5, <1>7
  <2>2. Frame(q) = Frame(o) BY <2>1 DEF Frame
  <2>3. Firm(q) BY <1>4, <2>1 DEF Firm, Numbers
  <2>4. InPlace(o) => InPlace(q) BY <2>1 DEF InPlace, AsBelieved, Known, Layered
  <2>5. DragsFrom(o) => DragsFrom(q) BY <1>4, <2>1 DEF DragsFrom, Layered
  <2> QED BY <2>1, <2>2, <2>3, <2>4, <2>5 DEF Tidy
<1>8. SavesWell(o, b) /\ SavesWell(o, p) BY <1>4, <1>5 DEF SavesWell
<1> QED BY <1>6, <1>7, <1>8 DEF Proper


\* A new height moves the surface under the edge it is anchored to, and the stroke with it.
LEMMA ResizeIsProper ==
    ASSUME NEW o, SurfaceInv(o), Firm(o)
    PROVE  Proper(o, ResizeContent(o))
<1> DEFINE y == IF o.config.top THEN o.layer ELSE o.layer + o.height - o.content
           a == Aimed(o)
           zero == 0
           b == [a EXCEPT !.rejected = zero]
           h == [b EXCEPT !.height = b.content]
           m == MoveTo(h, b.selected, y)
           s == [m.o EXCEPT !.layer = y]
           f == [m.o EXCEPT !.rejected = o.content, !.height = o.height]
           p == ResizeContent(o)
<1>1. Rec(o) /\ NativeOK(o) BY InvKnows DEF SurfaceInv
<1>2. Still(o, a) BY <1>1, AimedIsStill
<1>3. Rec(a) /\ NativeOK(a) BY <1>2, StillKeeps
<1> HIDE DEF a, zero
<1>4. Still(a, b) BY <1>3, EditsAreStill
<1>5. Still(o, b) BY <1>2, <1>4, StillTrans
<1>6. Rec(b) /\ NativeOK(b) /\ Firm(b) /\ Frame(b) = Frame(o) /\ (Layered(b) <=> Layered(o))
  BY <1>5, StillKeeps, StillFits DEF Fits

<1>7. \/ p = a \/ p = b
      \/ ~Positions(b) /\ p = h
      \/ Succeeded(m) /\ p = s
      \/ ~Succeeded(m) /\ p = f
  BY DEF ResizeContent, p, a, b, h, m, s, f, y, zero
<1>8. y \in Int BY DEF Firm, Numbers, y
<1> HIDE DEF p, y, b
<1>9. /\ Rec(h) /\ Life(h) = Life(b) /\ h.native = b.native /\ Hand(h) = Hand(b)
      /\ h.height = b.content /\ h.layer = b.layer /\ h.homeMargin = b.homeMargin
  BY <1>6, FieldNames DEF Rec, Life, Hand
<1> HIDE DEF h
<1>10. Fits(b, h) /\ NativeOK(h)
  BY <1>6, <1>9, HandFits DEF Numbers, NativeOK
<1>11. /\ Result(m) /\ Rec(m.o) /\ Life(m.o) = Life(h) /\ Spot(m.o) = Spot(h)
       /\ (~Layered(h) \/ m.is # "applied" => Still(h, m.o))
       /\ (Layered(h) /\ m.is = "applied" =>
             /\ m.o.at = y /\ m.o.native # NoSurface
             /\ m.o.native.layer => m.o.native.y = y)
       /\ (Layered(h) /\ h.bad = {} /\ ~h.shut => m.is = "applied")
  BY <1>9, <1>10, MoveDoes
<1>12. Fits(h, m.o) BY <1>8, <1>9, <1>10, MoveFits
<1> HIDE DEF m
<1>13. Firm(m.o) /\ Frame(m.o) = Frame(o) /\ m.o.config = o.config
  <2>1. m.o.config = h.config /\ h.config = b.config BY <1>9, <1>11, SameSpot, SameHand
  <2>2. b.config = o.config BY <1>5, StillFits
  <2> QED BY <1>6, <1>10, <1>12, <2>1, <2>2 DEF Fits
<1>14. ASSUME NEW q, Rec(q), Life(q) = Life(m.o), Hand(q) = Hand(m.o), q.homeMargin = m.o.homeMargin,
              q.layer \in Int, q.height \in Int
       PROVE  Firm(q) /\ Frame(q) = Frame(o) /\ q.config = o.config
  BY <1>13, <1>14, HandFits, SameHand DEF Fits, Firm, Numbers
<1>15. /\ Rec(s) /\ Life(s) = Life(m.o) /\ Hand(s) = Hand(m.o) /\ s.homeMargin = m.o.homeMargin
       /\ s.layer = y /\ s.height = m.o.height /\ s.native = m.o.native
  BY <1>11, FieldNames DEF Rec, Life, Hand
<1>16. /\ Rec(f) /\ Life(f) = Life(m.o) /\ Hand(f) = Hand(m.o) /\ f.homeMargin = m.o.homeMargin
       /\ f.layer = m.o.layer /\ f.height = o.height
  BY <1>11, FieldNames DEF Rec, Life, Hand
<1> HIDE DEF s, f
<1>17. /\ Firm(s) /\ Frame(s) = Frame(o) /\ s.config = o.config
       /\ Firm(f) /\ Frame(f) = Frame(o) /\ f.config = o.config
  BY <1>8, <1>13, <1>14, <1>15, <1>16 DEF Firm, Numbers
<1>18. /\ Firm(h) /\ Frame(h) = Frame(o) /\ h.config = o.config
  <2>1. h.config = b.config BY <1>9, SameHand
  <2>2. b.config = o.config BY <1>5, StillFits
  <2> QED BY <1>6, <1>10, <2>1, <2>2 DEF Fits
<1>19. SurfaceInv(p) /\ p.state = o.state
  BY <1>1, ResizeIsCalm, CalmInv, SameLife DEF p, Calm
<1>20. ASSUME o.bad = {}, Tidy(o), p # a, p # b PROVE Tidy(p)
  <2>1. ~p.closing
    BY <1>7, <1>17, <1>18, <1>20, SameFrame DEF Tidy
  <2>2. CASE ~Layered(p) BY <2>1, <2>2 DEF Tidy, DragsFrom, InPlace
  <2>3. CASE p.state # "active"
    BY <1>19, <2>1, <2>3, FreeIsTidy DEF SurfaceInv, Base
  <2>4. CASE Layered(p) /\ p.state = "active"
    <3>1. Layered(h) /\ Layered(s) /\ Layered(f) /\ Layered(b) /\ h.bad = {}
      BY <1>6, <1>7, <1>17, <1>18, <1>20, <2>4, SameFrame
    <3>2. Positions(b) BY <3>1 DEF Positions, Capabilities, LayerCapabilities
    <3>3. ~o.shut BY <1>19, <2>4 DEF SurfaceInv, Base, Closed
    <3>4. ~h.shut BY <1>5, <1>9, <3>3, StillKeeps, SameLife
    <3>5. m.is = "applied" BY <1>11, <3>1, <3>4
    <3>6. p = s BY <1>7, <1>20, <3>2, <3>5 DEF Succeeded
    <3>7. s.at = y BY <1>11, <1>15, <3>1, <3>5, SameHand
    <3>8. Placed(s) BY <1>11, <1>15, <3>1, <3>5, <3>7 DEF Placed
    <3> QED BY <2>1, <3>6, <3>8, PlacedIsKnown DEF Tidy
  <2> QED BY <2>2, <2>3, <2>4
<1>21. Proper(o, a) /\ Proper(o, b) BY <1>2, <1>5, StillIsProper
<1>22. CASE p # a /\ p # b
  <2>1. Firm(p) /\ Frame(p) = Frame(o) /\ p.config = o.config
    BY <1>7, <1>17, <1>18, <1>22
  <2>2. o.bad = {} /\ Tidy(o) => Tidy(p) BY <1>20, <1>22
  <2>3. SavesWell(o, p) BY <2>1 DEF SavesWell
  <2>4. Proper(o, p) BY <2>1, <2>2, <2>3 DEF Proper
  <2> QED BY <2>4 DEF p
<1> QED BY <1>21, <1>22 DEF p

\* So is the timer of the geometry.
LEMMA GeometryIsProper ==
    ASSUME NEW o, SurfaceInv(o), Firm(o)
    PROVE  Proper(o, RefreshGeometry([o EXCEPT !.resize = FALSE]))
<1> DEFINE no == FALSE
           yes == TRUE
           p == [o EXCEPT !.resize = no]
           q == ResizeContent(p)
           i == [q EXCEPT !.inputDue = yes]
<1>1. Rec(o) /\ NativeOK(o) BY InvKnows DEF SurfaceInv
<1>2. RefreshGeometry([o EXCEPT !.resize = FALSE]) = IF Ending(p) THEN p ELSE i
  BY DEF RefreshGeometry
<1>3. Still(o, p) BY <1>1, EditsAreStill
<1>4. SurfaceInv(p) BY QuietKeeps
<1> HIDE DEF p
<1>5. Firm(p) => Proper(p, q) BY <1>4, ResizeIsProper
<1>6. Proper(o, p) /\ Proper(o, q) BY <1>3, <1>5, StillIsProper, ProperAfterStill
<1>7. Rec(q) /\ NativeOK(q)
  <2>1. Rec(p) /\ NativeOK(p) BY <1>3, StillKeeps
  <2>2. SurfaceInv(q) BY <1>4, <2>1, ResizeIsCalm, CalmInv
  <2> QED BY <2>2, InvKnows DEF SurfaceInv
<1> HIDE DEF q, yes
<1>8. Still(q, i) BY <1>7, EditsAreStill
<1> HIDE DEF i
<1>9. Proper(o, i) BY <1>6, <1>8, StillAfterProper
<1> QED BY <1>2, <1>6, <1>9


\* A step of a stroke moves a layer surface to where the stroke then is, or nothing moves.
LEMMA UpdateDoes ==
    ASSUME NEW o, Rec(o), NativeOK(o), Firm(o), NEW d \in Int
    PROVE  LET r == UpdateDrag(o, d) IN
           /\ Fits(o, r.o) /\ Spot(r.o) = Spot(o)
           /\ ~Succeeded(r) => Still(o, r.o)
           /\ Succeeded(r) /\ Layered(o) =>
                \/ r.o = o /\ o.stroke
                \/ r.o.native # NoSurface /\ (r.o.native.layer => r.o.native.y = r.o.at)
<1> DEFINE h == Held(o)
           y == h.native.y + d
           z == h.at + d
           m == [h EXCEPT !.native.y = y]
           w == [m EXCEPT !.at = z]
           g == Constrained(o, o.at + d)
           l == MoveTo(o, NoOutput, g)
           r == UpdateDrag(o, d)
<1>1. Still(o, h) BY HeldIsStill
<1>2. Rec(h) /\ NativeOK(h) BY <1>1, StillKeeps
<1>3. Spot(h) = Spot(o) /\ Life(h) = Life(o) /\ h.at = o.at BY <1>1 DEF Still
<1>4. z \in Int BY <1>3 DEF Firm, Numbers
<1>5. g \in Int
  <2>1. o.at + d \in Int /\ o.height \in Int BY DEF Firm, Numbers
  <2> QED BY <2>1, SpaceAssumption DEF Constrained, Between, Greatest, Least
<1> HIDE DEF h, y, z, g
<1>6. /\ Rec(w) /\ Spot(w) = Spot(h) /\ w.at = z /\ Life(w) = Life(h)
  BY <1>2, FieldNames DEF Rec, Spot, Life
<1>7. [h EXCEPT !.native.y = h.native.y + d, !.at = h.at + d] = w
  BY <1>2, FieldNames DEF y, z, Rec
<1> HIDE DEF w, m
<1>8. Spot(w) = Spot(o) /\ Life(w) = Life(o) BY <1>3, <1>6
<1>9. Fits(o, w)
  <2>1. /\ w.kind = o.kind /\ w.active = o.active /\ w.closing = o.closing
        /\ w.placing = o.placing /\ w.visible = o.visible
    BY <1>8, SameLife
  <2>2. /\ w.bad = o.bad /\ w.content = o.content /\ w.height = o.height
        /\ w.layer = o.layer /\ w.homeMargin = o.homeMargin
        /\ w.config = o.config /\ w.grab = o.grab
    BY <1>8, SameSpot
  <2>3. Frame(w) = Frame(o) BY <2>1, <2>2 DEF Frame
  <2>4. Firm(o) => Firm(w) BY <1>4, <1>6, <2>1, <2>2 DEF Firm, Numbers
  <2> QED BY <2>3, <2>4 DEF Fits
<1>10. /\ Spot(l.o) = Spot(o) /\ Result(l)
       /\ (~Layered(o) \/ l.is # "applied" => Still(o, l.o))
       /\ (Layered(o) /\ l.is = "applied" =>
             /\ l.o.at = g /\ l.o.native # NoSurface
             /\ l.o.native.layer => l.o.native.y = g)
  BY <1>2, MoveDoes
<1>11. Fits(o, l.o) BY <1>5, MoveFits
<1>12. Still(o, o) /\ Fits(o, o) /\ Fits(o, h) BY <1>1, StillRefl, StillFits
<1>13. \/ r = Rejected(o) \/ (r = Applied(o) /\ o.stroke) \/ r = Unsupported(o)
       \/ r = Failed(h) \/ (r = l /\ Layered(o)) \/ (r = Applied(w) /\ ~Layered(o))
  <2>1. CASE o.shut \/ ~o.stroke BY <2>1 DEF UpdateDrag
  <2>2. CASE ~o.shut /\ o.stroke /\ Layered(o)
    <3>1. l = LayerMove(o, g) BY <2>2 DEF MoveTo
    <3> HIDE DEF l
    <3>2. UpdateLayerDrag(o, d) = IF g = o.at THEN Applied(o) ELSE LayerMove(o, g)
      BY DEF UpdateLayerDrag, g
    <3> QED BY <3>1, <3>2, <2>2 DEF UpdateDrag
  <2>3. CASE ~o.shut /\ o.stroke /\ ~Layered(o)
    <3>1. [Held(o) EXCEPT !.native.y = @ + d, !.at = @ + d] = w
      BY <1>7, <1>2, FieldNames DEF h, Rec
    <3>2. UpdateWindowDrag(o, d) \in {Unsupported(o), Applied(o), Failed(h), Applied(w)}
      BY <3>1 DEF UpdateWindowDrag, h
    <3> QED BY <3>2, <2>3 DEF UpdateDrag
  <2> QED BY <2>1, <2>2, <2>3
<1> HIDE DEF r, l
<1>14. r.o \in {o, h, l.o, w}
  BY <1>13 DEF Rejected, Applied, Unsupported, Failed
<1>15. Fits(o, r.o) /\ Spot(r.o) = Spot(o) BY <1>3, <1>8, <1>9, <1>10, <1>11, <1>12, <1>14
<1>16. ~Succeeded(r) => Still(o, r.o)
  BY <1>1, <1>10, <1>12, <1>13 DEF Rejected, Applied, Unsupported, Failed, Succeeded
<1>17. Succeeded(r) /\ Layered(o) =>
         \/ r.o = o /\ o.stroke
         \/ r.o.native # NoSurface /\ (r.o.native.layer => r.o.native.y = r.o.at)
  BY <1>10, <1>13 DEF Rejected, Applied, Unsupported, Failed, Succeeded
<1> QED BY <1>15, <1>16, <1>17 DEF r

\* The pointer that moves the panel moves the surface to where the controller then has it.
LEMMA DragIsProper ==
    ASSUME NEW o, SurfaceInv(o), Firm(o), NEW d \in Int
    PROVE  Proper(o, Drag(o, d))
<1> DEFINE r == UpdateDrag(o, d)
           v == r.o.moved \/ r.o.at # o.layer
           no == FALSE
           j == IF Succeeded(r) THEN [r EXCEPT !.o.moved = v] ELSE [r EXCEPT !.o.applied = no]
           e == [r.o EXCEPT !.moved = v]
           f == [r.o EXCEPT !.applied = no]
           g == [e EXCEPT !.layer = e.at]
<1>1. Rec(o) /\ NativeOK(o) BY InvKnows DEF SurfaceInv
<1>2. Result(r) /\ Calm(o, r.o) BY <1>1, UpdateIsCalm
<1>3. Rec(r.o) /\ NativeOK(r.o) /\ Life(r.o) = Life(o) BY <1>2, CalmKeeps DEF Calm
<1>4. DragStep(o, d) = j
  <2>1. [r EXCEPT !.o.moved = @ \/ r.o.at # o.layer] = [r EXCEPT !.o.moved = v]
    BY <1>2, <1>3, FieldNames DEF Result, Rec
  <2> QED BY <2>1 DEF DragStep
<1>5. /\ Fits(o, r.o) /\ Spot(r.o) = Spot(o)
      /\ (~Succeeded(r) => Still(o, r.o))
      /\ (Succeeded(r) /\ Layered(o) =>
            \/ r.o = o /\ o.stroke
            \/ r.o.native # NoSurface /\ (r.o.native.layer => r.o.native.y = r.o.at))
  BY <1>1, UpdateDoes
<1> HIDE DEF v, r, no
<1>6. /\ Succeeded(r) => Succeeded(j) /\ j.o = e
      /\ ~Succeeded(r) => ~Succeeded(j) /\ j.o = f
  BY <1>2 DEF Result, Succeeded
<1>7. Drag(o, d) = IF Succeeded(r) THEN g ELSE f
  <2> HIDE DEF e, f
  <2> QED BY <1>4, <1>6 DEF Drag
<1> HIDE DEF j
<1>8. CASE ~Succeeded(r)
  <2>1. Still(r.o, f) BY <1>3, EditsAreStill
  <2> HIDE DEF f
  <2>2. Still(o, f) BY <1>5, <1>8, <2>1, StillTrans
  <2> QED BY <1>7, <1>8, <2>2, StillIsProper
<1>9. CASE Succeeded(r)
  <2>1. Still(r.o, e) BY <1>3, EditsAreStill
  <2>2. e.native = r.o.native /\ Rec(e) BY <1>3, FieldNames DEF Rec
  <2> HIDE DEF e
  <2>3. /\ g.layer = e.at /\ g.at = e.at /\ g.native = e.native /\ Life(g) = Life(e)
        /\ Hand(g) = Hand(e) /\ g.height = e.height /\ g.homeMargin = e.homeMargin
    BY <2>2, FieldNames DEF Rec, Life, Hand
  <2> HIDE DEF g
  <2>4. Firm(e) /\ Frame(e) = Frame(o) /\ e.config = o.config
    <3>1. Fits(r.o, e) /\ e.config = r.o.config BY <2>1, StillFits
    <3>2. r.o.config = o.config BY <1>5, SameSpot
    <3> QED BY <1>5, <3>1, <3>2 DEF Fits
  <2>5. Fits(e, g)
    <3>1. Numbers(e) => g.layer \in Int /\ g.height \in Int /\ g.homeMargin \in Int \cup {NoMargin}
      BY <2>3 DEF Numbers
    <3> QED BY <2>3, <3>1, HandFits
  <2>6. Firm(g) /\ Frame(g) = Frame(o) /\ g.config = o.config
    BY <2>3, <2>4, <2>5, SameHand DEF Fits
  <2>7. SavesWell(o, g) BY <2>6 DEF SavesWell
  <2>8. Life(g) = Life(o) BY <1>3, <2>1, <2>3 DEF Still
  <2>9. e.at = r.o.at BY <2>1, StillHand, SameHand
  <2>10. ASSUME o.bad = {}, Tidy(o) PROVE Tidy(g)
    <3>1. ~g.closing BY <2>6, <2>10, SameFrame DEF Tidy
    <3>2. DragsFrom(g) BY <2>3 DEF DragsFrom
    <3>3. InPlace(g)
      <4>1. SUFFICES ASSUME Layered(g), AsBelieved(g) PROVE Known(g) BY DEF InPlace
      <4>2. Layered(o) /\ g.state = o.state /\ g.soon = o.soon /\ g.active = o.active
        BY <2>8, <4>1, SameLife DEF Layered
      <4>3. CASE r.o.native # NoSurface /\ (r.o.native.layer => r.o.native.y = r.o.at)
        BY <2>2, <2>3, <2>9, <4>1, <4>3 DEF Known, AsBelieved
      <4>4. CASE r.o = o /\ o.stroke
        <5>1. g.native = o.native /\ g.layer = o.at BY <2>2, <2>3, <2>9, <4>4
        <5>2. CASE o.soon BY <4>2, <5>2 DEF Known
        <5>3. CASE ~o.soon
          <6>1. o.at = o.layer
            BY <2>10, <4>1, <4>2, <4>4, <5>3 DEF Tidy, DragsFrom, AsBelieved
          <6>2. g.chosen = o.chosen /\ g.height = o.height /\ g.config = o.config
            BY <1>5, <2>1, <2>3, <4>4, SameHand, StillHand
          <6>3. AsBelieved(o) BY <4>1, <4>2, <5>1, <6>2 DEF AsBelieved
          <6>4. Known(o) BY <2>10, <4>2, <6>3 DEF Tidy, InPlace
          <6> QED BY <4>2, <5>1, <6>1, <6>2, <6>4 DEF Known
        <5> QED BY <5>2, <5>3
      <4> QED BY <1>5, <1>9, <4>2, <4>3, <4>4
    <3> QED BY <3>1, <3>2, <3>3 DEF Tidy
  <2>11. Proper(o, g) BY <2>6, <2>7, <2>10 DEF Proper
  <2> QED BY <1>7, <1>9, <2>11
<1> QED BY <1>8, <1>9


\* The pointer that moves the panel.
LEMMA DragMoveIsProper ==
    ASSUME NEW o, SurfaceInv(o), Firm(o), NEW d \in Int
    PROVE  Proper(o, IF Target(o) = NoOutput THEN Aimed(o) ELSE Drag(Aimed(o), d))
<1> DEFINE a == Aimed(o)
<1>1. Rec(o) /\ NativeOK(o) BY InvKnows DEF SurfaceInv
<1>2. Still(o, a) /\ Calm(o, a) BY <1>1, AimedIsStill, AimedIsCalm
<1>3. SurfaceInv(a) BY <1>2, CalmInv
<1>4. Proper(o, a) BY <1>2, StillIsProper
<1> HIDE DEF a
<1>5. Firm(a) => Proper(a, Drag(a, d)) BY <1>3, DragIsProper
<1>6. Proper(o, Drag(a, d)) BY <1>2, <1>5, ProperAfterStill
<1> QED BY <1>4, <1>6 DEF a

\* The place a drag ends at, on the output the surface is on, is where the surface was moved
\* to, and what is saved of it.
LEMMA PlacingIsProper ==
    ASSUME NEW o, SurfaceInv(o), Firm(o), o.visible, ~o.stroke,
           NEW output, output \in o.connected
    PROVE  LET y == Clamped(o.layer, o.content, TRUE)
               commit == [screen |-> output, object |-> output, y |-> y,
                          margin |-> EdgeMargin(o, y)]
               m == IF Layered(o) THEN MoveTo(o, output, y) ELSE Applied(o)
           IN  Proper(o, IF Succeeded(m) THEN Save(CommitPosition(m.o, commit), commit) ELSE m.o)
<1> DEFINE y == Clamped(o.layer, o.content, TRUE)
           margin == EdgeMargin(o, y)
           c == [screen |-> output, object |-> output, y |-> y, margin |-> margin]
           r == MoveTo(o, output, y)
           m == IF Layered(o) THEN r ELSE Applied(o)
           n == CommitPosition(m.o, c)
           s == Save(n, c)
<1>1. Rec(o) /\ NativeOK(o) /\ output # NoOutput
  BY InvKnows, OutputsAssumption DEF SurfaceInv
<1>2. y \in Int /\ margin \in Int
  <2>1. o.layer \in Int /\ o.content \in Int /\ o.content \in Nat BY DEF Firm, Numbers
  <2>2. y \in Int BY <2>1, ClampedIsNumber
  <2> HIDE DEF y
  <2> QED BY <2>1, <2>2, EdgeIsNumber
<1>20. /\ o.content \in Nat
       /\ LET given == Clamped(IF o.config.top THEN margin ELSE ScreenHeight - o.content - margin,
                               o.content, TRUE)
          IN  \/ given = y
              \/ ~o.config.top /\ y + o.content > ScreenHeight /\ given = Clamped(y, o.content, FALSE)
  <2>1. o.layer \in Int /\ o.content \in Nat BY DEF Firm, Numbers
  <2>3. PICK l \in Int : l = o.layer BY <2>1
  <2>4. LET v == Clamped(l, o.content, TRUE)
            w == EdgeMargin(o, v)
            given == Clamped(IF o.config.top THEN w ELSE ScreenHeight - o.content - w, o.content, TRUE)
        IN  \/ given = v
            \/ ~o.config.top /\ v + o.content > ScreenHeight /\ given = Clamped(v, o.content, FALSE)
    BY <2>1, SavedPlace, Zenon
  <2> QED BY <2>1, <2>3, <2>4
<1>21. margin = EdgeMargin(o, y) OBVIOUS
<1>3. c.screen = output /\ c.object = output /\ c.y = y /\ c.margin = margin OBVIOUS
<1> HIDE DEF c, y, margin
<1>4. /\ Result(r) /\ Rec(r.o) /\ Life(r.o) = Life(o) /\ NativeKept(o, r.o) /\ Spot(r.o) = Spot(o)
      /\ (~Layered(o) \/ r.is # "applied" => Still(o, r.o))
      /\ (Layered(o) /\ r.is = "applied" =>
            /\ r.o.at = y /\ r.o.native # NoSurface
            /\ r.o.native.layer => r.o.native.y = y)
  BY <1>1, MoveDoes
<1>5. Fits(o, r.o) BY <1>1, <1>2, MoveFits
<1>6. Calm(o, r.o) BY <1>1, MoveIsCalm
<1> HIDE DEF r
<1>7. Calm(o, o) /\ Spot(o) = Spot(o) /\ Fits(o, o) BY <1>1, CalmRefl DEF Fits
<1>8. Calm(o, m.o) /\ Spot(m.o) = Spot(o) /\ Fits(o, m.o) BY <1>4, <1>5, <1>6, <1>7 DEF Applied
<1>9. CASE ~Succeeded(m)
  <2>1. Still(o, m.o) BY <1>4, <1>9 DEF Applied, Succeeded
  <2>2. Proper(o, m.o) BY <2>1, StillIsProper
  <2> QED BY <1>9, <2>2 DEF m, r, c, y, margin
<1>10. CASE Succeeded(m)
  <2>1. Layered(o) => /\ m.o.native # NoSurface
                      /\ m.o.native.layer => m.o.native.y = y
    BY <1>4, <1>10 DEF Succeeded
  <2> HIDE DEF m
  <2>2. Rec(m.o) /\ NativeOK(m.o) BY <1>8, CalmKeeps
  <2>3. /\ Fits(m.o, n) /\ Rec(n) /\ n.native = m.o.native /\ Life(n) = Life(m.o)
        /\ n.layer = y /\ n.chosen = output
        /\ n.config = m.o.config /\ n.content = m.o.content /\ n.height = m.o.height
        /\ n.stroke = m.o.stroke /\ n.grab = m.o.grab /\ n.at = m.o.at
    BY <1>2, <1>3, <2>2, CommitDoes
  <2>4. Calm(m.o, n) BY <2>2, CommitIsCalm
  <2> HIDE DEF n
  <2>5. SurfaceInv(n) BY <1>8, <2>4, CalmTrans, CalmInv
  <2>6. Rec(n) /\ NativeOK(n) /\ n.connected \in SUBSET Outputs BY <2>5, InvKnows DEF SurfaceInv
  <2>7. Frame(n) = Frame(o) /\ Firm(n) /\ n.content = o.content
    BY <1>8, <2>3, SameFrame DEF Fits
  <2>8. n.config = o.config /\ n.stroke = o.stroke
    BY <1>8, <2>3, SameSpot
  <2>9. Life(n) = Life(o) BY <1>8, <2>3 DEF Calm
  <2>10. n.connected = o.connected /\ n.visible = o.visible /\ (Layered(n) <=> Layered(o))
    BY <2>9, SameLife DEF Layered
  <2>30. c.margin \in Int BY <1>2, <1>3
  <2>31. /\ Frame(s) = Frame(n) /\ Firm(s) /\ SameY(n, s)
         /\ s.config = [n.config EXCEPT !.margin = c.margin, !.screen = c.screen]
         /\ s.chosen = n.chosen /\ s.stroke = n.stroke /\ s.grab = n.grab /\ s.at = n.at
         /\ (/\ ~Ending(n) /\ c.screen \in n.connected /\ n.chosen = c.screen
             /\ c.screen # NoOutput
             => /\ s.height = n.content
                /\ s.layer = Clamped(IF n.config.top THEN c.margin
                                     ELSE ScreenHeight - n.content - c.margin,
                                     n.content, TRUE))
    BY <2>6, <2>7, <2>30, SaveDoes
  <2>11. /\ Frame(s) = Frame(n) /\ Firm(s) /\ SameY(n, s)
         /\ s.config = [n.config EXCEPT !.margin = margin, !.screen = output]
         /\ s.chosen = n.chosen /\ s.stroke = n.stroke
         /\ (~Ending(n) => /\ s.height = n.content
                           /\ s.layer = Clamped(IF n.config.top THEN margin
                                                ELSE ScreenHeight - n.content - margin,
                                                n.content, TRUE))
    BY <1>1, <1>3, <2>3, <2>10, <2>31
  <2>12. Calm(n, s) BY <2>6, SaveIsCalm
  <2> HIDE DEF s
  <2>13. /\ s.config.margin = margin /\ s.config.screen = output
         /\ s.config.top = o.config.top
    BY <2>7, <2>8, <2>11 DEF Firm
  <2>14. /\ s.visible /\ s.closed = n.closed /\ s.closing = n.closing /\ s.state = n.state
         /\ s.content = o.content
    <3>1. Life(s) = Life(n) BY <2>12 DEF Calm
    <3>2. s.content = n.content BY <2>11, SameFrame
    <3>3. /\ s.visible = n.visible /\ s.closed = n.closed /\ s.closing = n.closing
          /\ s.state = n.state
      BY <3>1, SameLife
    <3> QED BY <2>7, <2>10, <3>2, <3>3
  <2>15. Layered(s) /\ AsBelieved(s) => s.native.y = y /\ s.active = output
    <3>1. SUFFICES ASSUME Layered(s), AsBelieved(s) PROVE s.native.y = y /\ s.active = output
      OBVIOUS
    <3>2. Layered(n) BY <2>11, <3>1, SameFrame
    <3>3. n.native # NoSurface BY <2>1, <2>3, <2>10, <3>2
    <3>4. n.native.layer BY <2>12, <3>1, <3>3 DEF Calm, NativeKept, AsBelieved
    <3>5. n.native.y = y BY <2>1, <2>3, <2>10, <3>2, <3>4
    <3>6. s.native.y = y BY <2>11, <3>2, <3>3, <3>5 DEF SameY
    <3> QED BY <2>3, <2>11, <3>1, <3>6 DEF AsBelieved
  <2>16. SavedWell(s) \/ ~Layered(s)
    <3>1. EdgeMargin(s, y) = margin BY <1>21, <2>13, <2>14 DEF EdgeMargin
    <3> QED BY <1>1, <2>13, <2>14, <2>15, <3>1 DEF SavedWell
  <2>17. ASSUME Tidy(o) PROVE Tidy(s)
    <3>1. ~s.closing BY <2>7, <2>11, <2>17, SameFrame DEF Tidy
    <3>2. DragsFrom(s) BY <2>8, <2>11 DEF DragsFrom
    <3>3. InPlace(s)
      <4>1. SUFFICES ASSUME Layered(s), AsBelieved(s) PROVE Known(s) BY DEF InPlace
      <4>2. ~Ending(n)
        BY <2>5, <2>14, <3>1, <4>1 DEF Ending, AsBelieved, SurfaceInv, Base, Closed
      <4>3. /\ s.height = o.content
            /\ s.layer = Clamped(IF o.config.top THEN margin ELSE ScreenHeight - o.content - margin,
                                 o.content, TRUE)
        BY <2>7, <2>8, <2>11, <4>2
      <4>5. \/ s.layer = y
            \/ ~o.config.top /\ y + o.content > ScreenHeight /\ s.layer = Clamped(y, o.content, FALSE)
        BY <1>20, <4>3
      <4> QED BY <2>13, <2>15, <4>1, <4>3, <4>5 DEF Known
    <3> QED BY <3>1, <3>2, <3>3 DEF Tidy
  <2>18. Frame(s) = Frame(o) BY <2>7, <2>11
  <2>19. SavesWell(o, s) BY <2>16 DEF SavesWell
  <2>20. Proper(o, s) BY <2>11, <2>17, <2>18, <2>19 DEF Proper
  <2> QED BY <1>10, <2>20 DEF s, n, m, r, c, y, margin
<1> QED BY <1>9, <1>10


\* The place a drag ends at is saved once the surface is there, on this output or another.
LEMMA CommitIsProper ==
    ASSUME NEW o, SurfaceInv(o), o.begun, Firm(o), o.visible, ~o.stroke,
           NEW cursor \in o.connected
    PROVE  Proper(o, CommitDrag(o, cursor))
<1> DEFINE a == Aimed(o)
           output == IF Rebinds(o) THEN cursor ELSE Target(o)
           y == Clamped(o.layer, o.content, TRUE)
           margin == EdgeMargin(o, y)
           c == [screen |-> output, object |-> output, y |-> y, margin |-> margin]
           b == [a EXCEPT !.placing = c]
           q == Rebind(b, output, TRUE)
           m == IF Layered(o) THEN MoveTo(a, output, y) ELSE Applied(a)
           p == IF Succeeded(m) THEN Save(CommitPosition(m.o, c), c) ELSE m.o
           s == Save(q.o, c)
<1>1. Rec(o) /\ NativeOK(o) /\ o.connected \in SUBSET Outputs BY InvKnows DEF SurfaceInv
<1>2. Calm(o, a) /\ Still(o, a) BY <1>1, AimedIsCalm, AimedIsStill
<1>3. SurfaceInv(a) /\ a.begun /\ a.connected = o.connected /\ a.visible = o.visible
  BY <1>2, CalmInv, SameLife DEF Calm
<1>4. /\ Firm(a) /\ Frame(a) = Frame(o) /\ a.config = o.config /\ (Layered(a) <=> Layered(o))
      /\ a.stroke = o.stroke /\ a.layer = o.layer /\ a.content = o.content
  BY <1>2, StillFits, StillHand, StillKeeps, SameHand DEF Fits
<1> HIDE DEF a
<1>5. CommitDrag(o, cursor) =
        IF Target(o) = NoOutput THEN a
        ELSE IF output # a.selected /\ Layered(o)
             THEN IF Succeeded(q) THEN s ELSE q.o
             ELSE p
  BY DEF CommitDrag, a, output, y, margin, c, b, q, m, p, s
<1>6. Target(o) # NoOutput => output \in o.connected BY <1>1, TargetIsThere
<1>7. y \in Int /\ margin \in Int
  <2>1. o.layer \in Int /\ o.content \in Int /\ o.content \in Nat BY DEF Firm, Numbers
  <2>2. y \in Int BY <2>1, ClampedIsNumber
  <2> HIDE DEF y
  <2> QED BY <2>1, <2>2, EdgeIsNumber
<1>8. y = Clamped(a.layer, a.content, TRUE) /\ margin = EdgeMargin(a, y)
  BY <1>4 DEF EdgeMargin
<1> HIDE DEF output
<1>9. ASSUME Target(o) # NoOutput PROVE Proper(o, p)
  <2>1. output \in a.connected /\ a.visible /\ ~a.stroke BY <1>3, <1>4, <1>6, <1>9
  <2>2. LET z == Clamped(a.layer, a.content, TRUE)
            commit == [screen |-> output, object |-> output, y |-> z,
                       margin |-> EdgeMargin(a, z)]
            w == IF Layered(a) THEN MoveTo(a, output, z) ELSE Applied(a)
        IN  Proper(a, IF Succeeded(w) THEN Save(CommitPosition(w.o, commit), commit) ELSE w.o)
    BY <1>3, <1>4, <2>1, PlacingIsProper
  <2>3. Proper(a, p)
    <3> HIDE DEF y, margin
    <3> QED BY <1>4, <1>8, <2>2
  <2> HIDE DEF p
  <2> QED BY <1>2, <2>3, ProperAfterStill
<1>10. c.screen = output /\ c.object = output /\ c.y = y /\ c.margin = margin OBVIOUS
<1> HIDE DEF p, c, y, margin
<1>11. CASE Target(o) # NoOutput /\ output # a.selected /\ Layered(o)
  <2>1. Rec(a) /\ (a.dragging => a.begun) BY <1>3, InvKnows DEF SurfaceInv
  <2>2. /\ Rec(b) /\ b.native = a.native /\ b.sure = a.sure /\ b.region = a.region
        /\ b.locked = a.locked /\ b.passthrough = a.passthrough
        /\ b.kind = a.kind /\ b.state = a.state /\ b.active = a.active
        /\ b.pending = a.pending /\ b.free = a.free /\ b.retry = a.retry
        /\ b.closed = a.closed /\ b.closing = a.closing /\ b.begun = a.begun
        /\ b.connected = a.connected /\ b.shut = a.shut /\ b.placing = c
        /\ b.visible = a.visible /\ b.released = a.released /\ b.config = a.config
        /\ b.soon = a.soon /\ b.later = a.later /\ b.dragging = a.dragging
    BY <2>1, FieldNames DEF Rec
  <2>15. /\ b.bad = a.bad /\ b.content = a.content /\ b.layer = a.layer /\ b.at = a.at
         /\ b.height = a.height /\ b.homeMargin = a.homeMargin /\ b.grab = a.grab
         /\ b.stroke = a.stroke /\ b.chosen = a.chosen
    BY <2>1, FieldNames DEF Rec
  <2> HIDE DEF b
  <2>3. Base(b) /\ (b.pending = NoOutput => Shown(b))
    BY <1>3, <1>10, <2>1, <2>2, DisarmedKeeps DEF SurfaceInv
  <2>4. output \in b.connected /\ b.begun /\ output # NoOutput
    BY <1>1, <1>3, <1>6, <1>11, <2>2, OutputsAssumption
  <2>5. Frame(b) = Frame(a) BY <2>2, <2>15 DEF Frame
  <2>6. Firm(b) BY <1>4, <1>7, <1>10, <2>2, <2>15 DEF Firm, Numbers
  <2>7. Tidy(a) => Tidy(b) BY <2>2, <2>15, SameIsTidy
  <2>8. Tidy(o) => Tidy(b) BY <1>2, <2>7, StillIsTidy
  <2>9. PICK dragging \in BOOLEAN : dragging = TRUE OBVIOUS
  <2>10. /\ SurfaceInv(Rebind(b, output, dragging).o)
         /\ \/ /\ Rebind(b, output, dragging).o = b
               /\ ~Succeeded(Rebind(b, output, dragging))
            \/ Rebuilt(b, Rebind(b, output, dragging), output, dragging)
    BY <2>3, <2>4, <2>6, RebindKeeps, RebindFits
  <2>11. /\ SurfaceInv(q.o)
         /\ (q.o = b /\ ~Succeeded(q)) \/ Rebuilt(b, q, output, TRUE)
    BY <2>9, <2>10
  <2> HIDE DEF q
  <2>12. CASE q.o = b /\ ~Succeeded(q)
    <3>1. Frame(b) = Frame(o) /\ b.config = o.config BY <1>4, <2>2, <2>5
    <3>2. Proper(o, b) BY <2>6, <2>8, <3>1 DEF Proper, SavesWell
    <3> QED BY <1>5, <1>11, <2>12, <3>2
  <2>13. CASE Rebuilt(b, q, output, TRUE) /\ ~Succeeded(q)
    <3>1. /\ Frame(q.o) = Frame(o) /\ Firm(q.o) /\ q.o.config = o.config
          /\ q.o.state # "active"
      BY <1>4, <2>2, <2>5, <2>13 DEF Rebuilt
    <3>2. q.o.closing = o.closing BY <3>1, SameFrame
    <3>3. Tidy(o) => Tidy(q.o)
      BY <2>11, <3>1, <3>2, FreeIsTidy DEF Tidy, SurfaceInv, Base
    <3>4. Proper(o, q.o) BY <3>1, <3>3 DEF Proper, SavesWell
    <3> QED BY <1>5, <1>11, <2>13, <3>4
  <2>14. CASE Rebuilt(b, q, output, TRUE) /\ Succeeded(q)
    <3>1. /\ Frame(q.o) = Frame(o) /\ Firm(q.o)
          /\ q.o.state = "active" /\ q.o.active = output /\ q.o.visible
          /\ q.o.soon \/ Ending(q.o)
      BY <1>4, <2>2, <2>5, <2>14 DEF Rebuilt
    <3>2. Rec(q.o) /\ NativeOK(q.o) /\ q.o.connected \in SUBSET Outputs
      BY <2>11, InvKnows DEF SurfaceInv
    <3>3. c.margin \in Int BY <1>7, <1>10
    <3> DEFINE w == q.o
    <3>4. /\ Frame(s) = Frame(q.o) /\ Firm(s)
          /\ s.config = [q.o.config EXCEPT !.margin = c.margin, !.screen = c.screen]
      <4>1. Rec(w) /\ NativeOK(w) /\ Firm(w) BY <3>1, <3>2
      <4>2. s = Save(w, c) OBVIOUS
      <4> HIDE DEF w, s
      <4>3. /\ Frame(s) = Frame(w) /\ Firm(s)
            /\ s.config = [w.config EXCEPT !.margin = c.margin, !.screen = c.screen]
        BY <3>3, <4>1, <4>2, SaveDoes
      <4> QED BY <4>3 DEF w
    <3>5. Calm(q.o, s) BY <3>2, SaveIsCalm
    <3> HIDE DEF s
    <3>6. SurfaceInv(s) /\ Life(s) = Life(q.o) BY <2>11, <3>5, CalmInv DEF Calm
    <3>7. s.config.screen = output BY <1>10, <3>1, <3>4 DEF Firm
    <3>8. Saved(s) BY <2>4, <3>1, <3>6, <3>7, SameLife DEF Saved, Ending
    <3>9. s.closing = o.closing /\ Frame(s) = Frame(o) BY <3>1, <3>4, SameFrame
    <3>10. Tidy(o) => Tidy(s)
      BY <3>6, <3>8, <3>9, FreeIsTidy DEF Tidy, SurfaceInv, Base, Saved
    <3>11. SavesWell(o, s) BY <3>8, SavedIsWell DEF SavesWell
    <3>12. Proper(o, s) BY <3>4, <3>9, <3>10, <3>11 DEF Proper
    <3> QED BY <1>5, <1>11, <2>14, <3>12
  <2> QED BY <2>11, <2>12, <2>13, <2>14
<1>12. Proper(o, a) BY <1>2, StillIsProper
<1> HIDE DEF s, q
<1> QED BY <1>5, <1>9, <1>11, <1>12


\* The end of a drag ends the stroke, and moves nothing.
LEMMA EndsProperly ==
    ASSUME NEW o, SurfaceInv(o), Firm(o), NEW cursor
    PROVE  LET e == DragEnds(Carried(o, cursor)) IN
           /\ Proper(o, e) /\ SurfaceInv(e) /\ ~e.stroke /\ e.visible = o.visible
           /\ e.begun = o.begun /\ e.connected = o.connected /\ e.config = o.config
<1> DEFINE n == [o.native EXCEPT !.output = cursor]
           w == [o EXCEPT !.native = n]
           c == Carried(o, cursor)
           e == [[c EXCEPT !.dragging = FALSE, !.moved = FALSE, !.applied = TRUE, !.grab = FALSE]
                   EXCEPT !.stroke = FALSE]
<1>1. Rec(o) /\ NativeOK(o) BY InvKnows DEF SurfaceInv
<1>2. c = IF o.kind = "window" THEN w ELSE o BY <1>1, FieldNames DEF Carried, Rec
<1>3. Calm(o, c) BY <1>1, CarriedIsCalm
<1>4. SurfaceInv(c) /\ c.begun = o.begun /\ c.connected = o.connected
  BY <1>3, CalmInv, SameLife DEF Calm
<1>5. DragEnds(c) = e BY DEF DragEnds, EndDrag
<1> HIDE DEF n
<1>6. /\ Rec(w) /\ w.kind = o.kind /\ w.bad = o.bad /\ w.content = o.content
      /\ w.closing = o.closing /\ w.config = o.config /\ w.layer = o.layer /\ w.at = o.at
      /\ w.height = o.height /\ w.homeMargin = o.homeMargin /\ w.placing = o.placing
      /\ w.active = o.active /\ w.visible = o.visible /\ w.state = o.state
      /\ w.chosen = o.chosen /\ w.soon = o.soon
  BY <1>1, FieldNames DEF Rec
<1> HIDE DEF w
<1>7. /\ Rec(c) /\ c.kind = o.kind /\ c.bad = o.bad /\ c.content = o.content
      /\ c.closing = o.closing /\ c.config = o.config /\ c.layer = o.layer /\ c.at = o.at
      /\ c.height = o.height /\ c.homeMargin = o.homeMargin /\ c.placing = o.placing
      /\ c.active = o.active /\ c.visible = o.visible /\ c.state = o.state
      /\ c.chosen = o.chosen /\ c.soon = o.soon
      /\ Layered(o) => c.native = o.native
  BY <1>1, <1>2, <1>6 DEF Layered
<1>8. SurfaceInv(e) /\ e.begun = o.begun /\ e.connected = o.connected
  BY <1>4, <1>5, DragEndsKeeps
<1> HIDE DEF c
<1>9. /\ e.kind = c.kind /\ e.bad = c.bad /\ e.content = c.content
      /\ e.closing = c.closing /\ e.config = c.config /\ e.layer = c.layer /\ e.at = c.at
      /\ e.height = c.height /\ e.homeMargin = c.homeMargin /\ e.placing = c.placing
      /\ e.active = c.active /\ e.visible = c.visible /\ e.state = c.state
      /\ e.chosen = c.chosen /\ e.soon = c.soon /\ e.native = c.native
      /\ ~e.stroke /\ ~e.grab
  BY <1>7, FieldNames DEF Rec
<1> HIDE DEF e
<1>10. Frame(e) = Frame(o) BY <1>7, <1>9 DEF Frame
<1>11. Firm(e) BY <1>7, <1>9 DEF Firm, Numbers
<1>12. Tidy(o) => Tidy(e)
  BY <1>7, <1>9 DEF Tidy, DragsFrom, InPlace, AsBelieved, Known, Layered
<1>13. Proper(o, e) BY <1>7, <1>9, <1>10, <1>11, <1>12 DEF Proper, SavesWell
<1> QED BY <1>5, <1>7, <1>8, <1>9, <1>13 DEF c

\* What is proper after what is proper is proper, when the first saves nothing.
LEMMA ProperTrans ==
    ASSUME NEW o, NEW a, NEW p, Proper(o, a), a.config = o.config, Proper(a, p)
    PROVE  Proper(o, p)
<1>1. Frame(p) = Frame(o) /\ Firm(p) /\ a.bad = o.bad BY SameFrame DEF Proper
<1>2. o.bad = {} /\ Tidy(o) => Tidy(p) BY <1>1 DEF Proper
<1>3. SavesWell(o, p) BY DEF Proper, SavesWell
<1> QED BY <1>1, <1>2, <1>3 DEF Proper

\* The panel is released.
LEMMA FinishIsProper ==
    ASSUME NEW o, SurfaceInv(o), o.begun, Firm(o), o.visible, NEW cursor \in o.connected
    PROVE  Proper(o, FinishDrag(o, cursor))
<1> DEFINE e == DragEnds(Carried(o, cursor))
           commits == o.moved /\ o.applied /\ Positions(o)
           w == IF commits THEN CommitDrag(e, cursor) ELSE e
           m == IF Ending(w) THEN w ELSE SetInputMode(w, w.passthrough).o
           yes == TRUE
           s == [m EXCEPT !.suppress = yes]
<1>1. /\ Proper(o, e) /\ SurfaceInv(e) /\ ~e.stroke /\ e.visible = o.visible
      /\ e.begun = o.begun /\ e.connected = o.connected /\ e.config = o.config
  BY EndsProperly
<1>2. FinishDrag(o, cursor) = IF ~o.moved THEN e ELSE s
  BY DEF FinishDrag, e, commits, w, m, s, yes
<1> HIDE DEF commits, e, yes
<1>3. Firm(e) BY <1>1 DEF Proper
<1>4. SurfaceInv(CommitDrag(e, cursor)) BY <1>1, CommitKeeps
<1>5. Proper(e, CommitDrag(e, cursor)) BY <1>1, <1>3, CommitIsProper
<1>6. Proper(o, CommitDrag(e, cursor)) BY <1>1, <1>5, ProperTrans
<1>7. Proper(o, w) /\ SurfaceInv(w) BY <1>1, <1>4, <1>6
<1> HIDE DEF w
<1>8. Rec(w) /\ NativeOK(w) BY <1>7, InvKnows DEF SurfaceInv
<1>9. Still(w, m) BY <1>8, StillRefl, ModeIsStill
<1>10. Rec(m) /\ NativeOK(m) BY <1>9, StillKeeps
<1> HIDE DEF m
<1>11. Still(m, s) BY <1>10, EditsAreStill
<1> HIDE DEF s
<1>12. Proper(o, s) BY <1>7, <1>9, <1>11, StillTrans, StillAfterProper
<1> QED BY <1>1, <1>2, <1>12

\* The lock button is clicked, perhaps at the end of a drag.
LEMMA ClickIsProper ==
    ASSUME NEW o, SurfaceInv(o), o.begun, Firm(o), o.visible, NEW cursor \in o.connected
    PROVE  Proper(o, ClickLock(o, cursor))
<1> DEFINE f == FinishDrag(o, cursor)
           no == FALSE
           g == [o EXCEPT !.grab = no]
           w == IF o.dragging /\ o.moved THEN f ELSE g
           t == SetPassthrough(w, ~w.config.passthrough)
           k == Toggle(w)
<1>1. Rec(o) BY InvKnows DEF SurfaceInv
<1>2. SurfaceInv(f) /\ SurfaceInv(g) BY FinishKeeps, QuietKeeps
<1>3. Proper(o, f) BY FinishIsProper
<1> HIDE DEF f
<1>4. /\ g.kind = o.kind /\ g.bad = o.bad /\ g.content = o.content
      /\ g.closing = o.closing /\ g.config = o.config /\ g.layer = o.layer /\ g.at = o.at
      /\ g.height = o.height /\ g.homeMargin = o.homeMargin /\ g.placing = o.placing
      /\ g.active = o.active /\ g.visible = o.visible /\ g.state = o.state
      /\ g.chosen = o.chosen /\ g.soon = o.soon /\ g.native = o.native
      /\ g.stroke = o.stroke /\ ~g.grab
  BY <1>1, FieldNames DEF Rec
<1> HIDE DEF g
<1>5. Frame(g) = Frame(o) BY <1>4 DEF Frame
<1>6. Firm(g) BY <1>4 DEF Firm, Numbers
<1>7. Tidy(o) => Tidy(g) BY <1>4, SameIsTidy
<1>8. Proper(o, g) BY <1>4, <1>5, <1>6, <1>7 DEF Proper, SavesWell
<1>9. Proper(o, w) /\ SurfaceInv(w) BY <1>2, <1>3, <1>8
<1>10. ClickLock(o, cursor) = IF w.suppress THEN w ELSE k BY DEF ClickLock, w, f, g, no
<1> HIDE DEF w
<1>11. Firm(w) BY <1>9 DEF Proper
<1>12. Proper(w, k) BY <1>9, <1>11, ToggleIsProper
<1>13. /\ k.config.screen = w.config.screen /\ k.config.margin = w.config.margin
       /\ Layered(w) /\ SavedWell(w) => SavedWell(k)
  BY <1>9, <1>11, ToggleIsProper
<1> HIDE DEF k
<1>14. Frame(k) = Frame(o) /\ Firm(k) /\ w.bad = o.bad /\ (Layered(k) <=> Layered(w))
  BY <1>9, <1>12, SameFrame DEF Proper
<1>15. o.bad = {} /\ Tidy(o) => Tidy(k) BY <1>9, <1>12, <1>14 DEF Proper
<1>16. SavesWell(o, k) BY <1>9, <1>13, <1>14 DEF Proper, SavesWell
<1>17. Proper(o, k) BY <1>14, <1>15, <1>16 DEF Proper
<1> QED BY <1>9, <1>10, <1>17

\* Arming the retry of a pending output.
LEMMA ScheduleFits ==
    ASSUME NEW o, Rec(o)
    PROVE  LET p == ScheduleRetry(o) IN
           /\ Core(p) = Core(o) /\ p.grab = o.grab /\ p.visible = o.visible
           /\ p.state = o.state /\ Fits(o, p)
<1> DEFINE b == o.retry \/ (o.state \in {"rebinding", "degraded"} /\ o.pending # NoOutput)
           q == [o EXCEPT !.retry = b]
<1>1. ScheduleRetry(o) = q BY DEF ScheduleRetry
<1> HIDE DEF b
<1>2. /\ Core(q) = Core(o) /\ q.grab = o.grab /\ q.visible = o.visible
      /\ q.state = o.state
  BY FieldNames DEF Rec, Core
<1> HIDE DEF q
<1> QED BY <1>1, <1>2, CoreFits

\* The toolkit forgets an output that is removed: what was believed of a surface on another
\* one stays right, and no surface is believed to be on this one.
LEMMA RemovedIsProper ==
    ASSUME NEW o, SurfaceInv(o), Firm(o), NEW s \in o.connected
    PROVE  Proper(o, ScreenRemoved(o, s)) /\ ScreenRemoved(o, s).config = o.config
<1> DEFINE left == o.connected \ {s}
           Left(object) == IF object = s THEN Gone ELSE object
           screen == IF o.screen = s THEN FirstOf(left) ELSE o.screen
           chosen == Left(o.chosen)
           selected == Left(o.selected)
           placing == IF o.placing = NoPlacement \/ o.placing.object # s THEN o.placing
                      ELSE [o.placing EXCEPT !.object = Gone]
           native == IF o.native = NoSurface \/ o.native.output # s THEN o.native
                     ELSE [o.native EXCEPT !.output = IF o.native.layer THEN NoOutput ELSE FirstOf(left)]
           f == [o EXCEPT !.connected = left, !.screen = screen, !.chosen = chosen,
                          !.selected = selected, !.placing = placing, !.native = native]
           next == Preferred(f)
           waiting == IF f.pending = s THEN next ELSE f.pending
           r == [f EXCEPT !.pending = waiting]
           l == [r EXCEPT !.active = NoOutput, !.pending = next, !.state = "rebinding"]
           a == FreeForRebind(l)
           p == ScreenRemoved(o, s)
<1>1. Rec(o) /\ NativeOK(o) /\ o.connected \in SUBSET Outputs /\ SurfaceInv(p) /\ Closed(o)
  BY InvKnows, RemovedKeeps DEF SurfaceInv, Base
<1>2. s # NoOutput /\ s # Gone /\ NoOutput # Gone BY <1>1, OutputsAssumption
<1>3. p = OutputRemoved(f, s, next)
  <2> DEFINE F == [o EXCEPT
            !.connected = left,
            !.screen = IF @ = s THEN FirstOf(left) ELSE @,
            !.chosen = Left(@), !.selected = Left(@),
            !.placing = IF @ = NoPlacement \/ @.object # s THEN @
                       ELSE [@ EXCEPT !.object = Gone],
            !.native = IF @ = NoSurface \/ @.output # s THEN @
                       ELSE [@ EXCEPT !.output = IF o.native.layer THEN NoOutput ELSE FirstOf(left)]]
  <2>1. F = f BY DEF f, screen, chosen, selected, placing, native
  <2>2. ScreenRemoved(o, s) = OutputRemoved(F, s, Preferred(F)) BY DEF ScreenRemoved
  <2> HIDE DEF F
  <2> QED BY <2>1, <2>2 DEF next
<1>4. p = IF ~Layered(f) THEN f
          ELSE IF f.active # s \/ s = NoOutput THEN r
          ELSE IF Succeeded(a) THEN ScheduleRetry(a.o) ELSE Degraded(a).o
  BY <1>3 DEF OutputRemoved, r, l, a, waiting
<1>5. placing # NoPlacement =>
         o.placing # NoPlacement /\ placing.y = o.placing.y /\ placing.margin = o.placing.margin
  <2>1. CASE o.placing = NoPlacement \/ o.placing.object # s BY <2>1
  <2>2. CASE o.placing # NoPlacement /\ o.placing.object = s
    <3>1. placing = [o.placing EXCEPT !.object = Gone] BY <2>2
    <3> QED BY <2>2, <3>1
  <2> QED BY <2>1, <2>2
<1>6. /\ native = NoSurface \/ DOMAIN native = NativeFields
      /\ o.native = NoSurface <=> native = NoSurface
      /\ o.native # NoSurface => native.layer = o.native.layer /\ native.y = o.native.y
  BY <1>1, NoWindow DEF NativeOK, NativeFields
<1>7. chosen = o.chosen \/ chosen = Gone OBVIOUS
<1> HIDE DEF screen, chosen, selected, placing, native, p
<1>8. /\ Rec(f) /\ f.native = native /\ f.kind = o.kind /\ f.state = o.state
      /\ f.active = o.active /\ f.placing = placing /\ f.chosen = chosen
      /\ f.closing = o.closing /\ f.visible = o.visible /\ f.config = o.config
      /\ f.soon = o.soon /\ f.grab = o.grab /\ f.bad = o.bad
      /\ f.content = o.content /\ f.layer = o.layer /\ f.at = o.at
      /\ f.height = o.height /\ f.homeMargin = o.homeMargin /\ f.stroke = o.stroke
      /\ f.released = o.released /\ f.free = o.free
  BY <1>1, FieldNames DEF Rec
<1> HIDE DEF f
<1> HIDE DEF next, waiting
<1>9. /\ Rec(r) /\ r.native = native /\ r.kind = o.kind /\ r.state = o.state
      /\ r.active = o.active /\ r.placing = placing /\ r.chosen = chosen
      /\ r.closing = o.closing /\ r.visible = o.visible /\ r.config = o.config
      /\ r.soon = o.soon /\ r.grab = o.grab /\ r.bad = o.bad
      /\ r.content = o.content /\ r.layer = o.layer /\ r.at = o.at
      /\ r.height = o.height /\ r.homeMargin = o.homeMargin /\ r.stroke = o.stroke
      /\ r.released = o.released /\ r.free = o.free
  BY <1>8, FieldNames DEF Rec
<1> HIDE DEF r
<1>10. CASE ~Layered(f)
  <2>1. p = f BY <1>4, <1>10
  <2>2. Frame(f) = Frame(o) BY <1>8 DEF Frame
  <2>3. Firm(f) BY <1>5, <1>8 DEF Firm, Numbers
  <2>4. Tidy(o) => Tidy(f) BY <1>8, <1>10 DEF Tidy, DragsFrom, InPlace
  <2>5. Proper(o, p) /\ p.config = o.config
    BY <1>8, <2>1, <2>2, <2>3, <2>4 DEF Proper, SavesWell
  <2> QED BY <2>5 DEF p
<1>11. CASE Layered(f) /\ f.active # s
  <2>1. p = r /\ (Layered(r) <=> Layered(o)) BY <1>2, <1>4, <1>9, <1>11
    DEF Layered
  <2>2. Frame(r) = Frame(o) BY <1>9 DEF Frame
  <2>3. Firm(r) BY <1>5, <1>9 DEF Firm, Numbers
  <2>4. AsBelieved(r) => AsBelieved(o) /\ r.native.y = o.native.y
    BY <1>6, <1>7, <1>9 DEF AsBelieved, Firm
  <2>5. AsBelieved(r) /\ Known(o) => Known(r) BY <1>9, <2>4 DEF Known
  <2>6. InPlace(o) => InPlace(r) BY <2>1, <2>4, <2>5 DEF InPlace
  <2>7. DragsFrom(o) => DragsFrom(r) BY <1>9, <2>1 DEF DragsFrom
  <2>8. Tidy(o) => Tidy(r) BY <1>9, <2>6, <2>7 DEF Tidy
  <2>9. Proper(o, p) /\ p.config = o.config
    BY <1>9, <2>1, <2>2, <2>3, <2>8 DEF Proper, SavesWell
  <2> QED BY <2>9 DEF p
<1>12. CASE Layered(f) /\ f.active = s
  <2>1. /\ Rec(l) /\ l.native = native /\ l.kind = o.kind /\ l.state = "rebinding"
        /\ l.active = NoOutput /\ l.placing = placing
        /\ l.closing = o.closing /\ l.visible = o.visible /\ l.config = o.config
        /\ l.grab = o.grab /\ l.bad = o.bad
        /\ l.content = o.content /\ l.layer = o.layer /\ l.at = o.at
        /\ l.height = o.height /\ l.homeMargin = o.homeMargin
        /\ l.released = o.released /\ l.free = o.free
    BY <1>9, FieldNames DEF Rec
  <2> HIDE DEF l
  <2>2. NativeOK(l) /\ Frame(l) = Frame(o) BY <1>6, <2>1 DEF NativeOK, Frame
  <2>3. Firm(l) BY <1>2, <1>5, <2>1 DEF Firm, Numbers
  <2>4. Core(a.o) = Core(l) /\ Fits(l, a.o) BY <2>1, <2>2, FreeFits
  <2>5. /\ Result(a) /\ Rec(a.o) /\ NativeOK(a.o) /\ a.o.state = "rebinding"
    <3>1. Layered(l) /\ Hides(l) BY <1>1, <1>8, <1>12, <2>1 DEF Layered, Hides, SurfaceInv, Base
    <3> QED BY <2>1, <2>2, <3>1, FreeDoes
  <2> HIDE DEF a
  <2>6. Core(p) = Core(a.o) /\ Fits(a.o, p) /\ p.state # "active"
    BY <1>2, <1>4, <1>12, <2>5, ScheduleFits, DegradedFits
  <2>7. Frame(p) = Frame(o) /\ Firm(p) /\ p.config = o.config
    BY <2>1, <2>2, <2>3, <2>4, <2>6, SameCore DEF Fits
  <2>8. Tidy(o) => Tidy(p)
    <3>1. p.closing = o.closing BY <2>7, SameFrame
    <3>2. Closed(p) BY <1>1 DEF SurfaceInv, Base
    <3> QED BY <2>6, <3>1, <3>2, FreeIsTidy DEF Tidy
  <2>9. Proper(o, p) /\ p.config = o.config
    BY <2>7, <2>8 DEF Proper, SavesWell
  <2> QED BY <2>9 DEF p
<1> QED BY <1>10, <1>11, <1>12

\* An output that is added moves nothing.
LEMMA AddedIsProper ==
    ASSUME NEW o, SurfaceInv(o), Firm(o), NEW s \in Outputs \ o.connected
    PROVE  Proper(o, ScreenAdded(o, s)) /\ ScreenAdded(o, s).config = o.config
<1> DEFINE some == o.connected \cup {s}
           screen == IF o.connected = {} THEN s ELSE o.screen
           j == [o EXCEPT !.connected = some, !.screen = screen]
           next == Preferred(j)
           w == [j EXCEPT !.pending = next, !.state = "rebinding"]
           p == ScreenAdded(o, s)
<1>1. Rec(o) /\ SurfaceInv(p) BY InvKnows, AddedKeeps DEF SurfaceInv
<1>2. p = IF j.state \notin {"rebinding", "degraded"} THEN j ELSE ScheduleRetry(w)
  BY DEF ScreenAdded, OutputAdded, j, w, next, p
<1> HIDE DEF screen, some, p
<1>3. /\ Rec(j) /\ Core(j) = Core(o) /\ j.grab = o.grab /\ j.visible = o.visible
      /\ j.state = o.state /\ j.native = o.native /\ j.soon = o.soon
  BY <1>1, FieldNames DEF Rec, Core
<1> HIDE DEF j, next
<1>4. CASE j.state \notin {"rebinding", "degraded"}
  <2>1. Fits(o, j) BY <1>3, CoreFits
  <2>2. Tidy(o) => Tidy(j) BY <1>3, SameCore, SameIsTidy
  <2>3. Proper(o, p) /\ p.config = o.config
    BY <1>2, <1>3, <1>4, <2>1, <2>2, SameCore DEF Fits, Proper, SavesWell
  <2> QED BY <2>3 DEF p
<1>5. CASE j.state \in {"rebinding", "degraded"}
  <2>1. /\ Rec(w) /\ Core(w) = Core(j) /\ w.grab = j.grab /\ w.visible = j.visible
        /\ w.state = "rebinding"
    BY <1>3, FieldNames DEF Rec, Core
  <2> HIDE DEF w
  <2>2. Core(p) = Core(o) /\ p.grab = o.grab /\ p.visible = o.visible /\ p.state = "rebinding"
    BY <1>2, <1>3, <1>5, <2>1, ScheduleFits
  <2>3. Fits(o, p) BY <2>2, CoreFits
  <2>4. Tidy(o) => Tidy(p)
    <3>1. p.closing = o.closing BY <2>2, SameCore
    <3>2. Closed(p) BY <1>1 DEF SurfaceInv, Base
    <3> QED BY <2>2, <3>1, <3>2, FreeIsTidy DEF Tidy
  <2>5. Proper(o, p) /\ p.config = o.config
    BY <2>2, <2>3, <2>4, SameCore DEF Fits, Proper, SavesWell
  <2> QED BY <2>5 DEF p
<1> QED BY <1>4, <1>5

\* Shutting down shows and saves nothing, and where nothing fails it ends.
LEMMA ShutdownIsTidy ==
    ASSUME NEW o, SurfaceInv(o), o.begun, Firm(o)
    PROVE  LET p == Shutdown(o) IN
           /\ Firm(p) /\ p.config = o.config /\ Rec(p)
           /\ o.bad = {} /\ Tidy(o) => Tidy(p)
<1> DEFINE c == [o EXCEPT !.closing = TRUE, !.soon = FALSE, !.later = FALSE,
                          !.inputDue = FALSE, !.resize = FALSE]
           k == [c EXCEPT !.state = "closing", !.retry = FALSE, !.pending = NoOutput]
           s == ReleaseSurface(k)
           r == CloseAdapter(k)
           d == [r EXCEPT !.o.free = TRUE, !.o.active = NoOutput, !.o.state = "closed"]
           e == [r.o EXCEPT !.free = TRUE, !.active = NoOutput, !.state = "closed"]
           z == [e EXCEPT !.closed = TRUE, !.closing = FALSE]
           p == Shutdown(o)
<1>1. Rec(o) /\ Base(o) /\ NativeOK(o) /\ SurfaceInv(p) /\ NoOutput # Gone
  BY InvKnows, ShutdownKeeps, OutputsAssumption DEF SurfaceInv
<1>2. CASE o.closed BY <1>1, <1>2 DEF Shutdown
<1>3. CASE ~o.closed
  <2>1. o.state # "closed" /\ ~o.shut BY <1>1, <1>3 DEF Base, Closed
  <2>2. /\ Rec(k) /\ k.native = o.native /\ k.kind = o.kind /\ k.bad = o.bad
        /\ k.content = o.content /\ k.config = o.config /\ k.layer = o.layer
        /\ k.at = o.at /\ k.height = o.height /\ k.homeMargin = o.homeMargin
        /\ k.placing = o.placing /\ k.active = o.active /\ k.shut = o.shut
        /\ k.grab = o.grab /\ k.visible = o.visible /\ c.state = o.state
    BY <1>1, FieldNames DEF Rec
  <2>3. CloseLife(c) = IF Succeeded(r) THEN d ELSE r
    BY <2>1, <2>2 DEF CloseLife, r, d, k
  <2>4. p = IF Succeeded(CloseLife(c)) THEN [CloseLife(c).o EXCEPT !.closed = TRUE, !.closing = FALSE]
            ELSE CloseLife(c).o
    BY <1>3 DEF Shutdown, p, c
  <2> HIDE DEF k, p, c
  <2>5. NativeOK(k) /\ ~k.shut BY <1>1, <2>1, <2>2 DEF NativeOK
  <2>6. /\ Result(s) /\ Rec(s.o) /\ Core(s.o) = Core(k) /\ Fits(k, s.o)
        /\ k.bad = {} => s.is = "applied"
    BY <2>2, <2>5, ReleaseDoes, ReleaseFits DEF Like
  <2>7. /\ Result(r) /\ r.is = s.is
        /\ r.o = [s.o EXCEPT !.stroke = FALSE, !.shut = (s.is = "applied")]
    BY <2>2, <2>5, CloseIsRelease
  <2>8. Firm(k) BY <2>2 DEF Firm, Numbers
  <2> HIDE DEF s, r
  <2> DEFINE m == s.is = "applied"
             h == [s.o EXCEPT !.stroke = FALSE, !.shut = m]
  <2>9. r.o = h BY <2>7
  <2> HIDE DEF m
  <2>10. Firm(s.o) /\ s.o.config = o.config BY <2>2, <2>6, <2>8, SameCore DEF Fits
  <2>11. /\ Rec(h) /\ h.content = s.o.content /\ h.config = s.o.config /\ h.layer = s.o.layer
         /\ h.at = s.o.at /\ h.height = s.o.height /\ h.homeMargin = s.o.homeMargin
         /\ h.placing = s.o.placing /\ h.active = s.o.active
         /\ h.grab = s.o.grab /\ h.visible = s.o.visible
    BY <2>6, FieldNames DEF Rec
  <2> HIDE DEF h
  <2>12. Firm(h) BY <2>10, <2>11 DEF Firm, Numbers
  <2>13. d.o = e BY <2>7 DEF Result
  <2>14. Succeeded(d) <=> Succeeded(r) BY <2>7 DEF Result, Succeeded
  <2>15. /\ Rec(z) /\ z.content = h.content /\ z.config = h.config /\ z.layer = h.layer
         /\ z.at = h.at /\ z.height = h.height /\ z.homeMargin = h.homeMargin
         /\ z.placing = h.placing /\ z.active = NoOutput /\ z.closing = FALSE
         /\ z.grab = h.grab /\ z.visible = h.visible /\ z.closed = TRUE
    BY <2>9, <2>11, FieldNames DEF Rec
  <2>16. p = IF Succeeded(r) THEN z ELSE h
    BY <2>3, <2>4, <2>9, <2>13, <2>14
  <2> HIDE DEF z
  <2>17. Firm(z) BY <1>1, <2>12, <2>15 DEF Firm, Numbers
  <2>18. Firm(p) /\ p.config = o.config /\ Rec(p) BY <2>10, <2>11, <2>12, <2>15, <2>16, <2>17
  <2>19. ASSUME o.bad = {} PROVE Tidy(p)
    <3>1. p = z BY <2>2, <2>6, <2>7, <2>16, <2>19 DEF Succeeded
    <3>2. Closed(p) /\ ~p.closing /\ p.closed BY <1>1, <2>15, <3>1 DEF SurfaceInv, Base
    <3> QED BY <3>2, FreeIsTidy DEF Ending
  <2> QED BY <2>18, <2>19 DEF p
<1> QED BY <1>2, <1>3

\* Which calls fail is no part of the place either.
LEMMA BadIsTidy ==
    ASSUME NEW o, Rec(o), NEW bad
    PROVE  LET p == [o EXCEPT !.bad = bad] IN
           /\ Firm(o) <=> Firm(p)
           /\ Tidy(o) <=> Tidy(p)
           /\ Layered(o) <=> Layered(p)
           /\ SavedWell(o) <=> SavedWell(p)
           /\ p.bad = bad /\ p.config = o.config /\ p.closed = o.closed /\ p.closing = o.closing
           /\ p.visible = o.visible /\ p.grab = o.grab /\ p.begun = o.begun
           /\ p.connected = o.connected /\ p.passthrough = o.passthrough /\ p.soon = o.soon
           /\ p.later = o.later
<1> DEFINE p == [o EXCEPT !.bad = bad]
<1>1. /\ p.kind = o.kind /\ p.native = o.native /\ p.closing = o.closing
      /\ p.stroke = o.stroke /\ p.at = o.at /\ p.layer = o.layer /\ p.height = o.height
      /\ p.state = o.state /\ p.chosen = o.chosen /\ p.active = o.active /\ p.soon = o.soon
      /\ p.config = o.config /\ p.bad = bad /\ p.later = o.later
  BY FieldNames DEF Rec
<1>2. /\ p.content = o.content /\ p.homeMargin = o.homeMargin /\ p.placing = o.placing
      /\ p.closed = o.closed /\ p.visible = o.visible /\ p.grab = o.grab /\ p.begun = o.begun
      /\ p.connected = o.connected /\ p.passthrough = o.passthrough
  BY FieldNames DEF Rec
<1> HIDE DEF p
<1>3. Firm(o) <=> Firm(p) BY <1>1, <1>2 DEF Firm, Numbers
<1>4. Tidy(o) <=> Tidy(p) BY <1>1, SameIsTidy, Zenon
<1>5. Layered(o) <=> Layered(p) BY <1>1 DEF Layered
<1>6. SavedWell(o) <=> SavedWell(p)
  BY <1>1, <1>2 DEF SavedWell, AsBelieved, Ending, EdgeMargin
<1> QED BY <1>1, <1>2, <1>3, <1>4, <1>5, <1>6 DEF p

\* What may still fail is a number.
Budgeted ==
    /\ DOMAIN budget = {"faults", "events"}
    /\ budget.faults \in Int /\ budget.faults <= MaxFaults

\* The invariant of the place.
PlaceInv ==
    /\ SurfaceInv(overlay) /\ Firm(overlay) /\ overlay.bad = {} /\ Budgeted
    /\ budget.faults < MaxFaults \/ Tidy(overlay)

\* What a step spends.
LEMMA BudgetIsKept ==
    ASSUME Budgeted, NEW v \in {0, 1},
           \/ budget' = budget /\ v = 0
           \/ budget' = [budget EXCEPT !.events = @ - 1] /\ v = 0
           \/ budget' = [budget EXCEPT !.faults = @ - v]
           \/ budget' = [budget EXCEPT !.events = @ - 1, !.faults = @ - v]
    PROVE  /\ Budgeted'
           /\ ~(budget'.faults < MaxFaults) => ~(budget.faults < MaxFaults) /\ v = 0
<1> DEFINE faults == budget.faults - v
           events == budget.events - 1
<1>1. DOMAIN budget = {"faults", "events"} /\ budget.faults \in Int BY DEF Budgeted
<1>2. v = 0 => faults = budget.faults BY <1>1
<1>3. \/ budget' = budget /\ v = 0
      \/ budget' = [budget EXCEPT !.events = events] /\ v = 0
      \/ budget' = [budget EXCEPT !.faults = faults]
      \/ budget' = [budget EXCEPT !.events = events, !.faults = faults]
  OBVIOUS
<1> HIDE DEF faults, events
<1>4. DOMAIN budget' = DOMAIN budget /\ budget'.faults = faults BY <1>1, <1>2, <1>3
<1>5. DOMAIN budget' = DOMAIN budget /\ budget'.faults = budget.faults - v BY <1>4 DEF faults
<1> QED BY <1>5, BoundsAssumption DEF Budgeted

\* A call of the toolkit, and the calls of the bridge that fail in it.
LEMMA EventIsKept ==
    ASSUME NEW o, SurfaceInv(o), Firm(o), NEW bad, NEW p, SurfaceInv(p),
           Proper([o EXCEPT !.bad = bad], p)
    PROVE  LET q == [p EXCEPT !.bad = {}] IN
           /\ Firm(q) /\ q.bad = {} /\ SavesWell(o, q)
           /\ bad = {} /\ Tidy(o) => Tidy(q)
<1> DEFINE b == [o EXCEPT !.bad = bad]
           none == {}
           q == [p EXCEPT !.bad = none]
<1>1. Rec(o) /\ Rec(p) BY InvKnows DEF SurfaceInv
<1>2. /\ b.bad = bad /\ b.config = o.config /\ (Tidy(o) <=> Tidy(b))
  BY <1>1, BadIsTidy
<1>3. Proper(b, p) OBVIOUS
<1> HIDE DEF b, none
<1>4. /\ q.bad = none /\ q.config = p.config /\ (Tidy(p) <=> Tidy(q)) /\ (Firm(p) <=> Firm(q))
      /\ (Layered(p) <=> Layered(q)) /\ (SavedWell(p) <=> SavedWell(q))
  BY <1>1, BadIsTidy
<1> HIDE DEF q
<1>5. Firm(q) /\ (bad = {} /\ Tidy(o) => Tidy(q)) BY <1>2, <1>3, <1>4 DEF Proper
<1>6. SavesWell(o, q) BY <1>2, <1>3, <1>4 DEF Proper, SavesWell
<1> QED BY <1>4, <1>5, <1>6 DEF q, none

\* A failure is counted, and nothing else of it is left.
LEMMA FaultIsCounted ==
    ASSUME Budgeted, NEW bad,
           \/ budget' = [budget EXCEPT !.faults = IF bad = {} THEN @ ELSE @ - 1]
           \/ budget' = [budget EXCEPT !.events = @ - 1,
                                       !.faults = IF bad = {} THEN @ ELSE @ - 1]
    PROVE  /\ Budgeted'
           /\ ~(budget'.faults < MaxFaults) => ~(budget.faults < MaxFaults) /\ bad = {}
<1>1. PICK v \in {0, 1} : v = IF bad = {} THEN 0 ELSE 1 OBVIOUS
<1> DEFINE faults == IF bad = {} THEN budget.faults ELSE budget.faults - 1
           events == budget.events - 1
<1>2. DOMAIN budget = {"faults", "events"} /\ budget.faults \in Int BY DEF Budgeted
<1>3. faults = budget.faults - v BY <1>1, <1>2
<1>4. \/ budget' = [budget EXCEPT !.faults = faults]
      \/ budget' = [budget EXCEPT !.events = events, !.faults = faults]
  OBVIOUS
<1> HIDE DEF faults
<1>5. \/ budget' = [budget EXCEPT !.faults = @ - v]
      \/ budget' = [budget EXCEPT !.events = @ - 1, !.faults = @ - v]
  BY <1>3, <1>4
<1>6. Budgeted' /\ (~(budget'.faults < MaxFaults) => ~(budget.faults < MaxFaults) /\ v = 0)
  BY <1>5, BudgetIsKept, Zenon
<1> QED BY <1>1, <1>6

\* What a step does: it keeps what is firm, and while nothing fails what is tidy.
Stepped(o, p) ==
    /\ Firm(p) /\ p.bad = {} /\ SavesWell(o, p)
    /\ ~(budget'.faults < MaxFaults) => ~(budget.faults < MaxFaults) /\ (Tidy(o) => Tidy(p))
    /\ Budgeted'

\* A call in which the bridge may fail is such a step.
LEMMA EventIsStepped ==
    ASSUME PlaceInv, NEW bad, NEW p, SurfaceInv(p), Proper([overlay EXCEPT !.bad = bad], p),
           overlay' = [p EXCEPT !.bad = {}],
           budget' = [budget EXCEPT !.faults = IF bad = {} THEN @ ELSE @ - 1]
    PROVE  Stepped(overlay, overlay')
<1>1. SurfaceInv(overlay) /\ Firm(overlay) /\ Budgeted BY DEF PlaceInv
<1>2. /\ Budgeted'
      /\ ~(budget'.faults < MaxFaults) => ~(budget.faults < MaxFaults) /\ bad = {}
  BY <1>1, FaultIsCounted
<1> DEFINE q == [p EXCEPT !.bad = {}]
<1>3. /\ Firm(q) /\ q.bad = {} /\ SavesWell(overlay, q)
      /\ bad = {} /\ Tidy(overlay) => Tidy(q)
  BY <1>1, EventIsKept
<1>4. overlay' = q OBVIOUS
<1> HIDE DEF q
<1> QED BY <1>2, <1>3, <1>4 DEF Stepped

\* So is a call in which it does not.
LEMMA CallIsStepped ==
    ASSUME PlaceInv, Proper(overlay, overlay'),
           budget' = budget \/ budget' = [budget EXCEPT !.events = @ - 1]
    PROVE  Stepped(overlay, overlay')
<1>1. SurfaceInv(overlay) /\ Firm(overlay) /\ Budgeted /\ overlay.bad = {} BY DEF PlaceInv
<1>2. PICK v \in {0, 1} : v = 0 OBVIOUS
<1>3. Budgeted' /\ (~(budget'.faults < MaxFaults) => ~(budget.faults < MaxFaults) /\ v = 0)
  BY <1>1, <1>2, BudgetIsKept
<1>4. overlay'.bad = {} BY <1>1, SameFrame DEF Proper
<1> QED BY <1>1, <1>3, <1>4 DEF Stepped, Proper

\* Every event but a change of the settings is such a step.
LEMMA EventsAreStepped ==
    ASSUME PlaceInv, Next
    PROVE  Stepped(overlay, overlay') \/ SettingsApplied
<1>1. /\ SurfaceInv(overlay) /\ Firm(overlay) /\ Rec(overlay) /\ Closed(overlay)
      /\ overlay.bad = {} /\ Budgeted
      /\ overlay.dragging \/ overlay.soon \/ overlay.later => overlay.begun
  BY InvKnows DEF PlaceInv, SurfaceInv, Base
<1>2. ASSUME NEW bad
      PROVE  LET o == [overlay EXCEPT !.bad = bad] IN
             /\ SurfaceInv(o) /\ Firm(o) /\ o.visible = overlay.visible
             /\ o.begun = overlay.begun /\ o.connected = overlay.connected
             /\ (Ending(o) <=> Ending(overlay))
  BY <1>1, BadIsQuiet, BadIsTidy DEF Ending
<1>3. CASE Start
  <2>1. PICK bad :
           /\ overlay' = [Show(Activate([[overlay EXCEPT !.bad = bad] EXCEPT !.begun = TRUE]))
                            EXCEPT !.bad = {}]
           /\ budget' = [budget EXCEPT !.faults = IF bad = {} THEN @ ELSE @ - 1]
    BY <1>3 DEF Start, Event
  <2> DEFINE o == [overlay EXCEPT !.bad = bad]
             p == Show(Activate([o EXCEPT !.begun = TRUE]))
  <2>2. SurfaceInv(o) /\ Firm(o) /\ ~o.begun BY <1>2, <1>3 DEF Start
  <2> HIDE DEF o
  <2>3. SurfaceInv(p) /\ Proper(o, p) BY <2>2, BeginKeeps, BeginIsProper
  <2>4. overlay' = [p EXCEPT !.bad = {}] BY <2>1 DEF o
  <2> HIDE DEF p
  <2>5. Proper([overlay EXCEPT !.bad = bad], p) BY <2>3 DEF o
  <2> QED BY <2>1, <2>3, <2>4, <2>5, EventIsStepped, Zenon
<1>4. CASE ActivationTimer
  <2>1. PICK bad :
           /\ overlay' = [Activate([[overlay EXCEPT !.bad = bad] EXCEPT !.soon = FALSE])
                            EXCEPT !.bad = {}]
           /\ budget' = [budget EXCEPT !.faults = IF bad = {} THEN @ ELSE @ - 1]
    BY <1>4 DEF ActivationTimer, Event
  <2> DEFINE o == [overlay EXCEPT !.bad = bad]
             p == Activate([o EXCEPT !.soon = FALSE])
  <2>2. SurfaceInv(o) /\ Firm(o) /\ o.begun /\ ~Ending(o) BY <1>1, <1>2, <1>4 DEF ActivationTimer, Closed
  <2> HIDE DEF o
  <2>3. SurfaceInv(p) /\ Proper(o, p) BY <2>2, TimersKeep, TimersAreProper
  <2>4. overlay' = [p EXCEPT !.bad = {}] BY <2>1 DEF o
  <2> HIDE DEF p
  <2>5. Proper([overlay EXCEPT !.bad = bad], p) BY <2>3 DEF o
  <2> QED BY <2>1, <2>3, <2>4, <2>5, EventIsStepped, Zenon
<1>5. CASE ActivationRetryTimer
  <2>1. PICK bad :
           /\ overlay' = [Activate([[overlay EXCEPT !.bad = bad] EXCEPT !.later = FALSE])
                            EXCEPT !.bad = {}]
           /\ budget' = [budget EXCEPT !.faults = IF bad = {} THEN @ ELSE @ - 1]
    BY <1>5 DEF ActivationRetryTimer, Event
  <2> DEFINE o == [overlay EXCEPT !.bad = bad]
             p == Activate([o EXCEPT !.later = FALSE])
  <2>2. SurfaceInv(o) /\ Firm(o) /\ o.begun /\ ~Ending(o) BY <1>1, <1>2, <1>5 DEF ActivationRetryTimer, Closed
  <2> HIDE DEF o
  <2>3. SurfaceInv(p) /\ Proper(o, p) BY <2>2, TimersKeep, TimersAreProper
  <2>4. overlay' = [p EXCEPT !.bad = {}] BY <2>1 DEF o
  <2> HIDE DEF p
  <2>5. Proper([overlay EXCEPT !.bad = bad], p) BY <2>3 DEF o
  <2> QED BY <2>1, <2>3, <2>4, <2>5, EventIsStepped, Zenon
<1>6. CASE GeometryTimer
  <2>1. PICK bad :
           /\ overlay' = [RefreshGeometry([[overlay EXCEPT !.bad = bad] EXCEPT !.resize = FALSE])
                            EXCEPT !.bad = {}]
           /\ budget' = [budget EXCEPT !.faults = IF bad = {} THEN @ ELSE @ - 1]
    BY <1>6 DEF GeometryTimer, Event
  <2> DEFINE o == [overlay EXCEPT !.bad = bad]
             p == RefreshGeometry([o EXCEPT !.resize = FALSE])
  <2>2. SurfaceInv(o) /\ Firm(o) BY <1>2
  <2> HIDE DEF o
  <2>3. SurfaceInv([o EXCEPT !.resize = FALSE]) BY <2>2, QuietKeeps
  <2>4. SurfaceInv(p) BY <2>3, GeometryKeeps
  <2>5. Proper(o, p) BY <2>2, GeometryIsProper
  <2>6. overlay' = [p EXCEPT !.bad = {}] BY <2>1 DEF o
  <2> HIDE DEF p
  <2>7. Proper([overlay EXCEPT !.bad = bad], p) BY <2>5 DEF o
  <2> QED BY <2>1, <2>4, <2>6, <2>7, EventIsStepped, Zenon
<1>7. CASE InputTimer
  <2>1. PICK bad :
           LET o == [overlay EXCEPT !.bad = bad]
           IN  /\ overlay' = [(IF Ending(o) THEN [o EXCEPT !.inputDue = FALSE]
                               ELSE SetInputMode([o EXCEPT !.inputDue = FALSE], o.passthrough).o)
                                 EXCEPT !.bad = {}]
               /\ budget' = [budget EXCEPT !.faults = IF bad = {} THEN @ ELSE @ - 1]
    BY <1>7 DEF InputTimer, Event
  <2> DEFINE o == [overlay EXCEPT !.bad = bad]
             e == [o EXCEPT !.inputDue = FALSE]
             p == IF Ending(o) THEN e ELSE SetInputMode(e, o.passthrough).o
  <2>2. SurfaceInv(o) /\ Firm(o) BY <1>2
  <2>3. overlay' = [p EXCEPT !.bad = {}] BY <2>1
  <2> HIDE DEF o
  <2>4. SurfaceInv(e) BY <2>2, QuietKeeps
  <2>5. e.passthrough = o.passthrough BY <2>2, InvKnows, FieldNames DEF SurfaceInv, Rec
  <2>6. Proper(o, p) BY <2>2, InputIsProper
  <2> HIDE DEF e
  <2>7. SurfaceInv(p) BY <2>4, <2>5, InputKeeps
  <2> HIDE DEF p
  <2>8. Proper([overlay EXCEPT !.bad = bad], p) BY <2>6 DEF o
  <2> QED BY <2>1, <2>3, <2>7, <2>8, EventIsStepped, Zenon
<1>8. CASE ClickTimer
  <2>1. overlay' = [overlay EXCEPT !.suppress = FALSE] /\ budget' = budget
    BY <1>8 DEF ClickTimer
  <2>2. PICK v \in BOOLEAN : v = FALSE OBVIOUS
  <2> DEFINE p == [overlay EXCEPT !.suppress = v]
  <2>3. Still(overlay, p) BY <1>1, InvKnows, EditsAreStill DEF SurfaceInv
  <2>4. overlay' = p BY <2>1, <2>2
  <2> HIDE DEF p
  <2>5. Proper(overlay, p) BY <1>1, <2>3, StillIsProper
  <2> QED BY <2>1, <2>4, <2>5, CallIsStepped
<1>9. CASE RetryTimer
  <2>1. PICK bad :
           LET o == [overlay EXCEPT !.bad = bad]
           IN  /\ overlay' = [(IF Closing(o) THEN [o EXCEPT !.retry = FALSE]
                               ELSE AttemptRebind([o EXCEPT !.retry = FALSE], FALSE).o)
                                 EXCEPT !.bad = {}]
               /\ budget' = [budget EXCEPT !.faults = IF bad = {} THEN @ ELSE @ - 1]
    BY <1>9 DEF RetryTimer, Event
  <2> DEFINE o == [overlay EXCEPT !.bad = bad]
             p == IF Closing(o) THEN [o EXCEPT !.retry = FALSE]
                  ELSE AttemptRebind([o EXCEPT !.retry = FALSE], FALSE).o
  <2>2. SurfaceInv(o) /\ Firm(o) /\ o.retry BY <1>1, <1>2, <1>9, BadIsQuiet DEF RetryTimer
  <2>3. overlay' = [p EXCEPT !.bad = {}] BY <2>1
  <2> HIDE DEF o
  <2>4. SurfaceInv(p) /\ Proper(o, p) BY <2>2, RetryKeeps, RetryIsProper
  <2> HIDE DEF p
  <2>5. Proper([overlay EXCEPT !.bad = bad], p) BY <2>4 DEF o
  <2> QED BY <2>1, <2>3, <2>4, <2>5, EventIsStepped, Zenon
<1>10. CASE PressPanel
  <2>1. overlay' = Press(overlay) /\ overlay.visible /\ budget' = [budget EXCEPT !.events = @ - 1]
    BY <1>10 DEF PressPanel, Usable, Spend
  <2>2. Proper(overlay, overlay') BY <1>1, <2>1, PressIsProper
  <2> QED BY <2>1, <2>2, CallIsStepped
<1>11. CASE DragMove
  <2> PICK d \in {-1, 1} :
         \E bad :
            LET o == [overlay EXCEPT !.bad = bad]
            IN  /\ overlay' = [(IF Target(o) = NoOutput THEN Aimed(o) ELSE Drag(Aimed(o), d))
                                 EXCEPT !.bad = {}]
                /\ budget' = [budget EXCEPT !.faults = IF bad = {} THEN @ ELSE @ - 1]
    BY <1>11 DEF DragMove, Event
  <2>1. PICK bad :
           LET o == [overlay EXCEPT !.bad = bad]
           IN  /\ overlay' = [(IF Target(o) = NoOutput THEN Aimed(o) ELSE Drag(Aimed(o), d))
                                EXCEPT !.bad = {}]
               /\ budget' = [budget EXCEPT !.faults = IF bad = {} THEN @ ELSE @ - 1]
    OBVIOUS
  <2> DEFINE o == [overlay EXCEPT !.bad = bad]
             p == IF Target(o) = NoOutput THEN Aimed(o) ELSE Drag(Aimed(o), d)
  <2>2. SurfaceInv(o) /\ Firm(o) /\ d \in Int BY <1>2
  <2>3. overlay' = [p EXCEPT !.bad = {}] BY <2>1
  <2> HIDE DEF o
  <2>4. SurfaceInv(p) /\ Proper(o, p) BY <2>2, DragMoveKeeps, DragMoveIsProper
  <2> HIDE DEF p
  <2>5. Proper([overlay EXCEPT !.bad = bad], p) BY <2>4 DEF o
  <2> QED BY <2>1, <2>3, <2>4, <2>5, EventIsStepped, Zenon
<1>12. CASE Release
  <2> PICK cursor \in overlay.connected :
         \E bad : /\ overlay' = [FinishDrag([overlay EXCEPT !.bad = bad], cursor) EXCEPT !.bad = {}]
                  /\ budget' = [budget EXCEPT !.faults = IF bad = {} THEN @ ELSE @ - 1]
    BY <1>12 DEF Release, Event
  <2>1. PICK bad : /\ overlay' = [FinishDrag([overlay EXCEPT !.bad = bad], cursor) EXCEPT !.bad = {}]
                   /\ budget' = [budget EXCEPT !.faults = IF bad = {} THEN @ ELSE @ - 1]
    OBVIOUS
  <2> DEFINE o == [overlay EXCEPT !.bad = bad]
             p == FinishDrag(o, cursor)
  <2>2. SurfaceInv(o) /\ Firm(o) /\ o.begun /\ o.visible /\ cursor \in o.connected
    BY <1>1, <1>2, <1>12 DEF Release, Firm
  <2>3. overlay' = [p EXCEPT !.bad = {}] BY <2>1
  <2> HIDE DEF o
  <2>4. SurfaceInv(p) /\ Proper(o, p) BY <2>2, FinishKeeps, FinishIsProper
  <2> HIDE DEF p
  <2>5. Proper([overlay EXCEPT !.bad = bad], p) BY <2>4 DEF o
  <2> QED BY <2>1, <2>3, <2>4, <2>5, EventIsStepped, Zenon
<1>13. CASE LockClicked
  <2>1. PICK cursor \in overlay.connected :
           /\ overlay' = ClickLock(overlay, cursor)
           /\ budget' = [budget EXCEPT !.events = @ - 1]
    BY <1>13 DEF LockClicked, Spend
  <2>2. overlay.begun /\ overlay.visible BY <1>13 DEF LockClicked, Usable
  <2>3. Proper(overlay, overlay') BY <1>1, <2>1, <2>2, ClickIsProper
  <2> QED BY <2>1, <2>3, CallIsStepped
<1>14. CASE TrayToggled
  <2>1. overlay' = Toggle(overlay) /\ budget' = [budget EXCEPT !.events = @ - 1]
    BY <1>14 DEF TrayToggled, Spend
  <2>2. Proper(overlay, overlay') BY <1>1, <2>1, ToggleIsProper
  <2> QED BY <2>1, <2>2, CallIsStepped
<1>15. CASE FrameShown
  <2>1. PICK h \in Heights \cup {overlay.content} : overlay' = OnFrame(overlay, h)
    BY <1>15 DEF FrameShown
  <2>2. budget' = budget \/ budget' = [budget EXCEPT !.events = @ - 1]
    BY <1>15 DEF FrameShown, Spend
  <2>3. h \in Nat BY <1>1, PixelsAssumption DEF Firm, Numbers
  <2>4. Firm(overlay') /\ (Tidy(overlay) => Tidy(overlay')) /\ overlay'.config = overlay.config
    BY <1>1, <2>1, <2>3, FrameIsProper
  <2>5. overlay'.bad = {} BY <1>1, <2>1, FieldNames DEF OnFrame, Rec
  <2>6. PICK v \in {0, 1} : v = 0 OBVIOUS
  <2>7. Budgeted' /\ (~(budget'.faults < MaxFaults) => ~(budget.faults < MaxFaults) /\ v = 0)
    BY <1>1, <2>2, <2>6, BudgetIsKept
  <2> QED BY <2>4, <2>5, <2>7 DEF Stepped, SavesWell
<1>16. CASE Unplugged
  <2>1. PICK s \in overlay.connected : overlay' = ScreenRemoved(overlay, s)
    BY <1>16 DEF Unplugged
  <2>2. budget' = [budget EXCEPT !.events = @ - 1] BY <1>16 DEF Unplugged, Spend
  <2>3. Proper(overlay, overlay') BY <1>1, <2>1, RemovedIsProper
  <2> QED BY <2>2, <2>3, CallIsStepped
<1>17. CASE Plugged
  <2>1. PICK s \in Outputs \ overlay.connected : overlay' = ScreenAdded(overlay, s)
    BY <1>17 DEF Plugged
  <2>2. budget' = budget BY <1>17 DEF Plugged
  <2>3. Proper(overlay, overlay') BY <1>1, <2>1, AddedIsProper
  <2> QED BY <2>2, <2>3, CallIsStepped
<1>18. CASE ShutDown
  <2>1. PICK bad :
           /\ overlay' = [Shutdown([overlay EXCEPT !.bad = bad]) EXCEPT !.bad = {}]
           /\ budget' = [budget EXCEPT !.events = @ - 1,
                                       !.faults = IF bad = {} THEN @ ELSE @ - 1]
    BY <1>18 DEF ShutDown
  <2> DEFINE o == [overlay EXCEPT !.bad = bad]
             p == Shutdown(o)
  <2>2. /\ Budgeted'
        /\ ~(budget'.faults < MaxFaults) => ~(budget.faults < MaxFaults) /\ bad = {}
    BY <1>1, <2>1, FaultIsCounted
  <2>3. SurfaceInv(o) /\ Firm(o) /\ o.begun BY <1>2, <1>18 DEF ShutDown
  <2>4. o.bad = bad /\ o.config = overlay.config /\ (Tidy(overlay) <=> Tidy(o))
    BY <1>1, BadIsTidy
  <2> HIDE DEF o
  <2>5. Firm(p) /\ p.config = o.config /\ Rec(p) /\ (o.bad = {} /\ Tidy(o) => Tidy(p))
    BY <2>3, ShutdownIsTidy
  <2> DEFINE none == {}
             q == [p EXCEPT !.bad = none]
  <2>6. overlay' = q BY <2>1 DEF o
  <2> HIDE DEF p, none
  <2>7. /\ q.bad = none /\ q.config = p.config /\ (Firm(p) <=> Firm(q)) /\ (Tidy(p) <=> Tidy(q))
    BY <2>5, BadIsTidy
  <2> HIDE DEF q
  <2>8. Firm(q) /\ q.bad = {} /\ q.config = overlay.config
        /\ (bad = {} /\ Tidy(overlay) => Tidy(q))
    BY <2>4, <2>5, <2>7 DEF none
  <2> QED BY <2>2, <2>6, <2>8 DEF Stepped, SavesWell
<1>19. CASE SettingsApplied BY <1>19
<1> QED
  BY <1>3, <1>4, <1>5, <1>6, <1>7, <1>8, <1>9, <1>10, <1>11, <1>12, <1>13, <1>14, <1>15,
     <1>16, <1>17, <1>18, <1>19 DEF Next, Timers

\* New settings save a margin without a drag, and the window is placed by them.
LEMMA SettingsAreStepped ==
    ASSUME PlaceInv, SettingsApplied
    PROVE  /\ Firm(overlay') /\ overlay'.bad = {} /\ Budgeted'
           /\ ~(budget'.faults < MaxFaults) =>
                ~(budget.faults < MaxFaults) /\ (Tidy(overlay) => Tidy(overlay'))
<1>1. SurfaceInv(overlay) /\ Firm(overlay) /\ overlay.bad = {} /\ Budgeted BY DEF PlaceInv
<1>2. PICK top \in BOOLEAN, margin \in Margins :
         overlay' = Activate(ApplyConfig([overlay EXCEPT !.config.top = top,
                                                         !.config.margin = margin]))
  BY DEF SettingsApplied
<1>3. /\ overlay.begun /\ ~overlay.grab /\ budget' = [budget EXCEPT !.events = @ - 1]
      /\ margin \in Int
  BY PixelsAssumption DEF SettingsApplied, Spend
<1>4. Firm(overlay') /\ Frame(overlay') = Frame(overlay) /\ (Tidy(overlay) => Tidy(overlay'))
  BY <1>1, <1>2, <1>3, SettingsAreProper
<1>5. PICK v \in {0, 1} : v = 0 OBVIOUS
<1>6. Budgeted' /\ (~(budget'.faults < MaxFaults) => ~(budget.faults < MaxFaults) /\ v = 0)
  BY <1>1, <1>3, <1>5, BudgetIsKept
<1> QED BY <1>1, <1>4, <1>6, SameFrame

\* The window is built where its configuration says, and has no surface yet.
LEMMA BuiltIsTidy ==
    ASSUME NEW session, NEW config \in Configs
    PROVE  LET o == Built(session, config) IN Firm(o) /\ Tidy(o) /\ o.bad = {}
<1> DEFINE kind == Selected(session)
           height == CHOOSE h \in Heights : \A i \in Heights : h <= i
           screen == FirstOf(Outputs)
           b == [kind |-> kind, bad |-> {}, released |-> FALSE, shut |-> FALSE,
                 native |-> NoSurface, visible |-> FALSE, grab |-> FALSE, stroke |-> FALSE, at |-> 0,
                 state |-> "prepared", active |-> NoOutput, pending |-> NoOutput, free |-> FALSE,
                 retry |-> FALSE,
                 layer |-> 0, chosen |-> NoOutput, selected |-> NoOutput, placing |-> NoPlacement,
                 keep |-> FALSE, home |-> config.screen, homeMargin |-> NoMargin,
                 locked |-> config.passthrough, sure |-> FALSE, region |-> <<"all">>, rejected |-> 0,
                 height |-> 0, content |-> height,
                 dragging |-> FALSE, moved |-> FALSE, applied |-> TRUE,
                 passthrough |-> config.passthrough, closed |-> FALSE, closing |-> FALSE,
                 soon |-> FALSE, later |-> FALSE, inputDue |-> FALSE, resize |-> FALSE,
                 suppress |-> FALSE, config |-> config, screen |-> screen,
                 connected |-> Outputs, begun |-> FALSE]
           p == ApplyConfig(b)
<1>1. Built(session, config) = p BY DEF Built, b, kind, height, screen, p
<1>2. height \in Nat
  <2>1. \E m \in Heights : \A n \in Heights : m <= n BY PixelsAssumption, LeastNatural
  <2>2. height \in Heights BY <2>1
  <2> QED BY <2>2, PixelsAssumption
<1> HIDE DEF kind, height, screen
<1>3. Rec(b) BY DEF Rec, Fields
<1>4. /\ b.native = NoSurface /\ b.bad = {} /\ b.closing = FALSE /\ b.closed = FALSE
      /\ b.state = "prepared" /\ b.active = NoOutput /\ b.grab = FALSE
      /\ b.placing = NoPlacement /\ b.config = config /\ b.homeMargin = NoMargin
      /\ b.layer = 0 /\ b.at = 0 /\ b.height = 0 /\ b.content = height
      /\ b.connected = Outputs
  OBVIOUS
<1> HIDE DEF b
<1>5. NativeOK(b) BY <1>4 DEF NativeOK
<1>6. Firm(b) BY <1>2, <1>4, ConfigsAssumption, OutputsAssumption DEF Firm, Numbers
<1>7. Fits(b, p) BY <1>3, <1>5, ConfigDoes
<1>8. Calm(b, p) BY <1>3, <1>4, <1>5, ConfigIsCalm
<1> HIDE DEF p
<1>9. Firm(p) /\ p.bad = {} /\ p.closing = FALSE BY <1>4, <1>6, <1>7, SameFrame DEF Fits
<1>10. p.state = "prepared" BY <1>4, <1>8, SameLife DEF Calm
<1>11. SurfaceInv(p) BY <1>1, BuiltKeeps
<1>12. Tidy(p) BY <1>9, <1>10, <1>11, FreeIsTidy DEF SurfaceInv, Base
<1> QED BY <1>1, <1>9, <1>12

-------------------------------------------------------------------------------
(* The theorems about the place.                                           *)

\* The invariant of the place holds in the beginning and after every event.
LEMMA PlaceIsKept ==
    /\ Init => PlaceInv
    /\ PlaceInv /\ [Next]_vars => PlaceInv'
<1>1. ASSUME Init PROVE PlaceInv
  <2>1. PICK session \in Sessions, config \in Configs : overlay = Built(session, config) BY <1>1 DEF Init
  <2>2. SurfaceInv(overlay) /\ Firm(overlay) /\ Tidy(overlay) /\ overlay.bad = {}
    BY <2>1, BuiltKeeps, BuiltIsTidy
  <2>3. Budgeted BY <1>1, BoundsAssumption DEF Init, Budgeted
  <2> QED BY <2>2, <2>3 DEF PlaceInv
<1>2. ASSUME PlaceInv, [Next]_vars PROVE PlaceInv'
  <2>1. SurfaceInv(overlay') BY <1>2, NextKeeps DEF PlaceInv
  <2>2. CASE UNCHANGED vars BY <1>2, <2>2 DEF PlaceInv, Budgeted, vars
  <2>3. CASE Next
    <3>1. /\ Firm(overlay') /\ overlay'.bad = {} /\ Budgeted'
          /\ ~(budget'.faults < MaxFaults) =>
               ~(budget.faults < MaxFaults) /\ (Tidy(overlay) => Tidy(overlay'))
      BY <1>2, <2>3, EventsAreStepped, SettingsAreStepped DEF Stepped
    <3> QED BY <1>2, <2>1, <3>1 DEF PlaceInv
  <2> QED BY <1>2, <2>2, <2>3
<1> QED BY <1>1, <1>2

\* While nothing failed, an active layer surface is where the next drag will start from,
\* whatever the outputs, the content and the settings do, and in whatever order (drag.py,
\* geometry.py, position.py, surface_lifecycle.py).
THEOREM PlaceIsAlwaysKnown == Spec => []PlaceIsKnown
<1>1. PlaceInv => PlaceIsKnown
  BY DEF PlaceInv, Tidy, InPlace, PlaceIsKnown
<1>2. Spec => []PlaceInv BY PlaceIsKept, PTL DEF Spec
<1> QED BY <1>1, <1>2, PTL

\* What a drag or a rebuild saves is the place its surface is at, on the output it is on,
\* whichever calls fail (surface.py, drag.py).
THEOREM OnlyShownPlacesAreEverSaved == Spec => OnlyShownPlacesAreSaved
<1> DEFINE Saves ==
        LET now == overlay'
        IN  /\ now.config.screen # overlay.config.screen \/ now.config.margin # overlay.config.margin
            /\ now.config.top = overlay.config.top /\ Layered(now) /\ ~SettingsApplied
            => /\ now.visible
               /\ AsBelieved(now) =>
                    /\ now.native.output = now.config.screen
                    /\ \/ now.soon \/ Ending(now)
                       \/ now.config.margin = EdgeMargin(now, now.native.y)
<1>1. PlaceInv /\ PlaceInv' /\ [Next]_vars => [Saves]_vars
  <2> SUFFICES ASSUME PlaceInv, PlaceInv', Next, ~SettingsApplied PROVE Saves
    OBVIOUS
  <2>1. SavesWell(overlay, overlay') BY EventsAreStepped DEF Stepped
  <2>2. SurfaceInv(overlay') BY DEF PlaceInv
  <2>3. ASSUME Layered(overlay'), AsBelieved(overlay'), SavedWell(overlay')
        PROVE  overlay'.native.output = overlay'.config.screen
    BY <2>2, <2>3 DEF SavedWell, AsBelieved, SurfaceInv, Shown
  <2> QED BY <2>1, <2>3 DEF SavesWell, SavedWell
<1>2. Spec => []PlaceInv BY PlaceIsKept, PTL DEF Spec
<1> QED BY <1>1, <1>2, PTL DEF Spec, OnlyShownPlacesAreSaved

===============================================================================
