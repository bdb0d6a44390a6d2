------------------------------ MODULE AppLifecycle ------------------------------
(***************************************************************************)
(* Instances of the application (src/kotonoha/main.py) and the life of     *)
(* what their controller owns (src/kotonoha/app/application_controller.py): *)
(* an instance takes the lock of the single instance, builds its           *)
(* components, starts them in order, and stops them in another order, also *)
(* when starting one fails or is cancelled.  The settings dialog restarts  *)
(* the application by launching a replacement and quitting.                *)
(***************************************************************************)
EXTENDS Naturals, Sequences

CONSTANTS
    Instances,      \* processes that may be launched
    NoInstance

ASSUME InstancesAssumption == NoInstance \notin Instances

VARIABLES
    phase,          \* where an instance is in its life
    place,          \* the component to start or stop next
    running,        \* the components that run
    stuck,          \* history: the components that failed to stop and were passed over
    escaped,        \* history: the last stop ended with an exception nobody expects
    lock,           \* the holder of the single-instance lock
    restarting      \* history: a restart that no replacement has answered yet

appVars == <<phase, place, running, stuck, escaped, lock, restarting>>
componentVars == <<place, running, stuck, escaped>>

StartOrder == <<"surface", "display", "search", "receiver", "cider", "mpris">>

\* Mutant: the surface is released before the producers.
SurfaceFirst ==
    <<"search", "surface", "mpris", "cider", "receiver", "display", "offsets", "config">>

StopOrder ==
    <<"search", "mpris", "cider", "receiver", "display", "surface", "offsets", "config">>

\* The services that the build creates, and that need no start.
Services == {"offsets", "config"}

Producers == {"receiver", "cider", "mpris"}
AppInit ==
    /\ phase = [i \in Instances |-> "absent"]
    /\ place = [i \in Instances |-> 1]
    /\ running = [i \in Instances |-> {}]
    /\ stuck = [i \in Instances |-> {}]
    /\ escaped = [i \in Instances |-> FALSE]
    /\ lock = NoInstance
    /\ restarting = FALSE

Enter(i, p) == phase' = [phase EXCEPT ![i] = p]

-------------------------------------------------------------------------------
(* The process.                                                            *)

Launch(i) ==
    /\ phase[i] = "absent"
    /\ Enter(i, "launched")
    /\ UNCHANGED <<componentVars, lock, restarting>>

\* An instance that finds the lock taken ends at once.
TakeLock(i) ==
    /\ phase[i] = "launched"
    /\ IF lock = NoInstance
       THEN Enter(i, "building") /\ lock' = i /\ restarting' = FALSE
       ELSE Enter(i, "exited") /\ UNCHANGED <<lock, restarting>>
    /\ UNCHANGED componentVars

\* The build reads the stored state and creates the graph, or fails.
Build(i) ==
    /\ phase[i] = "building"
    /\ \/ Enter(i, "starting") /\ running' = [running EXCEPT ![i] = Services]
       \/ Enter(i, "leaving") /\ UNCHANGED running
    /\ UNCHANGED <<place, stuck, escaped, lock, restarting>>

\* Nothing remains of the components of a process that has ended.
Vanish(i) ==
    /\ place' = [place EXCEPT ![i] = 1]
    /\ running' = [running EXCEPT ![i] = {}]
    /\ stuck' = [stuck EXCEPT ![i] = {}]
    /\ escaped' = [escaped EXCEPT ![i] = FALSE]

\* The process returns from its entry point and the lock is released.
Leave(i) ==
    /\ phase[i] = "leaving"
    /\ Enter(i, "exited")
    /\ Vanish(i)
    /\ lock' = NoInstance
    /\ UNCHANGED restarting

\* It is killed; the lock of a process that no longer exists is stale.
Killed(i) ==
    /\ phase[i] \notin {"absent", "exited"}
    /\ Enter(i, "exited") /\ Vanish(i)
    /\ lock' = IF lock = i THEN NoInstance ELSE lock
    /\ restarting' = FALSE

-------------------------------------------------------------------------------
(* The controller.                                                         *)

\* Mutant: a start that fails ends the process without a stop.
BeginStopLeaves(i) ==
    /\ Enter(i, "leaving")
    /\ place' = [place EXCEPT ![i] = 1]

\* Everything is stopped, from the first of the stop order: by start() itself when it
\* does not succeed, and by stop() otherwise.
BeginStop(i) ==
    /\ Enter(i, IF phase[i] = "starting" THEN "aborting" ELSE "stopping")
    /\ place' = [place EXCEPT ![i] = 1]

Stops(i) == phase[i] \in {"aborting", "stopping"}

Started(i, c) == running' = [running EXCEPT ![i] = @ \cup {c}]

\* The next component starts.
StartComponent(i) ==
    /\ phase[i] = "starting" /\ place[i] \in DOMAIN StartOrder
    /\ Started(i, StartOrder[place[i]])
    /\ place' = [place EXCEPT ![i] = @ + 1]
    /\ UNCHANGED <<phase, stuck, escaped, lock, restarting>>

\* It fails, perhaps half started: a producer may be done without; otherwise
\* the failure ends the start and stops what has started.
StartFails(i) ==
    /\ phase[i] = "starting" /\ place[i] \in DOMAIN StartOrder
    /\ LET c == StartOrder[place[i]] IN
        /\ Started(i, c) \/ UNCHANGED running
        /\ \/ c \in Producers /\ place' = [place EXCEPT ![i] = @ + 1] /\ UNCHANGED phase
           \/ BeginStop(i)
    /\ UNCHANGED <<stuck, escaped, lock, restarting>>

StartEnds(i) ==
    /\ phase[i] = "starting" /\ place[i] \notin DOMAIN StartOrder
    /\ Enter(i, "up")
    /\ UNCHANGED <<componentVars, lock, restarting>>

\* The next component stops.
StopComponent(i) ==
    /\ Stops(i) /\ place[i] \in DOMAIN StopOrder
    /\ running' = [running EXCEPT ![i] = @ \ {StopOrder[place[i]]}]
    /\ stuck' = [stuck EXCEPT ![i] = @ \ {StopOrder[place[i]]}]
    /\ place' = [place EXCEPT ![i] = @ + 1]
    /\ UNCHANGED <<phase, escaped, lock, restarting>>

\* Stopping it fails in a way that is expected (five types of exceptions); the rest is
\* stopped all the same.
StopFails(i) ==
    /\ Stops(i) /\ place[i] \in DOMAIN StopOrder
    /\ stuck' = [stuck EXCEPT ![i] = @ \cup ({StopOrder[place[i]]} \cap running[i])]
    /\ place' = [place EXCEPT ![i] = @ + 1]
    /\ UNCHANGED <<phase, running, escaped, lock, restarting>>

\* Any other exception leaves the stop, and what comes after is not stopped.  After a
\* start that did not succeed stop() begins again; otherwise the process ends.
StopRaises(i) ==
    /\ Stops(i) /\ place[i] \in DOMAIN StopOrder
    /\ running' \in {running, [running EXCEPT ![i] = @ \ {StopOrder[place[i]]}]}
    /\ IF phase[i] = "aborting" THEN BeginStop(i) /\ UNCHANGED escaped
       ELSE /\ Enter(i, "leaving") /\ UNCHANGED place
            /\ escaped' = [escaped EXCEPT ![i] = TRUE]
    /\ UNCHANGED <<stuck, lock, restarting>>

\* Mutant: the end of the stop waits for what could not be stopped.
StopEndsWhenAllStopped(i) ==
    /\ Stops(i) /\ place[i] \notin DOMAIN StopOrder
    /\ running[i] = {}
    /\ Enter(i, "leaving")
    /\ UNCHANGED <<componentVars, lock, restarting>>

StopEnds(i) ==
    /\ Stops(i) /\ place[i] \notin DOMAIN StopOrder
    /\ Enter(i, "leaving")
    /\ UNCHANGED <<componentVars, lock, restarting>>

\* The Qt loop ends: the application's task is cancelled wherever it waits.
\* The component being started may be left half started.
Quit(i) ==
    /\ phase[i] \in {"building", "starting", "up"}
    /\ IF phase[i] = "building"
       THEN Enter(i, "leaving") /\ UNCHANGED <<place, running>>
       ELSE /\ BeginStop(i)
            /\ \/ UNCHANGED running
               \/ /\ phase[i] = "starting" /\ place[i] \in DOMAIN StartOrder
                  /\ Started(i, StartOrder[place[i]])
    /\ UNCHANGED <<stuck, escaped, lock, restarting>>

\* Mutant: the restarting instance gives its lock up for the replacement.
RestartReleasesLock(i, j) ==
    /\ phase[i] = "up" /\ phase[j] = "absent"
    /\ phase' = [phase EXCEPT ![i] = "stopping", ![j] = "launched"]
    /\ place' = [place EXCEPT ![i] = 1]
    /\ lock' = NoInstance
    /\ restarting' = TRUE
    /\ UNCHANGED <<running, stuck, escaped>>

\* The settings dialog asks for a restart: a replacement is launched, and this
\* instance quits.
Restart(i, j) ==
    /\ phase[i] = "up" /\ phase[j] = "absent"
    /\ phase' = [phase EXCEPT ![i] = "stopping", ![j] = "launched"]
    /\ place' = [place EXCEPT ![i] = 1]
    /\ restarting' = TRUE
    /\ UNCHANGED <<running, stuck, escaped, lock>>

-------------------------------------------------------------------------------
\* What an instance does of itself.
Proceeds(i) ==
    \/ TakeLock(i) \/ Build(i) \/ Leave(i)
    \/ StartComponent(i) \/ StartFails(i) \/ StartEnds(i)
    \/ StopComponent(i) \/ StopFails(i) \/ StopRaises(i) \/ StopEnds(i)

AppNext ==
    \E i \in Instances :
        \/ Proceeds(i)
        \/ Launch(i) \/ Killed(i) \/ Quit(i)
        \/ \E j \in Instances : Restart(i, j)

AppSpec == AppInit /\ [][AppNext]_appVars

\* The operating system and the event loop let an instance proceed; starting
\* and stopping a component end.
FairSpec == AppSpec /\ \A i \in Instances : WF_appVars(Proceeds(i))

-------------------------------------------------------------------------------
(* Properties.                                                             *)

\* Only the instance that holds the lock has components that run, so two never
\* have: not while one is starting, nor while one is still stopping, as around a
\* restart.
OneInstanceRuns == \A i \in Instances : running[i] # {} => lock = i

\* A producer of lyrics only runs over a display and a surface: it may publish
\* a last frame while it is stopped, however the start went.
ProducersHaveADisplay ==
    \A i \in Instances :
        Producers \cap (running[i] \ stuck[i]) # {} => {"display", "surface"} \subseteq running[i]

\* When an instance leaves in order, whatever has run has been stopped, or has failed
\* to stop.  If an exception nobody expects ended the stop, this is so of the
\* components that came before the one that raised; the later ones still run.
EverythingIsStopped ==
    \A i \in Instances : \A k \in DOMAIN StopOrder :
        phase[i] = "leaving" /\ StopOrder[k] \in running[i] =>
            StopOrder[k] \in stuck[i] \/ (escaped[i] /\ place[i] <= k)

\* An instance that is asked to end does end, and no launch stays undecided.
OnlyUpRemains ==
    \A i \in Instances : phase[i] \notin {"absent", "up", "exited"} ~> phase[i] \in {"up", "exited"}

===============================================================================
