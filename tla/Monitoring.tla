----------------------------- MODULE Monitoring -----------------------------
(***************************************************************************)
(* oxen/monitoring.py: threads that start and stop the monitor and record  *)
(* metrics, and the loop the monitor runs in a thread of its own, which    *)
(* compares the latest values with the thresholds and then sleeps.  The    *)
(* lists have locks; the monitor's flag and its thread have none.  One     *)
(* tick is one second, the precision of an alert's id.                     *)
(***************************************************************************)
EXTENDS Integers, Sequences

CONSTANTS
    Callers,      \* threads that call start_monitoring and stop_monitoring
    Watched,      \* the metrics with a threshold at first, in their order
    Added,        \* those that may be given one later
    Nap,          \* ticks the loop sleeps for
    Window,       \* ticks after which a value is no longer the latest
    Retention,    \* ticks a point is kept for
    MaxPoints,    \* max_points
    MaxLoops, MaxAlerts, MaxRecords, MaxTime     \* bounds

MonitoringAssumption ==
    /\ {Nap, Window, Retention, MaxPoints} \subseteq Nat \ {0}
    /\ {MaxLoops, MaxAlerts, MaxRecords, MaxTime} \subseteq Nat

VARIABLES
    now,
    points,       \* MetricCollector.metrics
    thresholds,   \* AlertManager.thresholds: its metrics, in their order
    alerts,       \* AlertManager.alerts
    active,       \* monitoring_active
    thread,       \* monitoring_thread; 0 is None
    place,        \* of each caller: where its call is
    pc, at, size, \* of each loop: where it is, its position in the walk over
                  \* the thresholds, their number when the walk began
    until,        \* and when its sleep ends
    records,      \* bound: points recorded
    overlap,      \* history: has a call begun during a start, or a start
                  \* during a call?
    grown         \* history: has a walk met a threshold added meanwhile?

data  == <<points, records>>
loops == <<pc, at, size, until>>
past  == <<overlap, grown>>
vars  == <<now, points, thresholds, alerts, active, thread, place, pc, at,
           size, until, records, overlap, grown>>

Loops == 1 .. MaxLoops
Members(seq) == {seq[i] : i \in 1 .. Len(seq)}
Metrics == Members(Watched) \cup Added
Points == [time : Nat, high : BOOLEAN]
Alerts == [metric : Metrics, second : Nat, resolved : BOOLEAN]

MonitoringTypeOK ==
    /\ now \in Nat /\ records \in Nat
    /\ points \in [Metrics -> Seq(Points)]
    /\ thresholds \in Seq(Metrics) /\ alerts \in Seq(Alerts)
    /\ {active, overlap, grown} \subseteq BOOLEAN
    /\ thread \in Loops \cup {0}
    /\ place \in [Callers -> {"idle", "setting", "making", "starting", "joining"}]
    /\ pc \in [Loops -> {"none", "made", "top", "walk", "sleep", "ended"}]
    /\ {at, size, until} \subseteq [Loops -> Nat]

Init ==
    /\ now = 1 /\ records = 0
    /\ points = [m \in Metrics |-> <<>>]
    /\ thresholds = Watched
    /\ alerts = <<>>
    /\ active = FALSE /\ thread = 0
    /\ place = [c \in Callers |-> "idle"]
    /\ pc = [l \in Loops |-> "none"]
    /\ at = [l \in Loops |-> 0] /\ size = [l \in Loops |-> 0]
    /\ until = [l \in Loops |-> 0]
    /\ overlap = FALSE /\ grown = FALSE

Tick ==
    /\ now < MaxTime
    /\ now' = now + 1
    /\ UNCHANGED <<data, thresholds, alerts, active, thread, place, loops, past>>

-----------------------------------------------------------------------------
(* The application                                                          *)

Newest(seq) == IF Len(seq) > MaxPoints
                 THEN SubSeq(seq, Len(seq) - MaxPoints + 1, Len(seq)) ELSE seq

Fresh(seq, age) == SelectSeq(seq, LAMBDA p : p.time > now - age)

RecordMetric(m, high) ==
    /\ records < MaxRecords
    /\ records' = records + 1
    /\ points' = [points EXCEPT ![m] =
                    Newest(Fresh(Append(@, [time |-> now, high |-> high]), Retention))]
    /\ UNCHANGED <<now, thresholds, alerts, active, thread, place, loops, past>>

SetThreshold(m) ==
    /\ m \notin Members(thresholds)
    /\ thresholds' = Append(thresholds, m)
    /\ UNCHANGED <<now, data, alerts, active, thread, place, loops, past>>

(* The first alert of that id, resolved before or not.                      *)
ResolveAlert(i) ==
    /\ \A j \in 1 .. i - 1 : \/ alerts[j].metric # alerts[i].metric
                             \/ alerts[j].second # alerts[i].second
    /\ alerts' = [alerts EXCEPT ![i].resolved = TRUE]
    /\ UNCHANGED <<now, data, thresholds, active, thread, place, loops, past>>

-----------------------------------------------------------------------------
(* start_monitoring and stop_monitoring                                     *)

Move(c, p) == place' = [place EXCEPT ![c] = p]

Start(c) ==
    /\ place[c] = "idle" /\ ~active
    /\ Move(c, "setting")
    /\ overlap' = (overlap \/ \E d \in Callers : place[d] # "idle")
    /\ UNCHANGED <<now, data, thresholds, alerts, active, thread, loops, grown>>

SetActive(c) ==
    /\ place[c] = "setting"
    /\ active' = TRUE
    /\ Move(c, "making")
    /\ UNCHANGED <<now, data, thresholds, alerts, thread, loops, past>>

MakeThread(c) ==
    /\ place[c] = "making"
    /\ \E l \in Loops :
          /\ pc[l] = "none" /\ \A k \in 1 .. l - 1 : pc[k] # "none"
          /\ thread' = l /\ pc' = [pc EXCEPT ![l] = "made"]
    /\ Move(c, "starting")
    /\ UNCHANGED <<now, data, thresholds, alerts, active, at, size, until, past>>

(* A thread that another caller has started raises.                         *)
StartThread(c) ==
    /\ place[c] = "starting"
    /\ pc' = IF pc[thread] = "made" THEN [pc EXCEPT ![thread] = "top"] ELSE pc
    /\ Move(c, "idle")
    /\ UNCHANGED <<now, data, thresholds, alerts, active, thread, at, size,
                   until, past>>

Stop(c) ==
    /\ place[c] = "idle"
    /\ active' = FALSE
    /\ Move(c, "joining")
    /\ overlap' = (overlap \/ \E d \in Callers : place[d] \notin {"idle", "joining"})
    /\ UNCHANGED <<now, data, thresholds, alerts, thread, loops, grown>>

(* Mutant: stop_monitoring does not wait for the thread.                    *)
JoinNothing(c) ==
    /\ place[c] = "joining"
    /\ Move(c, "idle")
    /\ UNCHANGED <<now, data, thresholds, alerts, active, thread, loops, past>>

(* No thread, or one not started yet, which raises: nothing is waited for.  *)
(* (Another thread takes this one's place only when calls overlap.)         *)
Join(c) ==
    /\ place[c] = "joining"
    /\ thread # 0 => pc[thread] \in {"made", "ended"}
    /\ Move(c, "idle")
    /\ UNCHANGED <<now, data, thresholds, alerts, active, thread, loops, past>>

-----------------------------------------------------------------------------
(* _monitoring_loop                                                         *)

LoopTest(l) ==
    /\ pc[l] = "top"
    /\ pc' = [pc EXCEPT ![l] = IF active THEN "walk" ELSE "ended"]
    /\ at' = [at EXCEPT ![l] = IF active THEN 1 ELSE 0]
    /\ size' = [size EXCEPT ![l] = IF active THEN Len(thresholds) ELSE 0]
    /\ UNCHANGED <<now, data, thresholds, alerts, active, thread, place, until,
                   past>>

Grown(l) == Len(thresholds) # size[l]

Exceeds(m) ==
    LET recent == Fresh(points[m], Window)
    IN  recent # <<>> /\ recent[Len(recent)].high

CheckThreshold(l) ==
    /\ pc[l] = "walk" /\ ~Grown(l) /\ at[l] <= size[l]
    /\ LET m == thresholds[at[l]]
       IN IF Exceeds(m)
            THEN /\ Len(alerts) < MaxAlerts
                 /\ alerts' = Append(alerts, [metric |-> m, second |-> now,
                                              resolved |-> FALSE])
            ELSE UNCHANGED alerts
    /\ at' = [at EXCEPT ![l] = @ + 1]
    /\ UNCHANGED <<now, data, thresholds, active, thread, place, pc, size, until,
                   past>>

(* The dictionary has changed: the error is caught outside the sleep.       *)
WalkBreaks(l) ==
    /\ pc[l] = "walk" /\ Grown(l)
    /\ pc' = [pc EXCEPT ![l] = "top"]
    /\ grown' = TRUE
    /\ UNCHANGED <<now, data, thresholds, alerts, active, thread, place, at,
                   size, until, overlap>>

Sleep(l) ==
    /\ pc[l] = "walk" /\ ~Grown(l) /\ at[l] > size[l]
    /\ pc' = [pc EXCEPT ![l] = "sleep"]
    /\ until' = [until EXCEPT ![l] = now + Nap]
    /\ at' = [at EXCEPT ![l] = 0] /\ size' = [size EXCEPT ![l] = 0]
    /\ UNCHANGED <<now, data, thresholds, alerts, active, thread, place, past>>

Wake(l) ==
    /\ pc[l] = "sleep" /\ now >= until[l]
    /\ pc' = [pc EXCEPT ![l] = "top"]
    /\ until' = [until EXCEPT ![l] = 0]
    /\ UNCHANGED <<now, data, thresholds, alerts, active, thread, place, at,
                   size, past>>

Next ==
    \/ Tick
    \/ \E m \in Metrics : SetThreshold(m) \/ \E high \in BOOLEAN : RecordMetric(m, high)
    \/ \E i \in 1 .. Len(alerts) : ResolveAlert(i)
    \/ \E c \in Callers : \/ Start(c) \/ SetActive(c) \/ MakeThread(c)
                          \/ StartThread(c) \/ Stop(c) \/ Join(c)
    \/ \E l \in Loops : \/ LoopTest(l) \/ CheckThreshold(l) \/ WalkBreaks(l)
                        \/ Sleep(l) \/ Wake(l)

Spec == Init /\ [][Next]_vars

-----------------------------------------------------------------------------
(* Properties                                                               *)

Running == {l \in Loops : pc[l] \in {"top", "walk", "sleep"}}

(* While no start meets another call, one loop runs at most, and when no    *)
(* call is under way one runs just when the monitor is active: stop returns *)
(* only after the loop, which may be asleep, has seen the flag.             *)
OneLoop ==
    ~overlap =>
        /\ \A k, l \in Running : k = l
        /\ (\A c \in Callers : place[c] = "idle") => (active <=> Running # {})

(* Alerts have ids of their own, so that resolve_alert, which marks the     *)
(* first of an id, can reach each: two of a metric are a sleep apart, also  *)
(* across a stop and a start - unless starts and stops overlapped, or a     *)
(* threshold added during a walk made the loop go again without its sleep.  *)
AlertsCanBeResolved ==
    ~overlap /\ ~grown =>
        \A i, j \in 1 .. Len(alerts) :
            i < j /\ alerts[i].metric = alerts[j].metric
                => alerts[j].second >= alerts[i].second + Nap

MonitoringSound == OneLoop /\ AlertsCanBeResolved
=============================================================================
