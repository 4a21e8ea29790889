------------------------------ MODULE Manager ------------------------------
(***************************************************************************)
(* The manager of modules/manager/manager.c: error accounting, watchdog,   *)
(* automatic recovery, thermal and power state, fed by the IPC queue of    *)
(* MODULE_MANAGER and driven by manager_process from the service loop.     *)
(*                                                                         *)
(* The clock get_timestamp_ms is a counter of its own calls, so time is    *)
(* kept as the age a time stamp has at the next call: 1 right after it is  *)
(* taken, one more after every call of the clock, and no longer counted    *)
(* beyond the largest threshold it is compared with.                       *)
(***************************************************************************)
EXTENDS MsgQueue, FiniteSetsExt

CONSTANTS
    ManagerId,        \* MODULE_MANAGER
    QueueSize,        \* the 64 of init_all_modules
    WatchdogTimeout,  \* watchdog_timeout_ms
    MaxErrorCount,    \* max_error_count
    IdleTimeout, StandbyTimeout, SleepTimeout,              \* power_config_t
    NormalTemp, WarningTemp, CriticalTemp, ShutdownTemp,    \* thermal_config_t
    Temperatures,     \* the temperatures the sensor may report
    Healths,          \* arguments of manager_update_module_health
    PowerSettings     \* arguments of manager_set_power_state

ASSUME ManagerAssumption ==
    /\ ManagerId \in Module
    /\ QueueSize \in Nat \ {0} /\ WatchdogTimeout \in Nat /\ MaxErrorCount \in Nat \ {0}
    /\ IdleTimeout <= StandbyTimeout /\ StandbyTimeout <= SleepTimeout
    /\ NormalTemp < WarningTemp /\ WarningTemp < CriticalTemp
    /\ CriticalTemp < ShutdownTemp
    /\ Temperatures \subseteq Nat /\ Healths \subseteq 0..3
    /\ PowerSettings \subseteq {"ACTIVE", "IDLE", "STANDBY", "SLEEP"}

VARIABLES
    up,        \* is_initialized
    modules,   \* module_info_t of each module
    overall,   \* stats.overall_health
    thermal,   \* current_temp and state of thermal_state_t
    power      \* current_state and age of last_activity_ms

mgrVars == <<up, modules, overall, thermal, power>>
vars    == <<queues, mgrVars>>

(* health_status_t, in its order *)
UNKNOWN  == 0
HEALTHY  == 1
WARNING  == 2
CRITICAL == 3

PowerState == {"ACTIVE", "IDLE", "STANDBY", "SLEEP"}
TempState  == {"NORMAL", "WARNING", "CRITICAL", "SHUTDOWN"}
ModuleInfo == [state : {"UNINIT", "READY", "RUNNING"}, health : UNKNOWN..CRITICAL,
               errors : 0..MaxErrorCount, beat : 1..WatchdogTimeout + 1]

-----------------------------------------------------------------------------
(* get_timestamp_ms: every call makes every time stamp one older.          *)
Aged(mods, n) ==
    [m \in Module |-> [mods[m] EXCEPT !.beat = Min({@ + n, WatchdogTimeout + 1})]]

IdleFor(p, n) == [p EXCEPT !.idle = Min({@ + n, SleepTimeout})]

Overdue(info) == info.beat > WatchdogTimeout

check_module_health(info) ==
    CASE Overdue(info) -> CRITICAL
      [] ~Overdue(info) /\ info.errors = 0 -> HEALTHY
      [] ~Overdue(info) /\ info.errors \in 1..MaxErrorCount - 1 -> WARNING
      [] OTHER -> CRITICAL

(* Mutant: the module is left as it was.                                   *)
BugRecover(info) == [info EXCEPT !.health = HEALTHY, !.errors = 0]

(* Back to READY, not to RUNNING: the watchdog no longer looks at it.      *)
auto_recover_module(info) ==
    [info EXCEPT !.state = "READY", !.health = HEALTHY, !.errors = 0]

(* Mutant: recovery as soon as the health is CRITICAL.                     *)
BugRecoversCritical(info) ==
    LET hit == [info EXCEPT !.errors = @ + 1]
    IN  IF check_module_health(hit) = CRITICAL THEN auto_recover_module(hit)
        ELSE [hit EXCEPT !.health = check_module_health(hit)]

process_error_report(info) ==
    LET hit == [info EXCEPT !.errors = @ + 1]
    IN  IF hit.errors >= MaxErrorCount THEN auto_recover_module(hit)
        ELSE [hit EXCEPT !.health = check_module_health(hit)]

(* Mutant: a module that is not RUNNING is left out as well.               *)
BugOverall(mods) ==
    Max({HEALTHY} \cup {mods[m].health : m \in {n \in Module : mods[n].state = "RUNNING"}})

calc_overall_health(mods) ==
    Max({HEALTHY} \cup {mods[m].health : m \in {n \in Module : mods[n].state # "UNINIT"}})

(* One message taken from the queue; other types are dropped unread.       *)
Handle(mods, msg) ==
    IF msg.type = "ERROR_REPORT"
    THEN Aged([mods EXCEPT ![msg.src] = process_error_report(@)], 1)
    ELSE mods

(* The loop over the modules: each running module that is overdue counts   *)
(* one error of its own, and each of these reads the clock once more.      *)
Silent(mods) == {m \in Module : mods[m].state = "RUNNING" /\ Overdue(mods[m])}

process_health_check(mods) ==
    Aged([m \in Module |-> IF m \in Silent(mods) THEN process_error_report(mods[m])
                           ELSE mods[m]],
         1 + Cardinality(Silent(mods)))

(* Between normal and warning the state stays what it was.                 *)
process_thermal_management(t) ==
    [t EXCEPT !.state =
        CASE t.temp >= ShutdownTemp -> "SHUTDOWN"
          [] t.temp \in CriticalTemp..ShutdownTemp - 1 -> "CRITICAL"
          [] t.temp \in WarningTemp..CriticalTemp - 1 -> "WARNING"
          [] t.temp <= NormalTemp -> "NORMAL"
          [] OTHER -> @]

process_power_management(p) ==
    [p EXCEPT !.state =
        CASE p.idle >= SleepTimeout -> "SLEEP"
          [] p.idle \in StandbyTimeout..SleepTimeout - 1 -> "STANDBY"
          [] p.idle \in IdleTimeout..StandbyTimeout - 1 -> "IDLE"
          [] OTHER -> @]

-----------------------------------------------------------------------------
Fresh == [state |-> "UNINIT", health |-> UNKNOWN, errors |-> 0, beat |-> WatchdogTimeout + 1]

(* Every module but the manager itself.                                    *)
manager_init_all_modules(mods) ==
    [m \in Module |-> IF m = ManagerId THEN mods[m] ELSE [mods[m] EXCEPT !.state = "READY"]]

(* The time stamps taken one after the other are taken as simultaneous.    *)
manager_start_all_modules(mods) ==
    [m \in Module |-> IF mods[m].state # "READY" THEN mods[m]
                      ELSE [mods[m] EXCEPT !.state = "RUNNING", !.health = HEALTHY, !.beat = 1]]

manager_stop_all_modules(mods) ==
    [m \in Module |-> IF mods[m].state # "RUNNING" THEN mods[m]
                      ELSE [mods[m] EXCEPT !.state = "READY"]]

(* init_all_modules of src/main.c creates the queues first.  Each call of  *)
(* the loop over the modules touches only the queue it is for.             *)
CreateQueues(q)  == [m \in Module |-> msg_queue_init(q, m, QueueSize)[m]]
DestroyQueues(q) == [m \in Module |-> msg_queue_deinit(q, m)[m]]

(* init_all_modules: the queues, and at its end manager_init and the       *)
(* start of all modules.  The modules initialised in between are the       *)
(* subject of FtlPower, HostIf and the front ends.                         *)
Boot ==
    /\ ~up /\ up' = TRUE
    /\ queues'  = CreateQueues(queues)
    /\ modules' = manager_start_all_modules(manager_init_all_modules([m \in Module |-> Fresh]))
    /\ overall' = HEALTHY
    /\ thermal' = [temp |-> NormalTemp, state |-> "NORMAL"]
    /\ power'   = [state |-> "ACTIVE", idle |-> 1]

(* deinit_all_modules: manager_stop_all_modules, manager_deinit, and last  *)
(* msg_queue_deinit for every module.                                      *)
Shutdown ==
    /\ up /\ up' = FALSE
    /\ modules' = manager_stop_all_modules(modules)
    /\ queues'  = DestroyQueues(queues)
    /\ UNCHANGED <<overall, thermal, power>>

(* The error reports waiting for the manager.                              *)
Reports == {i \in DOMAIN queues[ManagerId].msgs : queues[ManagerId].msgs[i].type = "ERROR_REPORT"}

(* The loop that receives and handles messages until none is left.         *)
Drained ==
    LET n == msg_queue_get_count(queues, ManagerId)
        turn[k \in 0..n] ==
            IF k = 0 THEN [q |-> queues, mods |-> modules]
            ELSE [q    |-> msg_queue_recv(turn[k - 1].q, ManagerId),
                  mods |-> Handle(turn[k - 1].mods, Head(turn[k - 1].q[ManagerId].msgs))]
    IN  turn[n]

(* manager_process: all messages, then health, thermal and power checks.   *)
(* Each error report and each silent module reads the clock once.          *)
Process ==
    /\ up
    /\ \E handled \in {Drained.mods} :
       \E checked \in {process_health_check(handled)} :
           /\ modules' = Aged(checked, 1)
           /\ overall' = calc_overall_health(checked)
           /\ power'   = IdleFor(process_power_management(IdleFor(power,
                            Cardinality(Reports) + 1 + Cardinality(Silent(handled)))), 1)
    /\ queues'  = Drained.q
    /\ thermal' = process_thermal_management(thermal)
    /\ UNCHANGED up

(* manager_report_error: the clock is read even if the queue is full.      *)
ReportError(m) ==
    /\ up
    /\ queues'  = msg_queue_send(queues, ManagerId, [type |-> "ERROR_REPORT", prio |-> 2, src |-> m])
    /\ modules' = Aged(modules, 1)
    /\ power'   = IdleFor(power, 1)
    /\ UNCHANGED <<up, overall, thermal>>

(* Any other message put into the queue of the manager; it is dropped      *)
(* unread, so one type and one sender stand for all of them.               *)
SendOther(p) ==
    /\ queues' = msg_queue_send(queues, ManagerId,
                                [type |-> "HEALTH_CHECK", prio |-> p, src |-> ManagerId])
    /\ UNCHANGED mgrVars

Heartbeat(m) ==
    /\ up
    /\ modules' = [Aged(modules, 1) EXCEPT ![m].beat = 1]
    /\ power'   = IdleFor(power, 1)
    /\ UNCHANGED <<queues, up, overall, thermal>>

UpdateHealth(m, h) ==
    /\ up
    /\ modules' = [modules EXCEPT ![m].health = h]
    /\ overall' = calc_overall_health(modules')
    /\ UNCHANGED <<queues, up, thermal, power>>

UpdateTemperature(t) ==
    /\ up
    /\ thermal' = process_thermal_management([thermal EXCEPT !.temp = t])
    /\ UNCHANGED <<queues, up, modules, overall, power>>

(* manager_set_power_state, and manager_report_activity with s = ACTIVE.   *)
SetPowerState(s) ==
    /\ up
    /\ power'   = [state |-> s, idle |-> 1]
    /\ modules' = Aged(modules, 1)
    /\ UNCHANGED <<queues, up, overall, thermal>>

-----------------------------------------------------------------------------
Init ==
    /\ up = FALSE
    /\ queues  = [m \in Module |-> NotInit]
    /\ modules = [m \in Module |-> Fresh]
    /\ overall = UNKNOWN
    /\ thermal = [temp |-> NormalTemp, state |-> "NORMAL"]
    /\ power   = [state |-> "ACTIVE", idle |-> 1]

Next ==
    \/ Boot \/ Shutdown \/ Process
    \/ \E m \in Module \ {ManagerId} :     \* nobody reports for the manager itself
          \/ ReportError(m) \/ Heartbeat(m)
          \/ \E h \in Healths : UpdateHealth(m, h)
    \/ \E p \in Priority : SendOther(p)
    \/ \E t \in Temperatures : UpdateTemperature(t)
    \/ \E s \in PowerSettings : SetPowerState(s)

(* The service loop calls manager_process over and over while the firmware *)
(* runs; nothing obliges the modules to report, to beat or to be stopped.  *)
Spec == Init /\ [][Next]_vars /\ WF_vars(Process)

-----------------------------------------------------------------------------
TypeOK ==
    /\ up \in BOOLEAN
    /\ queues \in QueueType
    /\ modules \in [Module -> ModuleInfo]
    /\ overall \in UNKNOWN..CRITICAL
    /\ thermal \in [temp : Temperatures \cup {NormalTemp}, state : TempState]
    /\ power \in [state : PowerState, idle : 1..SleepTimeout]

(* calc_overall_health is only called at some places: still the overall    *)
(* health is at all times that of the worst module that was started, so    *)
(* no report, recovery or manual setting leaves it outdated.               *)
OverallIsWorst ==
    LET started == {m \in Module : modules[m].state # "UNINIT"}
    IN  up => /\ \A m \in started : modules[m].health <= overall
              /\ overall = HEALTHY \/ \E m \in started : modules[m].health = overall

(* No spurious recovery: a module is taken out of service only when its    *)
(* earlier errors, its reports in the queue and at most one missed         *)
(* heartbeat add up to max_error_count, in whatever order they came.       *)
RecoveryEarned ==
    [][\A m \in Module :
         up /\ up' /\ modules[m].state = "RUNNING" /\ modules'[m].state # "RUNNING" =>
            LET own == {i \in Reports : queues[ManagerId].msgs[i].src = m}
            IN  modules[m].errors + Cardinality(own) + 1 >= MaxErrorCount]_vars

(* The watchdog: a running module that stays silent is taken out of        *)
(* service after max_error_count checks, unless it beats again or the      *)
(* firmware stops.                                                         *)
SilentModuleRecovered ==
    \A m \in Module \ {ManagerId} :
        (up /\ m \in Silent(modules)) ~> (~up \/ m \notin Silent(modules))
=============================================================================
