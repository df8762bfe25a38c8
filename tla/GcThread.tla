------------------------------ MODULE GcThread ------------------------------
(***************************************************************************)
(* gc_thread_t: the loop of the gc thread, the calls force_collect makes   *)
(* to it, and its shutdown.  The mutex of the object is held by the gc     *)
(* thread while it works; it is given up only inside a condition wait.     *)
(*                                                                         *)
(* m_mutex and m_thread_mutex of the kernel are one token here (kernel):   *)
(* the collector has it from its locks to its unlocks, the shutdown while  *)
(* it destroys the gc thread, and finalizing needs it to be free.          *)
(***************************************************************************)
EXTENDS Naturals

(* do[p] and done[p] are the pair of flags of a phase: m_do_clear and       *)
(* m_clear_done, ..., and for "finalize" m_do_all_threads_resumed and       *)
(* m_finalization_done.                                                     *)
Phases == {"clear", "mark", "sweep", "finalize"}
(* Slip: the loop does not start over after the finalization. *)
FollowsBug == [clear |-> "mark", mark |-> "sweep", sweep |-> "finalize", finalize |-> "end"]

Follows == [clear |-> "mark", mark |-> "sweep", sweep |-> "finalize", finalize |-> "clear"]

VARIABLES
    m_mutex,    \* holder of gc_thread_t::m_mutex
    do, done,   \* the flags of each phase
    m_run,
    gpc, gphase,    \* where the gc thread is, and the phase it is in or waits for
    cpc, cphase,    \* the same for the collector
    spc,            \* the thread that shuts the kernel down
    kernel,         \* who has the kernel's two mutexes
    spurious        \* whether condition variables may wake without a notification

gcVars        == <<gpc, gphase>>
collectorVars == <<cpc, cphase>>
vars == <<m_mutex, do, done, m_run, gcVars, collectorVars, spc, kernel, spurious>>

GPCs == {"top", "lock", "test", "enrol", "asleep", "relock", "work", "exited"}
CPCs == {"idle", "await", "begin", "reset", "command", "notify", "lock", "test",
         "asleep", "leave"}
SPCs == {"idle", "await", "ready", "stop", "wake", "join", "off"}

Init ==
    /\ m_mutex = "free"
    /\ do   = [p \in Phases |-> FALSE]
    /\ done = [p \in Phases |-> p = "finalize"]
    /\ m_run = TRUE
    /\ gpc = "top" /\ gphase = "clear"
    /\ cpc = "idle" /\ cphase = "clear"
    /\ spc = "idle"
    /\ kernel = "free"
    /\ spurious \in BOOLEAN

Lock(u)   == m_mutex = "free" /\ m_mutex' = u
Unlock    == m_mutex' = "free"
GStep(from, to) == gpc = from /\ gpc' = to
CStep(from, to) == cpc = from /\ cpc' = to
SStep(from, to) == spc = from /\ spc' = to

(* The gc thread is on the condition variable on which p is announced. *)
AsleepFor(p) == gpc = "asleep" /\ gphase = p

-----------------------------------------------------------------------------
(* _run *)

GcTop ==
    /\ GStep("top", IF m_run THEN "lock" ELSE "exited")
    /\ UNCHANGED <<m_mutex, do, done, m_run, gphase, collectorVars, spc, kernel>>

GcLock ==
    /\ GStep("lock", "test")
    /\ Lock("gc")
    /\ UNCHANGED <<do, done, m_run, gphase, collectorVars, spc, kernel>>

(* The predicate of the wait, then the wait itself. *)
GcTest ==
    /\ GStep("test", IF do[gphase] THEN "work" ELSE "enrol")
    /\ do' = [do EXCEPT ![gphase] = FALSE]
    /\ UNCHANGED <<m_mutex, done, m_run, gphase, collectorVars, spc, kernel>>

(* Slip: the wait gives the mutex up before the thread is on the list. *)
GcEnrolBug ==
    /\ \/ gpc = "enrol" /\ m_mutex = "gc" /\ Unlock /\ UNCHANGED gpc
       \/ GStep("enrol", "asleep") /\ m_mutex # "gc" /\ UNCHANGED m_mutex
    /\ UNCHANGED <<do, done, m_run, gphase, collectorVars, spc, kernel>>

GcEnrol ==
    /\ GStep("enrol", "asleep")
    /\ Unlock
    /\ UNCHANGED <<do, done, m_run, gphase, collectorVars, spc, kernel>>

(* Only the first wait of the loop looks at m_run. *)
GcRelock ==
    /\ \/ GStep("relock", "test") /\ (m_run \/ gphase # "clear") /\ Lock("gc")
       \/ GStep("relock", "exited") /\ ~m_run /\ gphase = "clear"
            /\ m_mutex = "free" /\ UNCHANGED m_mutex
    /\ UNCHANGED <<do, done, m_run, gphase, collectorVars, spc, kernel>>

(* The phase is done and announced.  Finalizing takes the kernel's m_mutex; *)
(* after it the loop starts over with the mutex released.                   *)
Announce == cpc' = IF cpc = "asleep" /\ cphase = gphase THEN "lock" ELSE cpc

GcWork ==
    /\ GStep("work", IF gphase = "finalize" THEN "top" ELSE "test")
    /\ gphase = "finalize" => kernel = "free"
    /\ done' = [done EXCEPT ![gphase] = TRUE]
    /\ gphase' = Follows[gphase]
    /\ IF gphase = "finalize" THEN Unlock ELSE UNCHANGED m_mutex
    /\ Announce
    /\ UNCHANGED <<do, m_run, cphase, spc, kernel>>

GcNext ==
    /\ GcTop \/ GcLock \/ GcTest \/ GcEnrol \/ GcRelock \/ GcWork
    /\ UNCHANGED spurious

-----------------------------------------------------------------------------
(* The collector: it waits for the finalization of the collection before,   *)
(* resets the gc thread, and for each phase commands it and waits.          *)

(* The shutdown disables collection before anything else. *)
Collect ==
    /\ CStep("idle", "await")
    /\ spc = "idle"
    /\ UNCHANGED <<m_mutex, do, done, m_run, gcVars, cphase, spc, kernel, spurious>>

(* Slip: the collector does not wait for the finalization. *)
CAwaitBug ==
    /\ CStep("await", "begin")
    /\ m_mutex = "free" /\ kernel = "free"
    /\ UNCHANGED <<m_mutex, do, done, m_run, gcVars, cphase, spc, kernel>>

(* wait_until_finalization_finished, made under m_thread_mutex. *)
CAwait ==
    /\ CStep("await", "begin")
    /\ done["finalize"] /\ m_mutex = "free" /\ kernel = "free"
    /\ UNCHANGED <<m_mutex, do, done, m_run, gcVars, cphase, spc, kernel>>

(* A collection that was asked for before the shutdown finds no gc thread   *)
(* once the shutdown is over.                                               *)
CBegin ==
    /\ CStep("begin", IF spc = "off" THEN "idle" ELSE "reset")
    /\ kernel = "free"
    /\ kernel' = IF spc = "off" THEN "free" ELSE "collector"
    /\ UNCHANGED <<m_mutex, do, done, m_run, gcVars, cphase, spc>>

CReset ==
    /\ CStep("reset", "command")
    /\ m_mutex = "free"
    /\ do'   = [p \in Phases |-> FALSE]
    /\ done' = [p \in Phases |-> FALSE]
    /\ cphase' = "clear"
    /\ UNCHANGED <<m_mutex, m_run, gcVars, spc, kernel>>

(* start_clear, start_mark, start_sweep and notify_all_threads_resumed set  *)
(* their flag without the lock; only start_clear notifies under it.         *)
CCommand ==
    /\ CStep("command", "notify")
    /\ do' = [do EXCEPT ![cphase] = TRUE]
    /\ UNCHANGED <<m_mutex, done, m_run, gcVars, cphase, spc, kernel>>

Wake(p) == gpc' = IF AsleepFor(p) THEN "relock" ELSE gpc

(* Slip: nobody is notified. *)
CNotifyBug ==
    /\ CStep("notify", IF cphase = "finalize" THEN "leave" ELSE "lock")
    /\ UNCHANGED <<m_mutex, do, done, m_run, gcVars, cphase, spc, kernel>>

CNotify ==
    /\ CStep("notify", IF cphase = "finalize" THEN "leave" ELSE "lock")
    /\ cphase = "clear" => m_mutex = "free"
    /\ Wake(cphase)
    /\ UNCHANGED <<m_mutex, do, done, m_run, gphase, cphase, spc, kernel>>

(* wait_until_clear_finished and its like. *)
CLock ==
    /\ CStep("lock", "test")
    /\ Lock("collector")
    /\ UNCHANGED <<do, done, m_run, gcVars, cphase, spc, kernel>>

CTest ==
    /\ Unlock
    /\ IF done[cphase] THEN CStep("test", "command") /\ cphase' = Follows[cphase]
                       ELSE CStep("test", "asleep") /\ UNCHANGED cphase
    /\ UNCHANGED <<do, done, m_run, gcVars, spc, kernel>>

CLeave ==
    /\ CStep("leave", "idle")
    /\ kernel' = "free"
    /\ UNCHANGED <<m_mutex, do, done, m_run, gcVars, cphase, spc>>

CollectorNext ==
    /\ CAwait \/ CBegin \/ CReset \/ CCommand \/ CNotify \/ CLock \/ CTest \/ CLeave
    /\ UNCHANGED spurious

-----------------------------------------------------------------------------
(* cgc_shutdown: wait for the finalization, lock the kernel, destroy the gc *)
(* thread.  Between the first two a collection that was already asked for   *)
(* may run.                                                                 *)

Shutdown ==
    /\ SStep("idle", "await")
    /\ UNCHANGED <<m_mutex, do, done, m_run, gcVars, collectorVars, kernel, spurious>>

SAwait ==
    /\ SStep("await", "ready")
    /\ done["finalize"] /\ m_mutex = "free" /\ kernel = "free"
    /\ UNCHANGED <<m_mutex, do, done, m_run, gcVars, collectorVars, kernel>>

SLock ==
    /\ SStep("ready", "stop")
    /\ kernel = "free"
    /\ kernel' = "shutdown"
    /\ UNCHANGED <<m_mutex, do, done, m_run, gcVars, collectorVars>>

SStop ==
    /\ SStep("stop", "wake")
    /\ m_run' = FALSE
    /\ UNCHANGED <<m_mutex, do, done, gcVars, collectorVars, kernel>>

(* wake_up takes the mutex, notifies and releases it. *)
SWake ==
    /\ SStep("wake", "join")
    /\ m_mutex = "free"
    /\ Wake("clear")
    /\ UNCHANGED <<m_mutex, do, done, m_run, gphase, collectorVars, kernel>>

SJoin ==
    /\ SStep("join", "off")
    /\ gpc = "exited"
    /\ kernel' = "free"
    /\ UNCHANGED <<m_mutex, do, done, m_run, gcVars, collectorVars>>

ShutdownNext ==
    /\ SAwait \/ SLock \/ SStop \/ SWake \/ SJoin
    /\ UNCHANGED spurious

-----------------------------------------------------------------------------
(* A condition variable may wake whoever waits on it for no reason; the     *)
(* predicate given to each wait allows for that.                            *)
SpuriousWakeup ==
    /\ spurious
    /\ \/ GStep("asleep", "relock") /\ UNCHANGED cpc
       \/ CStep("asleep", "lock")   /\ UNCHANGED gpc
    /\ UNCHANGED <<m_mutex, do, done, m_run, gphase, cphase, spc, kernel, spurious>>

Next == GcNext \/ Collect \/ CollectorNext \/ Shutdown \/ ShutdownNext \/ SpuriousWakeup

Spec == Init /\ [][Next]_vars

(* The threads run, and a mutex that keeps becoming free is in the end      *)
(* obtained.  Nothing obliges a condition variable to wake anyone unasked.  *)
Fairness == SF_vars(GcNext) /\ SF_vars(CollectorNext) /\ SF_vars(ShutdownNext)

FairSpec == Spec /\ Fairness

-----------------------------------------------------------------------------
(* Properties. *)

TypeOK ==
    /\ m_mutex \in {"free", "gc", "collector"}
    /\ do \in [Phases -> BOOLEAN] /\ done \in [Phases -> BOOLEAN]
    /\ m_run \in BOOLEAN
    /\ gpc \in GPCs /\ gphase \in Phases
    /\ cpc \in CPCs /\ cphase \in Phases
    /\ spc \in SPCs
    /\ kernel \in {"free", "collector", "shutdown"}
    /\ spurious \in BOOLEAN

(* start_mark, start_sweep and notify_all_threads_resumed set their flag    *)
(* and notify without the mutex the gc thread waits under.  As long as only *)
(* a notification ends a wait no wakeup is lost: whenever the gc thread     *)
(* sleeps on a phase that was ordered, the collector is still about to      *)
(* notify it.                                                               *)
NoWakeupLost ==
    ~spurious /\ gpc = "asleep" /\ do[gphase] => cpc = "notify" /\ cphase = gphase

(* Nobody hangs in a shutdown (ShutdownReturns is about those who do). *)
NoShutdownHangs == <>[](spc \in {"idle", "off"})

(* Every wait of force_collect for the gc thread ends, whenever a shutdown  *)
(* that ends too comes in between.                                          *)
CollectorReturns ==
    ~spurious /\ NoShutdownHangs => (cpc # "idle" ~> cpc = "idle")

(* What force_collect starts is carried through: a reset gc thread is done  *)
(* finalizing some time later, in spite of such a shutdown.                 *)
FinalizationFinishes ==
    ~spurious /\ NoShutdownHangs => (~done["finalize"] ~> done["finalize"])

(* shutdown sets m_run and wakes the gc thread "if it is waiting", then     *)
(* waits for it "to terminate".                                             *)
ShutdownReturns == ~spurious => (spc = "join" ~> spc = "off")

-----------------------------------------------------------------------------
(* The phase of the gc thread as PhaseBarrier sees it, read off the flags:  *)
(* the latest phase that is ordered, under way or done.                     *)

Under(p) == do[p] \/ (gpc = "work" /\ gphase = p)

BarrierPhase ==
    CASE done["finalize"]  -> "idle"
      [] ~done["finalize"] /\ Under("finalize") -> "finalize"
      [] OTHER -> IF done["sweep"]     THEN "swept"
                  ELSE IF Under("sweep") THEN "sweep"
                  ELSE IF done["mark"]   THEN "marked"
                  ELSE IF Under("mark")  THEN "mark"
                  ELSE IF done["clear"]  THEN "cleared"
                  ELSE IF Under("clear") THEN "clear" ELSE "reset"

Barrier == INSTANCE PhaseBarrier WITH phase <- BarrierPhase

(* The flags implement the chain of phases of PhaseBarrier. *)
PhasesInOrder == Barrier!Spec
=============================================================================
