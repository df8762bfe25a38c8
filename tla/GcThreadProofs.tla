--------------------------- MODULE GcThreadProofs ---------------------------
(***************************************************************************)
(* The safety properties of GcThread: the gc thread and the collector       *)
(* agree on the phase they are in, no wakeup is lost between them, and the  *)
(* flags of gc_thread_t implement the chain of phases of PhaseBarrier, for  *)
(* any number of collections, a shutdown at any moment, and condition       *)
(* variables that may or may not wake unasked.                              *)
(***************************************************************************)
EXTENDS GcThread, TLAPS

(* Where the collector has the kernel's mutexes because the gc thread works *)
(* for it.                                                                  *)
Window == {"command", "notify", "lock", "test", "asleep", "leave"}

(* Who is where while a mutex is held, and when the loop is to end. *)
Holders ==
    /\ m_mutex = "gc" <=> gpc \in {"test", "enrol", "work"}
    /\ m_mutex = "collector" <=> cpc = "test"
    /\ kernel = "collector" <=> cpc \in Window \cup {"reset"}
    /\ kernel = "shutdown" <=> spc \in {"stop", "wake", "join"}
    /\ m_run <=> spc \notin {"wake", "join", "off"}
    /\ kernel = "collector" => spc # "off"
    /\ gpc = "exited" => ~m_run

(* The flags say how far the loop of the gc thread has come: what is before *)
(* its phase is done, nothing else is, and only its own phase is ordered.   *)
Flags ==
    /\ ~done["finalize"] =>
        /\ done["clear"] <=> gphase # "clear"
        /\ done["mark"] <=> gphase \in {"sweep", "finalize"}
        /\ done["sweep"] <=> gphase = "finalize"
    /\ done["finalize"] => gphase = "clear"
    /\ \A p \in Phases : do[p] => p = gphase /\ ~done["finalize"] /\ gpc # "work"
    /\ gpc = "work" => ~done["finalize"]
    /\ gpc \in {"top", "lock", "exited"} => gphase = "clear"

Ordered == do[gphase] \/ gpc = "work"

(* The collector and the gc thread agree: what the collector commands, it   *)
(* commands a gc thread that waits for that phase; what it waits for is     *)
(* ordered or done, and it never sleeps on what is done; and what it leaves *)
(* behind is a collection being finalized.                                  *)
Agreed ==
    /\ cpc \in {"begin", "reset"} => done["finalize"]
    /\ cpc = "command" => ~done["finalize"] /\ gphase = cphase /\ ~Ordered
    /\ cpc \in {"notify", "lock", "test", "asleep"} =>
        \/ gphase = cphase /\ Ordered
        \/ done[cphase] /\ cphase = "finalize"
        \/ done[cphase] /\ gphase = Follows[cphase] /\ ~Ordered /\ ~done["finalize"]
    /\ cpc \in {"lock", "test", "asleep"} => cphase # "finalize"
    /\ cpc = "asleep" => ~done[cphase]
    /\ cpc \notin Window \ {"leave"} => done["finalize"] \/ (gphase = "finalize" /\ Ordered)

(* Where the gc thread is when a flag of its is set without the mutex.      *)
(* After the first phase the collector commands only after it has had the   *)
(* mutex, which the gc thread gives up nowhere but in its wait.             *)
Wakeups ==
    ~spurious =>
        /\ gpc = "asleep" /\ do[gphase] => cpc = "notify" /\ cphase = gphase
        /\ gpc = "enrol" /\ do[gphase] => cpc = "notify" /\ cphase = "clear"
        /\ gpc = "relock" /\ gphase # "clear" => do[gphase]
        /\ cpc \in {"command", "notify"} /\ cphase # "clear" => gphase = cphase /\ gpc = "asleep"

GcInv == TypeOK /\ Holders /\ Flags /\ Agreed /\ Wakeups

-----------------------------------------------------------------------------
USE DEF TypeOK, Holders, Flags, Ordered, Agreed, Wakeups, GcInv, Window, Phases, GPCs, CPCs, SPCs,
        gcVars, collectorVars, GStep, CStep, SStep, Lock, Unlock, Wake, AsleepFor, Announce

(* What comes after a phase. *)
LEMMA PhaseFollows ==
    /\ Follows["clear"] = "mark" /\ Follows["mark"] = "sweep"
    /\ Follows["sweep"] = "finalize" /\ Follows["finalize"] = "clear"
BY DEF Follows

(* It holds of the object gc_thread_t constructs. *)
LEMMA InitHolds == Init => GcInv
BY DEF Init

(* The loop of the gc thread keeps to what the collector expects of it. *)
LEMMA GcPreserves == ASSUME GcInv, GcNext PROVE GcInv'
<1>1. CASE GcTop
  BY <1>1, SMTT(60) DEF GcTop, GcNext
<1>2. CASE GcLock
  BY <1>2, SMTT(60) DEF GcLock, GcNext
<1>3. CASE GcTest
  BY <1>3, SMTT(60) DEF GcTest, GcNext
<1>4. CASE GcEnrol
  BY <1>4, SMTT(60) DEF GcEnrol, GcNext
<1>5. CASE GcRelock
  BY <1>5, SMTT(60) DEF GcRelock, GcNext
<1>6. CASE GcWork
  BY <1>6, PhaseFollows, SMTT(60) DEF GcWork, GcNext
<1>. QED  BY <1>1, <1>2, <1>3, <1>4, <1>5, <1>6 DEF GcNext

(* So does the collector, which commands a phase only after it has seen the *)
(* one before done.                                                         *)
LEMMA CollectorPreserves == ASSUME GcInv, Collect \/ CollectorNext PROVE GcInv'
<1>1. CASE Collect
  BY <1>1, SMTT(60) DEF Collect
<1>2. CASE CAwait
  BY <1>2, SMTT(60) DEF CAwait, CollectorNext, Collect
<1>3. CASE CBegin
  BY <1>3, SMTT(60) DEF CBegin, CollectorNext, Collect
<1>4. CASE CReset
  BY <1>4, SMTT(60) DEF CReset, CollectorNext, Collect
<1>5. CASE CCommand
  BY <1>5, PhaseFollows, SMTT(60) DEF CCommand, CollectorNext, Collect
<1>6. CASE CNotify
  BY <1>6, PhaseFollows, SMTT(60) DEF CNotify, CollectorNext, Collect
<1>7. CASE CLock
  BY <1>7, SMTT(60) DEF CLock, CollectorNext, Collect
<1>8. CASE CTest
  BY <1>8, PhaseFollows, SMTT(60) DEF CTest, CollectorNext, Collect
<1>9. CASE CLeave
  BY <1>9, SMTT(60) DEF CLeave, CollectorNext, Collect
<1>. QED
  BY <1>1, <1>2, <1>3, <1>4, <1>5, <1>6, <1>7, <1>8, <1>9 DEF CollectorNext

(* A shutdown waits until the gc thread is idle, and keeps collectors out   *)
(* from then on.                                                            *)
LEMMA ShutdownPreserves == ASSUME GcInv, Shutdown \/ ShutdownNext PROVE GcInv'
<1>1. CASE Shutdown
  BY <1>1, SMTT(60) DEF Shutdown
<1>2. CASE SAwait
  BY <1>2, SMTT(60) DEF SAwait, ShutdownNext, Shutdown
<1>3. CASE SLock
  BY <1>3, SMTT(60) DEF SLock, ShutdownNext, Shutdown
<1>4. CASE SStop
  <2>1. /\ spc = "stop" /\ spc' = "wake" /\ ~m_run' /\ m_run' \in BOOLEAN
        /\ UNCHANGED <<m_mutex, do, done, gpc, gphase, cpc, cphase, kernel, spurious>>
    BY <1>4 DEF SStop, ShutdownNext, Shutdown
  <2>2. TypeOK'
    BY <2>1
  <2>3. Holders'
    BY <2>1
  <2>4. Flags' /\ Agreed' /\ Wakeups'
    BY <2>1
  <2>. QED  BY <2>2, <2>3, <2>4
<1>5. CASE SWake
  BY <1>5, SMTT(60) DEF SWake, ShutdownNext, Shutdown
<1>6. CASE SJoin
  BY <1>6, SMTT(60) DEF SJoin, ShutdownNext, Shutdown
<1>. QED  BY <1>1, <1>2, <1>3, <1>4, <1>5, <1>6 DEF ShutdownNext

(* A wakeup nobody sent sends its thread to test its predicate again. *)
LEMMA SpuriousPreserves == ASSUME GcInv, SpuriousWakeup PROVE GcInv'
BY SMTT(60) DEF SpuriousWakeup

(* The agreement of the two threads holds in every behaviour, with any      *)
(* number of collections, any shutdown and either kind of condition         *)
(* variable; the theorems below follow from it.                             *)
THEOREM Inductive == Spec => []GcInv
<1>1. GcInv /\ UNCHANGED vars => GcInv'
  BY DEF vars
<1>2. GcInv /\ [Next]_vars => GcInv'
  BY <1>1, GcPreserves, CollectorPreserves, ShutdownPreserves, SpuriousPreserves DEF Next
<1>. HIDE DEF GcInv
<1>. QED  BY <1>2, InitHolds, PTL DEF Spec

(* The states the code can be in have the types the model gives them. *)
THEOREM TypeCorrect == Spec => []TypeOK
<1>1. GcInv => TypeOK
  OBVIOUS
<1>. HIDE DEF GcInv, TypeOK
<1>. QED  BY <1>1, Inductive, PTL

(* start_mark, start_sweep and notify_all_threads_resumed notify without    *)
(* the mutex of the wait, and still no wakeup is lost: the collector has    *)
(* had the mutex after the gc thread tested its predicate, so that the gc   *)
(* thread is on the condition variable by the time its flag is set.         *)
THEOREM NoWakeupIsLost == Spec => []NoWakeupLost
<1>1. GcInv => NoWakeupLost
  BY DEF NoWakeupLost
<1>. HIDE DEF GcInv
<1>. QED  BY <1>1, Inductive, PTL

(* The collector never sleeps on a phase that is done, whatever wakes it:   *)
(* the gc thread announces a phase under the mutex the collector tests      *)
(* under.                                                                   *)
SleepsOnWork == cpc = "asleep" => ~done[cphase]

(* The wait_until_* calls miss no notification. *)
THEOREM CollectorIsWoken == Spec => []SleepsOnWork
<1>1. GcInv => SleepsOnWork
  BY DEF SleepsOnWork
<1>. HIDE DEF GcInv
<1>. QED  BY <1>1, Inductive, PTL

(* The gc thread clears, marks and sweeps only while the collector waits    *)
(* for that very phase with the kernel locked: this is what force_collect   *)
(* counts on when it lets no thread run until the wait is over.             *)
WorksWhileAwaited ==
    gpc = "work" /\ gphase # "finalize" =>
        kernel = "collector" /\ cphase = gphase /\ cpc \in {"notify", "lock", "asleep"}

(* The loop of the gc thread never works on the heap unasked. *)
THEOREM WorkIsAwaited == Spec => []WorksWhileAwaited
<1>1. GcInv => WorksWhileAwaited
  BY PhaseFollows DEF WorksWhileAwaited
<1>. HIDE DEF GcInv
<1>. QED  BY <1>1, Inductive, PTL

(* A gc thread that has left its loop is not waited for: a collection that  *)
(* was asked for before the shutdown finds its finalization done, and goes  *)
(* no further than the check for a gc thread.                               *)
NobodyWaitsForTheGone ==
    gpc = "exited" => done["finalize"] /\ cpc \in {"idle", "await", "begin"}

(* No collection hangs because the gc thread has been shut down. *)
THEOREM TheGoneAreNotAwaited == Spec => []NobodyWaitsForTheGone
<1>1. GcInv => NobodyWaitsForTheGone
  BY DEF NobodyWaitsForTheGone
<1>. HIDE DEF GcInv
<1>. QED  BY <1>1, Inductive, PTL

(* Who can take a step of the handshake, without ENABLED. *)
CollectorMayStep ==
    /\ cpc \notin {"idle", "asleep"}
    /\ cpc \in {"await", "reset", "lock"} \/ (cpc = "notify" /\ cphase = "clear") => m_mutex = "free"
    /\ cpc \in {"await", "begin"} => kernel = "free"
    /\ cpc = "await" => done["finalize"]

GcMayStep ==
    /\ gpc \notin {"asleep", "exited"}
    /\ gpc \in {"lock", "relock"} => m_mutex = "free"
    /\ gpc = "work" /\ gphase = "finalize" => kernel = "free"

(* While a collection is asked for, under way or being finalized, and no    *)
(* shutdown holds the kernel's mutexes, the collector or the gc thread can  *)
(* take a step: they never wait for each other.                             *)
HandshakeMoves ==
    ~spurious /\ kernel # "shutdown" /\ (cpc # "idle" \/ ~done["finalize"]) =>
        CollectorMayStep \/ GcMayStep

(* The gc thread and the collector, each waiting for flags the other sets,  *)
(* never both wait: the deadlock half of CollectorReturns, without the      *)
(* assumption that a shutdown ends.                                         *)
THEOREM HandshakeNeverStuck == Spec => []HandshakeMoves
<1>1. GcInv => HandshakeMoves
  <2>. SUFFICES ASSUME GcInv, ~spurious, kernel # "shutdown", cpc # "idle" \/ ~done["finalize"],
                       ~CollectorMayStep, ~GcMayStep
                PROVE  FALSE
    BY DEF HandshakeMoves
  <2>1. m_mutex = "free"
    BY DEF CollectorMayStep, GcMayStep
  <2>2. gpc \in {"asleep", "exited"} \/ (gpc = "work" /\ gphase = "finalize" /\ kernel # "free")
    BY <2>1 DEF GcMayStep
  <2>. QED  BY <2>1, <2>2, PhaseFollows, SMTT(60) DEF CollectorMayStep
<1>. HIDE DEF GcInv
<1>. QED  BY <1>1, Inductive, PTL

-----------------------------------------------------------------------------
(* The phase PhaseBarrier sees, for a loop that has come to gphase. *)
LEMMA PhaseOfLoop ==
    ASSUME GcInv
    PROVE  /\ done["finalize"] => BarrierPhase = "idle"
           /\ ~done["finalize"] /\ Ordered => BarrierPhase = gphase
           /\ ~done["finalize"] /\ ~Ordered =>
                /\ gphase = "clear" => BarrierPhase = "reset"
                /\ gphase = "mark" => BarrierPhase = "cleared"
                /\ gphase = "sweep" => BarrierPhase = "marked"
                /\ gphase = "finalize" => BarrierPhase = "swept"
<1>1. \A p \in Phases : Under(p) <=> p = gphase /\ Ordered
  BY DEF Under
<1>2. CASE done["finalize"]
  BY <1>2 DEF BarrierPhase
<1>3. CASE ~done["finalize"] /\ Ordered
  BY <1>1, <1>3 DEF BarrierPhase
<1>4. CASE ~done["finalize"] /\ ~Ordered
  BY <1>1, <1>4 DEF BarrierPhase
<1>. QED  BY <1>2, <1>3, <1>4

LEMMA PhaseOfLoopNext ==
    ASSUME GcInv'
    PROVE  /\ done'["finalize"] => BarrierPhase' = "idle"
           /\ ~done'["finalize"] /\ Ordered' => BarrierPhase' = gphase'
           /\ ~done'["finalize"] /\ ~Ordered' =>
                /\ gphase' = "clear" => BarrierPhase' = "reset"
                /\ gphase' = "mark" => BarrierPhase' = "cleared"
                /\ gphase' = "sweep" => BarrierPhase' = "marked"
                /\ gphase' = "finalize" => BarrierPhase' = "swept"
<1>1. \A p \in Phases : Under(p)' <=> p = gphase' /\ Ordered'
  BY DEF Under
<1>2. CASE done'["finalize"]
  BY <1>2 DEF BarrierPhase
<1>3. CASE ~done'["finalize"] /\ Ordered'
  BY <1>1, <1>3 DEF BarrierPhase
<1>4. CASE ~done'["finalize"] /\ ~Ordered'
  BY <1>1, <1>4 DEF BarrierPhase
<1>. QED  BY <1>2, <1>3, <1>4

(* The chain of phases, one by one. *)
LEMMA BarrierOrder ==
    /\ Barrier!Order["idle"] = "reset" /\ Barrier!Order["reset"] = "clear"
    /\ Barrier!Order["clear"] = "cleared" /\ Barrier!Order["cleared"] = "mark"
    /\ Barrier!Order["mark"] = "marked" /\ Barrier!Order["marked"] = "sweep"
    /\ Barrier!Order["sweep"] = "swept" /\ Barrier!Order["swept"] = "finalize"
    /\ Barrier!Order["finalize"] = "idle"
BY DEF Barrier!Order

(* A reset, a command and the end of a phase each take the chain one link   *)
(* further.                                                                 *)
LEMMA WorkAdvances == ASSUME GcInv, GcInv', GcWork PROVE Barrier!Next
<1>1. ~done["finalize"] /\ Ordered
  BY DEF GcWork
<1>2. CASE gphase = "finalize"
  <2>1. done'["finalize"]
    BY <1>2 DEF GcWork
  <2>. QED  BY <1>1, <1>2, <2>1, PhaseOfLoop, PhaseOfLoopNext, BarrierOrder DEF Barrier!Next
<1>3. CASE gphase # "finalize"
  <2>1. ~done'["finalize"] /\ ~Ordered' /\ gphase' = Follows[gphase]
    BY <1>1, <1>3, PhaseFollows DEF GcWork
  <2>. HIDE DEF GcInv
  <2>2. gphase \in Phases
    BY DEF GcInv
  <2>. QED
    BY <1>1, <1>3, <2>1, <2>2, PhaseFollows, PhaseOfLoop, PhaseOfLoopNext, BarrierOrder
       DEF Barrier!Next
<1>. QED  BY <1>2, <1>3

(* start_* begins a phase when the one before it is done. *)
LEMMA CommandAdvances == ASSUME GcInv, GcInv', CCommand PROVE Barrier!Next
<1>1. ~done["finalize"] /\ ~Ordered /\ gphase \in Phases
  BY DEF CCommand
<1>2. ~done'["finalize"] /\ Ordered' /\ gphase' = gphase
  BY DEF CCommand
<1>. HIDE DEF GcInv
<1>. QED  BY <1>1, <1>2, PhaseOfLoop, PhaseOfLoopNext, BarrierOrder DEF Barrier!Next

(* reset comes when the gc thread is idle. *)
LEMMA ResetAdvances == ASSUME GcInv, GcInv', CReset PROVE Barrier!Next
<1>1. done["finalize"]
  BY DEF CReset
<1>2. ~done'["finalize"] /\ ~Ordered' /\ gphase' = "clear"
  BY DEF CReset
<1>. HIDE DEF GcInv
<1>. QED  BY <1>1, <1>2, PhaseOfLoop, PhaseOfLoopNext, BarrierOrder DEF Barrier!Next

(* Everything else leaves the chain where it is. *)
LEMMA OthersStay ==
    ASSUME GcInv, GcInv', done'["finalize"] = done["finalize"], Ordered' <=> Ordered,
           gphase' = gphase
    PROVE  BarrierPhase' = BarrierPhase
<1>1. gphase \in Phases
  OBVIOUS
<1>. HIDE DEF GcInv
<1>. QED  BY <1>1, PhaseOfLoop, PhaseOfLoopNext

(* The flags implement the chain of phases, for any number of collections   *)
(* and with a shutdown at any moment.                                       *)
THEOREM PhasesAreInOrder == Spec => PhasesInOrder
<1>1. Init => Barrier!Init
  BY DEF Init, Barrier!Init, BarrierPhase
<1>2. ASSUME GcInv, GcInv', [Next]_vars PROVE [Barrier!Next]_BarrierPhase
  <2>1. CASE GcWork \/ CCommand \/ CReset
    BY <1>2, <2>1, WorkAdvances, CommandAdvances, ResetAdvances
  <2>2. CASE GcTop \/ GcLock \/ GcTest \/ GcEnrol \/ GcRelock
    <3>1. done' = done /\ gphase' = gphase /\ (Ordered' <=> Ordered)
      BY <1>2, <2>2 DEF GcTop, GcLock, GcTest, GcEnrol, GcRelock
    <3>. QED  BY <1>2, <3>1, OthersStay
  <2>3. CASE \/ Collect \/ CAwait \/ CBegin \/ CNotify \/ CLock \/ CTest \/ CLeave
             \/ Shutdown \/ ShutdownNext \/ SpuriousWakeup \/ UNCHANGED vars
    <3>1. done' = done /\ gphase' = gphase /\ (Ordered' <=> Ordered)
      BY <1>2, <2>3 DEF Collect, CAwait, CBegin, CNotify, CLock, CTest, CLeave, Shutdown,
           ShutdownNext, SAwait, SLock, SStop, SWake, SJoin, SpuriousWakeup, vars
    <3>. QED  BY <1>2, <3>1, OthersStay
  <2>. QED  BY <1>2, <2>1, <2>2, <2>3 DEF Next, GcNext, CollectorNext
<1>. HIDE DEF GcInv
<1>. QED  BY <1>1, <1>2, Inductive, PTL DEF Spec, PhasesInOrder, Barrier!Spec
=============================================================================
