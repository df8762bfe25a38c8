----------------------------- MODULE KernelLife -----------------------------
(***************************************************************************)
(* How kernels come and go: the first call constructs one, the first       *)
(* registration starts its gc thread, cgc_shutdown joins that thread and   *)
(* forgets the kernel, a later call constructs another one, and the static *)
(* destructors of the process destroy the last.  Kernels are model values; *)
(* each object has its own although memory may be used again.              *)
(***************************************************************************)
EXTENDS Naturals

CONSTANTS
    Threads,    \* threads of the program
    Kernels,    \* the kernels that can be constructed, a bound
    Null,       \* nullptr
    Orderly     \* TRUE: construction, shutdown and exit overlap no other call

ASSUME NullAssumption == Null \notin Kernels \cup Threads
ASSUME OrderlyAssumption == Orderly \in BOOLEAN

VARIABLES
    g_gks,          \* the global pointer the calls use
    gks,            \* the static unique_ptr that owns the kernel
    cached,         \* what _real_gks saw last
    kstate,         \* the life of each kernel
    mutex,          \* m_mutex and m_thread_mutex of each kernel, taken together
    m_threads,
    internal,       \* whether a kernel holds memory from its own internal allocator
    m_initialized,
    m_gc_threads,   \* whether the kernel owns a gc_thread_t
    gc,             \* the gc thread of each kernel
    m_run,
    joins,          \* how often it was joined
    details,        \* who owns the details of the gc thread's start
    t_tlks,         \* the kernel that made the state t_tlks points to, dangling or not
    pc, call,       \* where each thread is, and the call it is to make next
    mine,           \* the kernel a thread constructs or destroys
    ended           \* how the process ended

globals     == <<g_gks, gks, cached>>
kernelVars  == <<kstate, mutex, m_threads, internal, m_initialized, m_gc_threads>>
gcVars      == <<gc, m_run, joins, details>>
threadVars  == <<t_tlks, pc, call, mine>>
vars == <<globals, kernelVars, gcVars, threadVars, ended>>

CreatePCs   == {"construct", "assign", "publish", "initialize"}
DestroyPCs  == {"d_stop", "d_join", "d_clear", "d_release"}
ShutdownPCs == {"s_lock", "s_stop", "s_join", "s_forget"}
CallPCs     == {"register", "u_initialize", "start", "push", "add_root", "remove_root"}
PCs         == {"idle"} \cup CreatePCs \cup DestroyPCs \cup ShutdownPCs \cup CallPCs

KernelStates == {"none", "constructed", "ready", "dead"}
GcStates     == {"none", "running", "left", "returned", "exited"}
Owners       == {"nobody", "creator", "thread", "freed", "freed twice"}

Init ==
    /\ g_gks = Null /\ gks = Null /\ cached = Null
    /\ kstate = [k \in Kernels |-> "none"]
    /\ mutex = [k \in Kernels |-> Null]
    /\ m_threads = [k \in Kernels |-> {}]
    /\ internal = [k \in Kernels |-> FALSE]
    /\ m_initialized = [k \in Kernels |-> FALSE]
    /\ m_gc_threads = [k \in Kernels |-> FALSE]
    /\ gc = [k \in Kernels |-> "none"]
    /\ m_run = [k \in Kernels |-> FALSE]
    /\ joins = [k \in Kernels |-> 0]
    /\ details = [k \in Kernels |-> "nobody"]
    /\ t_tlks = [t \in Threads |-> Null]
    /\ pc = [t \in Threads |-> "idle"]
    /\ call = [t \in Threads |-> "idle"]
    /\ mine = [t \in Threads |-> Null]
    /\ ended = "no"

Goto(t, from, to) == pc[t] = from /\ pc' = [pc EXCEPT ![t] = to]

(* Slip: the mutex is recorded as its own holder. *)
TakeBug(t, k) == mutex[k] = Null /\ mutex' = [mutex EXCEPT ![k] = k]

Take(t, k)        == mutex[k] = Null /\ mutex' = [mutex EXCEPT ![k] = t]
Give(k)           == mutex' = [mutex EXCEPT ![k] = Null]

(* _real_gks: the kernel there is, or the last one seen; it remembers. *)
RealGks  == IF g_gks # Null THEN g_gks ELSE cached
Remember == cached' = RealGks

-----------------------------------------------------------------------------
(* What a program does. *)

Idle(S) == \A u \in S : pc[u] = "idle"

(* A call may begin: in an orderly program not beside a construction or a   *)
(* shutdown, and a call that constructs only when no other is under way.    *)
MayCall(t) ==
    /\ pc[t] = "idle"
    /\ Orderly => \A u \in Threads : pc[u] \in {"idle"} \cup CallPCs

MayChange(t) == pc[t] = "idle" /\ (Orderly => Idle(Threads))

(* check_initialized, made by cgc_register_thread and cgc_add_root. *)
CheckInitialized(t, next) ==
    /\ IF g_gks = Null THEN MayChange(t) ELSE MayCall(t)
    /\ pc' = [pc EXCEPT ![t] = IF g_gks = Null THEN "construct" ELSE next]
    /\ call' = [call EXCEPT ![t] = next]
    /\ UNCHANGED <<globals, kernelVars, gcVars, t_tlks, mine, ended>>

CallRegister(t) == CheckInitialized(t, "register")
CallAddRoot(t)  == CheckInitialized(t, "add_root")

(* Slip: the test for a kernel that is gone is missing. *)
CallRemoveRootBug(t) ==
    /\ MayCall(t)
    /\ pc' = [pc EXCEPT ![t] = "remove_root"]
    /\ UNCHANGED <<globals, kernelVars, gcVars, t_tlks, call, mine, ended>>

(* Handles outlive a shutdown: with no kernel there is no root to remove.   *)
CallRemoveRoot(t) ==
    /\ MayCall(t)
    /\ g_gks # Null
    /\ pc' = [pc EXCEPT ![t] = "remove_root"]
    /\ UNCHANGED <<globals, kernelVars, gcVars, t_tlks, call, mine, ended>>

(* The collection of roots is changed under the collection lock. *)
ChangeRoots(t) ==
    /\ Goto(t, "add_root", "idle") \/ Goto(t, "remove_root", "idle")
    /\ mutex[g_gks] = Null
    /\ UNCHANGED <<globals, kernelVars, gcVars, t_tlks, call, mine, ended>>

-----------------------------------------------------------------------------
(* Construction. *)

(* make_unique_malloc, and the constructor of the kernel. *)
Construct(t) ==
    /\ Goto(t, "construct", "assign")
    /\ \E k \in Kernels :
        /\ kstate[k] = "none"
        /\ kstate' = [kstate EXCEPT ![k] = "constructed"]
        /\ mine' = [mine EXCEPT ![t] = k]
    /\ UNCHANGED <<globals, mutex, m_threads, internal, m_initialized, m_gc_threads, gcVars,
                   t_tlks, call, ended>>

(* Slip: the pointer is published with the assignment, before the old       *)
(* kernel is gone.                                                          *)
AssignBug(t) ==
    /\ pc[t] = "assign"
    /\ pc' = [pc EXCEPT ![t] = IF gks = Null THEN "publish" ELSE "d_stop"]
    /\ gks' = mine[t] /\ g_gks' = mine[t]
    /\ mine' = [mine EXCEPT ![t] = gks]
    /\ UNCHANGED <<cached, kernelVars, gcVars, t_tlks, call, ended>>

(* The assignment to the unique_ptr, which destroys the kernel it held. *)
Assign(t) ==
    /\ pc[t] = "assign"
    /\ pc' = [pc EXCEPT ![t] = IF gks = Null THEN "publish" ELSE "d_stop"]
    /\ gks' = mine[t]
    /\ mine' = [mine EXCEPT ![t] = gks]
    /\ UNCHANGED <<g_gks, cached, kernelVars, gcVars, t_tlks, call, ended>>

Publish(t) ==
    /\ Goto(t, "publish", "initialize")
    /\ g_gks' = gks
    /\ UNCHANGED <<gks, cached, kernelVars, gcVars, t_tlks, call, mine, ended>>

(* initialize throws when it is called a second time. *)
Initialize(t) ==
    /\ Goto(t, "initialize", IF kstate[gks] = "constructed" THEN call[t] ELSE "idle")
    /\ kstate' = [kstate EXCEPT ![gks] = "ready"]
    /\ UNCHANGED <<globals, mutex, m_threads, internal, m_initialized, m_gc_threads, gcVars,
                   t_tlks, call, mine, ended>>

-----------------------------------------------------------------------------
(* Registration. *)

(* The mutexes are taken; a thread that has a t_tlks, be it that of another *)
(* kernel or one it has given up, terminates the program.                   *)
Register(t) ==
    /\ pc[t] = "register"
    /\ Take(t, g_gks)
    /\ mine' = [mine EXCEPT ![t] = g_gks]
    /\ IF t_tlks[t] = Null
          THEN /\ pc' = [pc EXCEPT ![t] = "u_initialize"]
               /\ t_tlks' = [t_tlks EXCEPT ![t] = g_gks]
               /\ UNCHANGED ended
          ELSE ended' = "terminate" /\ UNCHANGED <<pc, t_tlks>>
    /\ UNCHANGED <<globals, kstate, m_threads, internal, m_initialized, m_gc_threads, gcVars, call>>

(* Slip: the kernel counts as initialized before it has its gc thread. *)
UInitializeBug(t) ==
    /\ Goto(t, "u_initialize", IF m_initialized[mine[t]] THEN "push" ELSE "start")
    /\ m_initialized' = [m_initialized EXCEPT ![mine[t]] = TRUE]
    /\ UNCHANGED <<globals, kstate, mutex, m_threads, internal, m_gc_threads, t_tlks, call, mine, ended>>
    /\ IF m_initialized[mine[t]] THEN UNCHANGED gcVars
       ELSE /\ m_run' = [m_run EXCEPT ![mine[t]] = TRUE]
            /\ details' = [details EXCEPT ![mine[t]] = "creator"]
            /\ UNCHANGED <<gc, joins>>

(* _u_initialize makes the gc thread once, with the details of its start.   *)
(* After a start that failed the next registration comes here again and     *)
(* initializes the collected heap a second time (line 576), which is the    *)
(* allocator's matter and not modelled; the signal handler it installs      *)
(* again (574) is the one installed already.                                *)
UInitialize(t) ==
    /\ Goto(t, "u_initialize", IF m_initialized[mine[t]] THEN "push" ELSE "start")
    /\ UNCHANGED <<globals, kernelVars, t_tlks, call, mine, ended>>
    /\ IF m_initialized[mine[t]] THEN UNCHANGED gcVars
       ELSE /\ m_run' = [m_run EXCEPT ![mine[t]] = TRUE]
            /\ details' = [details EXCEPT ![mine[t]] = "creator"]
            /\ UNCHANGED <<gc, joins>>

Freed(k) == details' = [details EXCEPT ![k] = IF @ = "freed" THEN "freed twice" ELSE "freed"]

(* pthread_create: the new thread owns the details from here on. *)
Start(t) ==
    /\ Goto(t, "start", "push")
    /\ gc' = [gc EXCEPT ![mine[t]] = "running"]
    /\ details' = [details EXCEPT ![mine[t]] = "thread"]
    /\ m_gc_threads' = [m_gc_threads EXCEPT ![mine[t]] = TRUE]
    /\ m_initialized' = [m_initialized EXCEPT ![mine[t]] = TRUE]
    /\ UNCHANGED <<globals, kstate, mutex, m_threads, internal, m_run, joins, t_tlks, call, mine, ended>>

(* Slip: the details released for the thread are not taken back. *)
StartFailsBug(t) ==
    /\ Goto(t, "start", "idle")
    /\ Give(mine[t])
    /\ UNCHANGED <<globals, kstate, m_threads, internal, m_initialized, m_gc_threads, gcVars,
                   t_tlks, call, mine, ended>>

(* pthread_create fails: the details are taken back and destroyed, and the  *)
(* exception leaves the registration, t_tlks being set already.             *)
StartFails(t) ==
    /\ Goto(t, "start", "idle")
    /\ Freed(mine[t])
    /\ Give(mine[t])
    /\ UNCHANGED <<globals, kstate, m_threads, internal, m_initialized, m_gc_threads,
                   gc, m_run, joins, t_tlks, call, mine, ended>>

(* m_threads grows in memory of the internal allocator. *)
Push(t) ==
    /\ Goto(t, "push", "idle")
    /\ m_threads' = [m_threads EXCEPT ![mine[t]] = @ \cup {t}]
    /\ internal' = [internal EXCEPT ![RealGks] = TRUE]
    /\ Remember
    /\ Give(mine[t])
    /\ UNCHANGED <<g_gks, gks, kstate, m_initialized, m_gc_threads, gcVars, t_tlks, call, mine, ended>>

(* cgc_unregister_thread, by a thread that is registered. *)
Unregister(t) ==
    /\ MayCall(t)
    /\ g_gks # Null /\ t \in m_threads[g_gks] /\ mutex[g_gks] = Null
    /\ m_threads' = [m_threads EXCEPT ![g_gks] = @ \ {t}]
    /\ UNCHANGED <<globals, kstate, mutex, internal, m_initialized, m_gc_threads, gcVars,
                   threadVars, ended>>

-----------------------------------------------------------------------------
(* cgc_shutdown. *)

CallShutdown(t) ==
    /\ MayChange(t)
    /\ g_gks # Null
    /\ pc' = [pc EXCEPT ![t] = "s_lock"]
    /\ UNCHANGED <<globals, kernelVars, gcVars, t_tlks, call, mine, ended>>

SLock(t) ==
    /\ Goto(t, "s_lock", "s_stop")
    /\ Take(t, g_gks)
    /\ mine' = [mine EXCEPT ![t] = g_gks]
    /\ UNCHANGED <<globals, kstate, m_threads, internal, m_initialized, m_gc_threads, gcVars,
                   t_tlks, call, ended>>

(* ~gc_thread_t tells the thread to stop unless it was told before. *)
SStop(t) ==
    LET k == mine[t] IN
    /\ Goto(t, "s_stop", IF m_gc_threads[k] /\ m_run[k] THEN "s_join" ELSE "s_forget")
    /\ m_run' = [m_run EXCEPT ![k] = IF m_gc_threads[k] THEN FALSE ELSE @]
    /\ UNCHANGED <<globals, kernelVars, gc, joins, details, t_tlks, call, mine, ended>>

(* Slip: the thread is told to stop but not joined. *)
SJoinBug(t) ==
    /\ Goto(t, "s_join", "s_forget")
    /\ UNCHANGED <<globals, kernelVars, gcVars, t_tlks, call, mine, ended>>

SJoin(t) ==
    /\ Goto(t, "s_join", "s_forget")
    /\ gc[mine[t]] = "exited"
    /\ joins' = [joins EXCEPT ![mine[t]] = @ + 1]
    /\ UNCHANGED <<globals, kernelVars, gc, m_run, details, t_tlks, call, mine, ended>>

(* The gc_thread_t is destroyed, the mutexes are given back, and the kernel *)
(* is forgotten.  It lives on in the unique_ptr.                            *)
SForget(t) ==
    /\ Goto(t, "s_forget", "idle")
    /\ m_gc_threads' = [m_gc_threads EXCEPT ![mine[t]] = FALSE]
    /\ Give(mine[t])
    /\ g_gks' = Null
    /\ UNCHANGED <<gks, cached, kstate, m_threads, internal, m_initialized, gcVars,
                   t_tlks, call, mine, ended>>

-----------------------------------------------------------------------------
(* ~global_kernel_state_t, of mine[t]. *)

(* The static destructor of the unique_ptr. *)
Exit(t) ==
    /\ MayChange(t)
    /\ gks # Null
    /\ pc' = [pc EXCEPT ![t] = "d_stop"]
    /\ call' = [call EXCEPT ![t] = "exit"]
    /\ mine' = [mine EXCEPT ![t] = gks]
    /\ UNCHANGED <<globals, kernelVars, gcVars, t_tlks, ended>>

(* Each gc thread still there is shut down. *)
DStop(t) ==
    LET k == mine[t] IN
    /\ Goto(t, "d_stop", IF m_gc_threads[k] THEN "d_join" ELSE "d_release")
    /\ m_run' = [m_run EXCEPT ![k] = IF m_gc_threads[k] THEN FALSE ELSE @]
    /\ UNCHANGED <<globals, kernelVars, gc, joins, details, t_tlks, call, mine, ended>>

DJoin(t) ==
    /\ Goto(t, "d_join", "d_clear")
    /\ gc[mine[t]] = "exited"
    /\ joins' = [joins EXCEPT ![mine[t]] = @ + 1]
    /\ UNCHANGED <<globals, kernelVars, gc, m_run, details, t_tlks, call, mine, ended>>

(* Slip: ~gc_thread_t shuts the thread down without looking at m_run. *)
DClearBug(t) ==
    LET k == mine[t] IN
    /\ Goto(t, "d_clear", "d_release")
    /\ m_gc_threads' = [m_gc_threads EXCEPT ![k] = FALSE]
    /\ joins' = [joins EXCEPT ![k] = @ + 1]
    /\ UNCHANGED <<globals, kstate, mutex, m_threads, internal, m_initialized,
                   gc, m_run, details, t_tlks, call, mine, ended>>

(* ~gc_thread_t again, for a thread that was shut down before. *)
DClear(t) ==
    LET k == mine[t] IN
    /\ Goto(t, "d_clear", "d_release")
    /\ m_gc_threads' = [m_gc_threads EXCEPT ![k] = FALSE]
    /\ joins' = [joins EXCEPT ![k] = IF m_run[k] THEN @ + 1 ELSE @]
    /\ UNCHANGED <<globals, kstate, mutex, m_threads, internal, m_initialized,
                   gc, m_run, details, t_tlks, call, mine, ended>>

(* The lists give back what they hold of the internal allocator, which is   *)
(* shut down last.                                                          *)
DRelease(t) ==
    LET k == mine[t] IN
    /\ Goto(t, "d_release", IF call[t] = "exit" THEN "idle" ELSE "publish")
    /\ m_threads' = [m_threads EXCEPT ![k] = {}]
    /\ internal' = [internal EXCEPT ![k] = FALSE]
    /\ IF internal[k] THEN Remember ELSE UNCHANGED cached
    /\ kstate' = [kstate EXCEPT ![k] = "dead"]
    /\ ended' = IF call[t] = "exit" THEN "exit" ELSE ended
    /\ UNCHANGED <<g_gks, gks, mutex, m_initialized, m_gc_threads, gcVars, t_tlks, call, mine>>

-----------------------------------------------------------------------------
(* The gc thread of k, from the lambda it was started with. *)

GcStep(k, from, to) == gc[k] = from /\ gc' = [gc EXCEPT ![k] = to]

(* _run returns. *)
GcRunReturns(k) ==
    /\ GcStep(k, "running", "left")
    /\ ~m_run[k]
    /\ UNCHANGED <<globals, kernelVars, m_run, joins, details, threadVars, ended>>

(* _real_gks()->_internal_allocator().destroy_thread() *)
GcDestroyThread(k) ==
    /\ GcStep(k, "left", "returned")
    /\ Remember
    /\ UNCHANGED <<g_gks, gks, kernelVars, m_run, joins, details, threadVars, ended>>

(* _s_run destroys the details it has taken over. *)
GcExit(k) ==
    /\ GcStep(k, "returned", "exited")
    /\ Freed(k)
    /\ UNCHANGED <<globals, kernelVars, m_run, joins, threadVars, ended>>

-----------------------------------------------------------------------------

CallNext(t) ==
    \/ CallRegister(t) \/ CallAddRoot(t) \/ CallRemoveRoot(t) \/ Unregister(t)
    \/ CallShutdown(t) \/ Exit(t)

CreateNext(t) == Construct(t) \/ Assign(t) \/ Publish(t) \/ Initialize(t)

RegisterNext(t) ==
    Register(t) \/ UInitialize(t) \/ Start(t) \/ StartFails(t) \/ Push(t) \/ ChangeRoots(t)

ShutdownNext(t) == SLock(t) \/ SStop(t) \/ SJoin(t) \/ SForget(t)

DestroyNext(t) == DStop(t) \/ DJoin(t) \/ DClear(t) \/ DRelease(t)

GcNext(k) == GcRunReturns(k) \/ GcDestroyThread(k) \/ GcExit(k)

Next ==
    /\ ended = "no"
    /\ \/ \E t \in Threads :
            CallNext(t) \/ CreateNext(t) \/ RegisterNext(t) \/ ShutdownNext(t) \/ DestroyNext(t)
       \/ \E k \in Kernels : GcNext(k)

Spec == Init /\ [][Next]_vars

-----------------------------------------------------------------------------
(* Properties. *)

TypeOK ==
    /\ g_gks \in Kernels \cup {Null} /\ gks \in Kernels \cup {Null} /\ cached \in Kernels \cup {Null}
    /\ kstate \in [Kernels -> KernelStates]
    /\ mutex \in [Kernels -> Threads \cup {Null}]
    /\ m_threads \in [Kernels -> SUBSET Threads]
    /\ internal \in [Kernels -> BOOLEAN] /\ m_initialized \in [Kernels -> BOOLEAN]
    /\ m_gc_threads \in [Kernels -> BOOLEAN]
    /\ gc \in [Kernels -> GcStates] /\ m_run \in [Kernels -> BOOLEAN]
    /\ joins \in [Kernels -> Nat]
    /\ details \in [Kernels -> Owners]
    /\ t_tlks \in [Threads -> Kernels \cup {Null}]
    /\ pc \in [Threads -> PCs] /\ call \in [Threads -> {"idle", "register", "add_root", "exit"}]
    /\ mine \in [Threads -> Kernels \cup {Null}]
    /\ ended \in {"no", "terminate", "exit"}

(* The calls read g_gks again after they have tested it, without a lock     *)
(* (kernel.cpp 171-239): what they find there is a kernel that has been     *)
(* initialized and not been destroyed.                                      *)
KernelUsable ==
    /\ \A t \in Threads : pc[t] \in {"register", "add_root", "remove_root", "s_lock"} =>
            g_gks # Null /\ kstate[g_gks] = "ready"
    /\ \A t \in Threads : pc[t] \in {"u_initialize", "start", "push", "s_stop", "s_join"} =>
            kstate[mine[t]] = "ready"

(* A kernel is never lost: one that is not dead is the one gks owns, or     *)
(* somebody is about to give it to gks or is destroying it.  So there is    *)
(* one kernel between calls.                                                *)
NoKernelLost ==
    \A k \in Kernels : kstate[k] \in {"constructed", "ready"} =>
        \/ k = gks
        \/ \E t \in Threads : mine[t] = k /\ pc[t] \in {"assign"} \cup DestroyPCs

(* A gc thread uses its object and its kernel to the last statement of its  *)
(* lambda: both are there until it has finished, and _real_gks finds its    *)
(* own kernel although the shutdown is under way.                           *)
GcThreadInItsKernel ==
    \A k \in Kernels : gc[k] \in {"running", "left"} =>
        /\ kstate[k] = "ready" /\ m_gc_threads[k]
        /\ RealGks = k

(* The destructor of a kernel gives memory back through _real_gks, with     *)
(* g_gks null or of another kernel: it must reach the allocator it is from. *)
InternalMemoryHome ==
    \A t \in Threads : pc[t] = "d_release" /\ internal[mine[t]] => RealGks = mine[t]

(* shutdown may run twice on a gc_thread_t, from ~global_kernel_state_t and *)
(* from ~gc_thread_t; the thread is joined once, and no kernel dies with a  *)
(* thread that was not.                                                     *)
JoinedOnce ==
    \A k \in Kernels :
        /\ joins[k] <= 1
        /\ kstate[k] = "dead" => (gc[k] = "none" \/ joins[k] = 1)

(* The details of a thread's start pass from the creator to the thread or   *)
(* back, and are destroyed once, whether or not the thread could be made.   *)
DetailsFreedOnce ==
    \A k \in Kernels :
        /\ details[k] # "freed twice"
        /\ details[k] = "creator" => \E t \in Threads : pc[t] = "start" /\ mine[t] = k
        /\ gc[k] = "exited" => details[k] = "freed"

(* A kernel that is not being destroyed has registered threads only with a  *)
(* gc thread to serve them, also after an attempt to start one has failed.  *)
MembersHaveGcThread ==
    g_gks # Null /\ m_threads[g_gks] # {} =>
        \/ m_gc_threads[g_gks] /\ gc[g_gks] # "none"
        \/ \E t \in Threads : pc[t] \in DestroyPCs /\ mine[t] = g_gks
=============================================================================
