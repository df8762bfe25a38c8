-------------------------- MODULE KernelLifeProofs --------------------------
(***************************************************************************)
(* The life of kernels in an orderly program, for any number of threads    *)
(* and of kernels constructed one after the other.                         *)
(***************************************************************************)
EXTENDS KernelLife, TLAPS

ChangePCs == CreatePCs \cup DestroyPCs \cup ShutdownPCs
HoldPCs   == {"u_initialize", "start", "push", "s_stop", "s_join", "s_forget"}

(* Construction, shutdown and exit overlap no other call. *)
Serial ==
    \A t, u \in Threads : pc[t] \in ChangePCs /\ pc[u] # "idle" => t = u

(* Which kernel the pointers name at each point of a call. *)
Stage(t) ==
    /\ pc[t] \in CallPCs \cup ShutdownPCs => g_gks # Null
    /\ pc[t] \in HoldPCs => mine[t] = g_gks /\ mutex[g_gks] = t
    /\ pc[t] \in CreatePCs \cup DestroyPCs => call[t] # "idle"
    /\ pc[t] \in CreatePCs => call[t] # "exit"
    /\ pc[t] = "construct" => g_gks = Null
    /\ pc[t] = "assign" =>
           g_gks = Null /\ mine[t] \notin {Null, gks} /\ kstate[mine[t]] = "constructed"
    /\ pc[t] = "publish" => g_gks = Null
    /\ pc[t] = "initialize" => g_gks = gks
    /\ pc[t] \in {"publish", "initialize"} => gks # Null /\ kstate[gks] = "constructed"
    /\ pc[t] \in DestroyPCs =>
           /\ gks # Null /\ mine[t] # Null /\ kstate[mine[t]] = "ready"
           /\ IF call[t] = "exit" THEN mine[t] = gks
              ELSE g_gks = Null /\ mine[t] # gks /\ kstate[gks] = "constructed"

(* Between the calls that change it the kernel gks owns is initialized, and *)
(* g_gks names it or none.                                                  *)
Pointers ==
    /\ g_gks \in {Null, gks}
    /\ ended # "exit" /\ gks # Null =>
           \/ kstate[gks] = "ready"
           \/ \E t \in Threads :
                pc[t] \in {"publish", "initialize"} \cup DestroyPCs

(* What the gc thread of a kernel, the thread that joins it and the owner   *)
(* of its details have done at each point of its life.                      *)
GcLife(k) ==
    /\ kstate[k] \in {"none", "constructed"} => gc[k] = "none" /\ details[k] = "nobody"
    /\ gc[k] = "none" =>
           /\ ~m_initialized[k] /\ ~m_gc_threads[k] /\ joins[k] = 0
           /\ details[k] \in {"nobody", "creator", "freed"}
    /\ gc[k] # "none" => m_initialized[k]
    /\ gc[k] \in {"running", "left", "returned"} =>
           details[k] = "thread" /\ m_gc_threads[k] /\ joins[k] = 0
    /\ gc[k] \in {"left", "returned", "exited"} => ~m_run[k]
    /\ gc[k] = "exited" => details[k] = "freed"
    /\ m_gc_threads[k] => g_gks = k /\ kstate[k] = "ready"
    /\ ~m_gc_threads[k] /\ gc[k] # "none" => gc[k] = "exited" /\ joins[k] = 1
    /\ joins[k] \in {0, 1}

(* Who is about to join a gc thread that was told to stop, and who is about *)
(* to start the one whose details are made.                                 *)
Owned(k) ==
    /\ m_gc_threads[k] /\ ~m_run[k] =>
           \E t \in Threads : mine[t] = k /\ pc[t] \in {"s_join", "s_forget", "d_join", "d_clear"}
    /\ details[k] = "creator" => \E t \in Threads : pc[t] = "start" /\ mine[t] = k

(* Where the threads that start or join the gc thread are. *)
Joining(t) ==
    /\ pc[t] \in {"s_join", "d_join"} =>
           m_gc_threads[mine[t]] /\ ~m_run[mine[t]] /\ joins[mine[t]] = 0
    /\ pc[t] = "s_forget" /\ m_gc_threads[mine[t]] => ~m_run[mine[t]] /\ joins[mine[t]] = 1
    /\ pc[t] = "d_clear" => m_gc_threads[mine[t]] /\ ~m_run[mine[t]] /\ joins[mine[t]] = 1
    /\ pc[t] \in {"s_forget", "d_clear"} /\ m_gc_threads[mine[t]] => gc[mine[t]] = "exited"
    /\ pc[t] = "d_release" => ~m_gc_threads[mine[t]]
    /\ pc[t] = "start" =>
           m_run[mine[t]] /\ ~m_initialized[mine[t]] /\ details[mine[t]] = "creator"
    /\ pc[t] = "push" => m_initialized[mine[t]]

(* Members and memory of a kernel. *)
Members(k) ==
    /\ m_threads[k] # {} => m_initialized[k]
    /\ internal[k] => cached = k /\ kstate[k] = "ready"
    /\ ended # "exit" /\ g_gks = k /\ m_initialized[k] =>
           m_gc_threads[k] \/ \E t \in Threads : pc[t] = "d_release" /\ mine[t] = k
    /\ ended = "exit" /\ g_gks = k => m_threads[k] = {}

(* A process that has ended is in no call. *)
Ending == ended = "exit" => \A t \in Threads : pc[t] = "idle"

(* The inductive invariant. *)
LifeInv ==
    /\ TypeOK /\ Ending /\ Serial /\ Pointers /\ NoKernelLost
    /\ \A t \in Threads : Stage(t) /\ Joining(t)
    /\ \A k \in Kernels : GcLife(k) /\ Owned(k) /\ Members(k)

USE NullAssumption, OrderlyAssumption DEF globals, kernelVars, gcVars, threadVars

-----------------------------------------------------------------------------
(* Each action preserves the invariant. *)

USE DEF LifeInv, TypeOK, Serial, Stage, Pointers, PCs, ChangePCs, HoldPCs, CreatePCs, DestroyPCs,
        ShutdownPCs, CallPCs, Goto

(* A registration that begins changes no kernel. *)
LEMMA CallRegisterKeeps ==
    ASSUME LifeInv, Orderly, ended = "no", NEW t \in Threads, CallRegister(t)
    PROVE  LifeInv'
<1>1. TypeOK'
  BY DEF KernelStates, GcStates, Owners, CallRegister, CheckInitialized, MayChange, MayCall,
     Idle
<1>2. Serial' /\ Ending'
  BY DEF Ending, CallRegister, CheckInitialized, MayChange, MayCall, Idle
<1>3. Pointers' /\ NoKernelLost'
  BY DEF NoKernelLost, CallRegister, CheckInitialized, MayChange, MayCall, Idle
<1>4. ASSUME NEW u \in Threads PROVE Stage(u)'
  BY DEF CallRegister, CheckInitialized, MayChange, MayCall, Idle
<1>5. ASSUME NEW u \in Threads PROVE Joining(u)'
  BY DEF Joining, GcLife, Members, CallRegister, CheckInitialized, MayChange, MayCall, Idle
<1>6. ASSUME NEW m \in Kernels PROVE GcLife(m)'
  BY DEF KernelStates, GcStates, Joining, GcLife, CallRegister, CheckInitialized, MayChange,
     MayCall, Idle
<1>7. ASSUME NEW m \in Kernels PROVE Owned(m)'
  BY DEF KernelStates, GcStates, Joining, GcLife, Owned, CallRegister, CheckInitialized,
     MayChange, MayCall, Idle
<1>8. ASSUME NEW m \in Kernels PROVE Members(m)'
  BY DEF NoKernelLost, Joining, GcLife, Members, CallRegister, CheckInitialized, MayChange,
     MayCall, Idle
<1>. QED  BY <1>1, <1>2, <1>3, <1>4, <1>5, <1>6, <1>7, <1>8

(* Neither does the addition of a root. *)
LEMMA CallAddRootKeeps ==
    ASSUME LifeInv, Orderly, ended = "no", NEW t \in Threads, CallAddRoot(t)
    PROVE  LifeInv'
<1>1. TypeOK'
  BY DEF KernelStates, GcStates, Owners, CallAddRoot, CheckInitialized, MayChange, MayCall, Idle
<1>2. Serial' /\ Ending'
  BY DEF Ending, CallAddRoot, CheckInitialized, MayChange, MayCall, Idle
<1>3. Pointers' /\ NoKernelLost'
  BY DEF NoKernelLost, CallAddRoot, CheckInitialized, MayChange, MayCall, Idle
<1>4. ASSUME NEW u \in Threads PROVE Stage(u)'
  BY DEF CallAddRoot, CheckInitialized, MayChange, MayCall, Idle
<1>5. ASSUME NEW u \in Threads PROVE Joining(u)'
  BY DEF Joining, GcLife, Members, CallAddRoot, CheckInitialized, MayChange, MayCall, Idle
<1>6. ASSUME NEW m \in Kernels PROVE GcLife(m)'
  BY DEF KernelStates, GcStates, Joining, GcLife, CallAddRoot, CheckInitialized, MayChange,
     MayCall, Idle
<1>7. ASSUME NEW m \in Kernels PROVE Owned(m)'
  BY DEF KernelStates, GcStates, Joining, GcLife, Owned, CallAddRoot, CheckInitialized,
     MayChange, MayCall, Idle
<1>8. ASSUME NEW m \in Kernels PROVE Members(m)'
  BY DEF NoKernelLost, Joining, GcLife, Members, CallAddRoot, CheckInitialized, MayChange,
     MayCall, Idle
<1>. QED  BY <1>1, <1>2, <1>3, <1>4, <1>5, <1>6, <1>7, <1>8

(* Removing a root begins only with a kernel. *)
LEMMA CallRemoveRootKeeps ==
    ASSUME LifeInv, Orderly, ended = "no", NEW t \in Threads, CallRemoveRoot(t)
    PROVE  LifeInv'
<1>1. TypeOK'
  BY DEF KernelStates, GcStates, Owners, CallRemoveRoot, MayCall, Idle
<1>2. Serial' /\ Ending'
  BY DEF Ending, CallRemoveRoot, MayCall, Idle
<1>3. Pointers' /\ NoKernelLost'
  BY DEF NoKernelLost, CallRemoveRoot, MayCall, Idle
<1>4. ASSUME NEW u \in Threads PROVE Stage(u)'
  BY DEF CallRemoveRoot, MayCall, Idle
<1>5. ASSUME NEW u \in Threads PROVE Joining(u)'
  BY DEF Joining, GcLife, Members, CallRemoveRoot, MayCall, Idle
<1>6. ASSUME NEW m \in Kernels PROVE GcLife(m)'
  BY DEF KernelStates, GcStates, Joining, GcLife, CallRemoveRoot, MayCall, Idle
<1>7. ASSUME NEW m \in Kernels PROVE Owned(m)'
  BY DEF KernelStates, GcStates, Joining, GcLife, Owned, CallRemoveRoot, MayCall, Idle
<1>8. ASSUME NEW m \in Kernels PROVE Members(m)'
  BY DEF NoKernelLost, Joining, GcLife, Members, CallRemoveRoot, MayCall, Idle
<1>. QED  BY <1>1, <1>2, <1>3, <1>4, <1>5, <1>6, <1>7, <1>8

(* A thread leaves its kernel under the mutexes. *)
LEMMA UnregisterKeeps ==
    ASSUME LifeInv, Orderly, ended = "no", NEW t \in Threads, Unregister(t)
    PROVE  LifeInv'
<1>1. TypeOK'
  BY DEF KernelStates, GcStates, Owners, Unregister, MayCall
<1>2. Serial' /\ Ending'
  BY DEF Ending, Unregister, MayCall
<1>3. Pointers' /\ NoKernelLost'
  BY DEF NoKernelLost, Unregister, MayCall
<1>4. ASSUME NEW u \in Threads PROVE Stage(u)'
  BY DEF Unregister, MayCall
<1>5. ASSUME NEW u \in Threads PROVE Joining(u)'
  BY DEF Joining, GcLife, Members, Unregister, MayCall
<1>6. ASSUME NEW m \in Kernels PROVE GcLife(m)'
  BY DEF KernelStates, GcStates, Joining, GcLife, Unregister, MayCall
<1>7. ASSUME NEW m \in Kernels PROVE Owned(m)'
  BY DEF KernelStates, GcStates, Joining, GcLife, Owned, Unregister, MayCall
<1>8. ASSUME NEW m \in Kernels PROVE Members(m)'
  BY DEF NoKernelLost, Joining, GcLife, Members, Unregister, MayCall
<1>. QED  BY <1>1, <1>2, <1>3, <1>4, <1>5, <1>6, <1>7, <1>8

(* A shutdown begins with no other call under way. *)
LEMMA CallShutdownKeeps ==
    ASSUME LifeInv, Orderly, ended = "no", NEW t \in Threads, CallShutdown(t)
    PROVE  LifeInv'
<1>1. TypeOK'
  BY DEF KernelStates, GcStates, Owners, CallShutdown, MayChange, Idle
<1>2. Serial' /\ Ending'
  BY DEF Ending, CallShutdown, MayChange, Idle
<1>3. Pointers' /\ NoKernelLost'
  BY DEF NoKernelLost, CallShutdown, MayChange, Idle
<1>4. ASSUME NEW u \in Threads PROVE Stage(u)'
  BY DEF CallShutdown, MayChange, Idle
<1>5. ASSUME NEW u \in Threads PROVE Joining(u)'
  BY DEF Joining, GcLife, Members, CallShutdown, MayChange, Idle
<1>6. ASSUME NEW m \in Kernels PROVE GcLife(m)'
  BY DEF KernelStates, GcStates, Joining, GcLife, CallShutdown, MayChange, Idle
<1>7. ASSUME NEW m \in Kernels PROVE Owned(m)'
  BY DEF KernelStates, GcStates, Joining, GcLife, Owned, CallShutdown, MayChange, Idle
<1>8. ASSUME NEW m \in Kernels PROVE Members(m)'
  BY DEF NoKernelLost, Joining, GcLife, Members, CallShutdown, MayChange, Idle
<1>. QED  BY <1>1, <1>2, <1>3, <1>4, <1>5, <1>6, <1>7, <1>8

(* So does the exit, which destroys the kernel gks owns. *)
LEMMA ExitKeeps ==
    ASSUME LifeInv, Orderly, ended = "no", NEW t \in Threads, Exit(t)
    PROVE  LifeInv'
<1>1. TypeOK'
  BY DEF KernelStates, GcStates, Owners, Exit, MayChange, Idle
<1>2. Serial' /\ Ending'
  BY DEF Ending, Exit, MayChange, Idle
<1>3. Pointers' /\ NoKernelLost'
  BY DEF NoKernelLost, Exit, MayChange, Idle
<1>4. ASSUME NEW u \in Threads PROVE Stage(u)'
  BY DEF Exit, MayChange, Idle
<1>5. ASSUME NEW u \in Threads PROVE Joining(u)'
  BY DEF Joining, GcLife, Members, Exit, MayChange, Idle
<1>6. ASSUME NEW m \in Kernels PROVE GcLife(m)'
  BY DEF KernelStates, GcStates, Joining, GcLife, Exit, MayChange, Idle
<1>7. ASSUME NEW m \in Kernels PROVE Owned(m)'
  BY DEF KernelStates, GcStates, Joining, GcLife, Owned, Exit, MayChange, Idle
<1>8. ASSUME NEW m \in Kernels PROVE Members(m)'
  BY DEF NoKernelLost, Joining, GcLife, Members, Exit, MayChange, Idle
<1>. QED  BY <1>1, <1>2, <1>3, <1>4, <1>5, <1>6, <1>7, <1>8

(* A new kernel is nobody's but its creator's. *)
LEMMA ConstructKeeps ==
    ASSUME LifeInv, Orderly, ended = "no", NEW t \in Threads, Construct(t)
    PROVE  LifeInv'
<1>1. TypeOK'
  <2>1. g_gks' \in Kernels \cup {Null} /\ gks' \in Kernels \cup {Null}
        /\ cached' \in Kernels \cup {Null}
    BY DEF KernelStates, GcStates, Owners, Construct
  <2>a. PICK k \in Kernels : kstate' = [kstate EXCEPT ![k] = "constructed"]
                           /\ mine' = [mine EXCEPT ![t] = k]
    BY DEF Construct
  <2>2. kstate' \in [Kernels -> KernelStates] /\ mutex' \in [Kernels -> Threads \cup {Null}]
          /\ m_threads' \in [Kernels -> SUBSET Threads]
    BY <2>a DEF Construct, KernelStates
  <2>3. internal' \in [Kernels -> BOOLEAN] /\ m_initialized' \in [Kernels -> BOOLEAN]
        /\ m_gc_threads' \in [Kernels -> BOOLEAN]
    BY DEF KernelStates, GcStates, Owners, Construct
  <2>4. gc' \in [Kernels -> GcStates] /\ m_run' \in [Kernels -> BOOLEAN]
        /\ details' \in [Kernels -> Owners]
    BY DEF KernelStates, GcStates, Owners, Construct
  <2>5. joins' \in [Kernels -> Nat]
    BY DEF KernelStates, GcStates, Owners, Construct
  <2>6. t_tlks' \in [Threads -> Kernels \cup {Null}] /\ pc' \in [Threads -> PCs]
          /\ mine' \in [Threads -> Kernels \cup {Null}]
    BY <2>a DEF Construct
  <2>7. call' \in [Threads -> {"idle", "register", "add_root", "exit"}]
        /\ ended' \in {"no", "terminate", "exit"}
    BY DEF KernelStates, GcStates, Owners, Construct
  <2>. QED  BY <2>1, <2>2, <2>3, <2>4, <2>5, <2>6, <2>7 DEF TypeOK
<1>2. Serial' /\ Ending'
  BY DEF Ending, Construct
<1>3. Pointers' /\ NoKernelLost'
  BY DEF NoKernelLost, Construct
<1>4. ASSUME NEW u \in Threads PROVE Stage(u)'
  BY DEF Construct
<1>5. ASSUME NEW u \in Threads PROVE Joining(u)'
  BY DEF Joining, GcLife, Members, Construct
<1>6. ASSUME NEW m \in Kernels PROVE GcLife(m)'
  BY DEF KernelStates, GcStates, Joining, GcLife, Construct
<1>7. ASSUME NEW m \in Kernels PROVE Owned(m)'
  BY DEF KernelStates, GcStates, Joining, GcLife, Owned, Construct
<1>8. ASSUME NEW m \in Kernels PROVE Members(m)'
  BY DEF NoKernelLost, Joining, GcLife, Members, Construct
<1>. QED  BY <1>1, <1>2, <1>3, <1>4, <1>5, <1>6, <1>7, <1>8

(* The kernel before goes to its destruction, the new one to gks. *)
LEMMA AssignKeeps ==
    ASSUME LifeInv, Orderly, ended = "no", NEW t \in Threads, Assign(t)
    PROVE  LifeInv'
<1>1. TypeOK'
  BY DEF KernelStates, GcStates, Owners, Assign
<1>2. Serial' /\ Ending'
  BY DEF Ending, Assign
<1>3. Pointers' /\ NoKernelLost'
  BY DEF NoKernelLost, Assign
<1>4. ASSUME NEW u \in Threads PROVE Stage(u)'
  BY DEF Assign
<1>5. ASSUME NEW u \in Threads PROVE Joining(u)'
  BY DEF Joining, GcLife, Members, Assign
<1>6. ASSUME NEW m \in Kernels PROVE GcLife(m)'
  BY DEF KernelStates, GcStates, Joining, GcLife, Assign
<1>7. ASSUME NEW m \in Kernels PROVE Owned(m)'
  BY DEF KernelStates, GcStates, Joining, GcLife, Owned, Assign
<1>8. ASSUME NEW m \in Kernels PROVE Members(m)'
  BY DEF NoKernelLost, Joining, GcLife, Members, Assign
<1>. QED  BY <1>1, <1>2, <1>3, <1>4, <1>5, <1>6, <1>7, <1>8

(* g_gks names the new kernel only when the old one is gone. *)
LEMMA PublishKeeps ==
    ASSUME LifeInv, Orderly, ended = "no", NEW t \in Threads, Publish(t)
    PROVE  LifeInv'
<1>1. TypeOK'
  BY DEF KernelStates, GcStates, Owners, Publish
<1>2. Serial' /\ Ending'
  BY DEF Ending, Publish
<1>3. Pointers' /\ NoKernelLost'
  BY DEF NoKernelLost, Publish
<1>4. ASSUME NEW u \in Threads PROVE Stage(u)'
  BY DEF Publish
<1>5. ASSUME NEW u \in Threads PROVE Joining(u)'
  BY DEF Joining, GcLife, Members, Publish
<1>6. ASSUME NEW m \in Kernels PROVE GcLife(m)'
  BY DEF KernelStates, GcStates, Joining, GcLife, Publish
<1>7. ASSUME NEW m \in Kernels PROVE Owned(m)'
  BY DEF KernelStates, GcStates, Joining, GcLife, Owned, Publish
<1>8. ASSUME NEW m \in Kernels PROVE Members(m)'
  BY DEF NoKernelLost, Joining, GcLife, Members, Publish
<1>. QED  BY <1>1, <1>2, <1>3, <1>4, <1>5, <1>6, <1>7, <1>8

(* The kernel is ready when the first call goes on. *)
LEMMA InitializeKeeps ==
    ASSUME LifeInv, Orderly, ended = "no", NEW t \in Threads, Initialize(t)
    PROVE  LifeInv'
<1>1. TypeOK'
  BY DEF KernelStates, GcStates, Owners, Initialize
<1>2. Serial' /\ Ending'
  BY DEF Ending, Initialize
<1>3. Pointers' /\ NoKernelLost'
  BY DEF NoKernelLost, Initialize
<1>4. ASSUME NEW u \in Threads PROVE Stage(u)'
  BY DEF Initialize
<1>5. ASSUME NEW u \in Threads PROVE Joining(u)'
  BY DEF Joining, GcLife, Members, Initialize
<1>6. ASSUME NEW m \in Kernels PROVE GcLife(m)'
  BY DEF KernelStates, GcStates, Joining, GcLife, Initialize
<1>7. ASSUME NEW m \in Kernels PROVE Owned(m)'
  BY DEF KernelStates, GcStates, Joining, GcLife, Owned, Initialize
<1>8. ASSUME NEW m \in Kernels PROVE Members(m)'
  BY DEF NoKernelLost, Joining, GcLife, Members, Initialize
<1>. QED  BY <1>1, <1>2, <1>3, <1>4, <1>5, <1>6, <1>7, <1>8

(* Registering takes the mutexes of the kernel g_gks names. *)
LEMMA RegisterKeeps ==
    ASSUME LifeInv, Orderly, ended = "no", NEW t \in Threads, Register(t)
    PROVE  LifeInv'
<1>1. TypeOK'
  <2>1. g_gks' \in Kernels \cup {Null} /\ gks' \in Kernels \cup {Null}
        /\ cached' \in Kernels \cup {Null}
    BY DEF KernelStates, GcStates, Owners, Register, Take
  <2>2. kstate' \in [Kernels -> KernelStates] /\ mutex' \in [Kernels -> Threads \cup {Null}]
        /\ m_threads' \in [Kernels -> SUBSET Threads]
    BY DEF KernelStates, GcStates, Owners, Register, Take
  <2>3. internal' \in [Kernels -> BOOLEAN] /\ m_initialized' \in [Kernels -> BOOLEAN]
        /\ m_gc_threads' \in [Kernels -> BOOLEAN]
    BY DEF KernelStates, GcStates, Owners, Register, Take
  <2>4. gc' \in [Kernels -> GcStates] /\ m_run' \in [Kernels -> BOOLEAN]
        /\ details' \in [Kernels -> Owners]
    BY DEF KernelStates, GcStates, Owners, Register, Take
  <2>5. joins' \in [Kernels -> Nat]
    BY DEF KernelStates, GcStates, Owners, Register, Take
  <2>6. t_tlks' \in [Threads -> Kernels \cup {Null}] /\ pc' \in [Threads -> PCs]
          /\ mine' \in [Threads -> Kernels \cup {Null}]
    <3>1. g_gks \in Kernels \cup {Null}
      OBVIOUS
    <3>2. CASE t_tlks[t] = Null
      BY <3>1, <3>2 DEF Register
    <3>3. CASE t_tlks[t] # Null
      BY <3>1, <3>3 DEF Register
    <3>. QED  BY <3>2, <3>3
  <2>7. call' \in [Threads -> {"idle", "register", "add_root", "exit"}]
        /\ ended' \in {"no", "terminate", "exit"}
    BY DEF KernelStates, GcStates, Owners, Register, Take
  <2>. QED  BY <2>1, <2>2, <2>3, <2>4, <2>5, <2>6, <2>7 DEF TypeOK
<1>2. Serial' /\ Ending'
  BY DEF Ending, Register, Take
<1>3. Pointers' /\ NoKernelLost'
  BY DEF NoKernelLost, Register, Take
<1>4. ASSUME NEW u \in Threads PROVE Stage(u)'
  BY DEF Register, Take
<1>5. ASSUME NEW u \in Threads PROVE Joining(u)'
  BY DEF Joining, GcLife, Members, Register, Take
<1>6. ASSUME NEW m \in Kernels PROVE GcLife(m)'
  BY DEF KernelStates, GcStates, Joining, GcLife, Register, Take
<1>7. ASSUME NEW m \in Kernels PROVE Owned(m)'
  BY DEF KernelStates, GcStates, Joining, GcLife, Owned, Register, Take
<1>8. ASSUME NEW m \in Kernels PROVE Members(m)'
  BY DEF NoKernelLost, Joining, GcLife, Members, Register, Take
<1>. QED  BY <1>1, <1>2, <1>3, <1>4, <1>5, <1>6, <1>7, <1>8

(* The gc thread is made under the mutexes, once. *)
LEMMA UInitializeKeeps ==
    ASSUME LifeInv, Orderly, ended = "no", NEW t \in Threads, UInitialize(t)
    PROVE  LifeInv'
<1>1. TypeOK'
  <2>1. g_gks' \in Kernels \cup {Null} /\ gks' \in Kernels \cup {Null}
        /\ cached' \in Kernels \cup {Null}
    BY DEF KernelStates, GcStates, Owners, UInitialize
  <2>2. kstate' \in [Kernels -> KernelStates] /\ mutex' \in [Kernels -> Threads \cup {Null}]
        /\ m_threads' \in [Kernels -> SUBSET Threads]
    BY DEF KernelStates, GcStates, Owners, UInitialize
  <2>3. internal' \in [Kernels -> BOOLEAN] /\ m_initialized' \in [Kernels -> BOOLEAN]
        /\ m_gc_threads' \in [Kernels -> BOOLEAN]
    BY DEF KernelStates, GcStates, Owners, UInitialize
  <2>4. gc' \in [Kernels -> GcStates] /\ m_run' \in [Kernels -> BOOLEAN]
          /\ details' \in [Kernels -> Owners]
    <3>1. CASE m_initialized[mine[t]]
      BY <3>1 DEF UInitialize
    <3>2. CASE ~m_initialized[mine[t]]
      BY <3>2 DEF UInitialize, Owners
    <3>. QED  BY <3>1, <3>2
  <2>5. joins' \in [Kernels -> Nat]
    BY DEF KernelStates, GcStates, Owners, UInitialize
  <2>6. t_tlks' \in [Threads -> Kernels \cup {Null}] /\ pc' \in [Threads -> PCs]
        /\ mine' \in [Threads -> Kernels \cup {Null}]
    BY DEF KernelStates, GcStates, Owners, UInitialize
  <2>7. call' \in [Threads -> {"idle", "register", "add_root", "exit"}]
        /\ ended' \in {"no", "terminate", "exit"}
    BY DEF KernelStates, GcStates, Owners, UInitialize
  <2>. QED  BY <2>1, <2>2, <2>3, <2>4, <2>5, <2>6, <2>7 DEF TypeOK
<1>2. Serial' /\ Ending'
  BY DEF Ending, UInitialize
<1>3. Pointers' /\ NoKernelLost'
  BY DEF NoKernelLost, UInitialize
<1>4. ASSUME NEW u \in Threads PROVE Stage(u)'
  BY DEF UInitialize
<1>5. ASSUME NEW u \in Threads PROVE Joining(u)'
  BY DEF Joining, GcLife, Members, UInitialize
<1>6. ASSUME NEW m \in Kernels PROVE GcLife(m)'
  BY DEF KernelStates, GcStates, Joining, GcLife, UInitialize
<1>7. ASSUME NEW m \in Kernels PROVE Owned(m)'
  BY DEF KernelStates, GcStates, Joining, GcLife, Owned, UInitialize
<1>8. ASSUME NEW m \in Kernels PROVE Members(m)'
  BY DEF NoKernelLost, Joining, GcLife, Members, UInitialize
<1>. QED  BY <1>1, <1>2, <1>3, <1>4, <1>5, <1>6, <1>7, <1>8

(* The new thread takes over the details of its start. *)
LEMMA StartKeeps ==
    ASSUME LifeInv, Orderly, ended = "no", NEW t \in Threads, Start(t)
    PROVE  LifeInv'
<1>1. TypeOK'
  BY DEF KernelStates, GcStates, Owners, Start
<1>2. Serial' /\ Ending'
  BY DEF Ending, Start
<1>3. Pointers' /\ NoKernelLost'
  BY DEF NoKernelLost, Start
<1>4. ASSUME NEW u \in Threads PROVE Stage(u)'
  BY DEF Start
<1>5. ASSUME NEW u \in Threads PROVE Joining(u)'
  BY DEF Joining, GcLife, Members, Start
<1>6. ASSUME NEW m \in Kernels PROVE GcLife(m)'
  BY DEF KernelStates, GcStates, Joining, GcLife, Start
<1>7. ASSUME NEW m \in Kernels PROVE Owned(m)'
  BY DEF KernelStates, GcStates, Joining, GcLife, Owned, Start
<1>8. ASSUME NEW m \in Kernels PROVE Members(m)'
  BY DEF NoKernelLost, Joining, GcLife, Members, Start
<1>. QED  BY <1>1, <1>2, <1>3, <1>4, <1>5, <1>6, <1>7, <1>8

(* They are taken back when there is no new thread. *)
LEMMA StartFailsKeeps ==
    ASSUME LifeInv, Orderly, ended = "no", NEW t \in Threads, StartFails(t)
    PROVE  LifeInv'
<1>f. details' = [details EXCEPT ![mine[t]] = "freed"]
  BY DEF StartFails, Freed, Joining
<1>1. TypeOK'
  BY <1>f DEF KernelStates, GcStates, Owners, StartFails, Give
<1>2. Serial' /\ Ending'
  BY <1>f DEF Ending, StartFails, Give
<1>3. Pointers' /\ NoKernelLost'
  BY <1>f DEF NoKernelLost, StartFails, Give
<1>4. ASSUME NEW u \in Threads PROVE Stage(u)'
  BY <1>f DEF StartFails, Give
<1>5. ASSUME NEW u \in Threads PROVE Joining(u)'
  BY <1>f DEF Joining, GcLife, Members, StartFails, Give
<1>6. ASSUME NEW m \in Kernels PROVE GcLife(m)'
  BY <1>f DEF KernelStates, GcStates, Joining, GcLife, StartFails, Give
<1>7. ASSUME NEW m \in Kernels PROVE Owned(m)'
  BY <1>f DEF KernelStates, GcStates, Joining, GcLife, Owned, StartFails, Give
<1>8. ASSUME NEW m \in Kernels PROVE Members(m)'
  BY <1>f DEF NoKernelLost, Joining, GcLife, Members, StartFails, Give
<1>. QED  BY <1>1, <1>2, <1>3, <1>4, <1>5, <1>6, <1>7, <1>8

(* Memory comes from the kernel's own internal allocator. *)
LEMMA PushKeeps ==
    ASSUME LifeInv, Orderly, ended = "no", NEW t \in Threads, Push(t)
    PROVE  LifeInv'
<1>1. TypeOK'
  <2>1. g_gks' \in Kernels \cup {Null} /\ gks' \in Kernels \cup {Null}
        /\ cached' \in Kernels \cup {Null}
    BY DEF KernelStates, GcStates, Owners, Push, Give, Remember, RealGks
  <2>2. kstate' \in [Kernels -> KernelStates] /\ mutex' \in [Kernels -> Threads \cup {Null}]
          /\ m_threads' \in [Kernels -> SUBSET Threads]
    <3>1. m_threads' \in [Kernels -> SUBSET Threads]
      BY DEF Push
    <3>. QED  BY <3>1 DEF Push, Give, LifeInv, TypeOK
  <2>3. internal' \in [Kernels -> BOOLEAN] /\ m_initialized' \in [Kernels -> BOOLEAN]
        /\ m_gc_threads' \in [Kernels -> BOOLEAN]
    BY DEF KernelStates, GcStates, Owners, Push, Give, Remember, RealGks
  <2>4. gc' \in [Kernels -> GcStates] /\ m_run' \in [Kernels -> BOOLEAN]
        /\ details' \in [Kernels -> Owners]
    BY DEF KernelStates, GcStates, Owners, Push, Give, Remember, RealGks
  <2>5. joins' \in [Kernels -> Nat]
    BY DEF KernelStates, GcStates, Owners, Push, Give, Remember, RealGks
  <2>6. t_tlks' \in [Threads -> Kernels \cup {Null}] /\ pc' \in [Threads -> PCs]
        /\ mine' \in [Threads -> Kernels \cup {Null}]
    BY DEF KernelStates, GcStates, Owners, Push, Give, Remember, RealGks
  <2>7. call' \in [Threads -> {"idle", "register", "add_root", "exit"}]
        /\ ended' \in {"no", "terminate", "exit"}
    BY DEF KernelStates, GcStates, Owners, Push, Give, Remember, RealGks
  <2>. QED  BY <2>1, <2>2, <2>3, <2>4, <2>5, <2>6, <2>7 DEF TypeOK
<1>2. Serial' /\ Ending'
  BY DEF Ending, Push, Give, Remember, RealGks
<1>3. Pointers' /\ NoKernelLost'
  BY DEF NoKernelLost, Push, Give, Remember, RealGks
<1>4. ASSUME NEW u \in Threads PROVE Stage(u)'
  BY DEF Push, Give, Remember, RealGks
<1>5. ASSUME NEW u \in Threads PROVE Joining(u)'
  BY DEF Joining, GcLife, Members, Push, Give, Remember, RealGks
<1>6. ASSUME NEW m \in Kernels PROVE GcLife(m)'
  BY DEF KernelStates, GcStates, Joining, GcLife, Push, Give, Remember, RealGks
<1>7. ASSUME NEW m \in Kernels PROVE Owned(m)'
  BY DEF KernelStates, GcStates, Joining, GcLife, Owned, Push, Give, Remember, RealGks
<1>8. ASSUME NEW m \in Kernels PROVE Members(m)'
  BY DEF NoKernelLost, Joining, GcLife, Members, Push, Give, Remember, RealGks
<1>. QED  BY <1>1, <1>2, <1>3, <1>4, <1>5, <1>6, <1>7, <1>8

(* Roots change no kernel. *)
LEMMA ChangeRootsKeeps ==
    ASSUME LifeInv, Orderly, ended = "no", NEW t \in Threads, ChangeRoots(t)
    PROVE  LifeInv'
<1>1. TypeOK'
  <2>1. g_gks' \in Kernels \cup {Null} /\ gks' \in Kernels \cup {Null}
        /\ cached' \in Kernels \cup {Null}
    BY DEF KernelStates, GcStates, Owners, ChangeRoots
  <2>2. kstate' \in [Kernels -> KernelStates] /\ mutex' \in [Kernels -> Threads \cup {Null}]
        /\ m_threads' \in [Kernels -> SUBSET Threads]
    BY DEF KernelStates, GcStates, Owners, ChangeRoots
  <2>3. internal' \in [Kernels -> BOOLEAN] /\ m_initialized' \in [Kernels -> BOOLEAN]
        /\ m_gc_threads' \in [Kernels -> BOOLEAN]
    BY DEF KernelStates, GcStates, Owners, ChangeRoots
  <2>4. gc' \in [Kernels -> GcStates] /\ m_run' \in [Kernels -> BOOLEAN]
        /\ details' \in [Kernels -> Owners]
    BY DEF KernelStates, GcStates, Owners, ChangeRoots
  <2>5. joins' \in [Kernels -> Nat]
    BY DEF KernelStates, GcStates, Owners, ChangeRoots
  <2>6. t_tlks' \in [Threads -> Kernels \cup {Null}] /\ pc' \in [Threads -> PCs]
          /\ mine' \in [Threads -> Kernels \cup {Null}]
    <3>1. pc' = [pc EXCEPT ![t] = "idle"]
      BY DEF ChangeRoots
    <3>. QED  BY <3>1 DEF ChangeRoots, LifeInv, TypeOK, PCs
  <2>7. call' \in [Threads -> {"idle", "register", "add_root", "exit"}]
        /\ ended' \in {"no", "terminate", "exit"}
    BY DEF KernelStates, GcStates, Owners, ChangeRoots
  <2>. QED  BY <2>1, <2>2, <2>3, <2>4, <2>5, <2>6, <2>7 DEF TypeOK
<1>2. Serial' /\ Ending'
  BY DEF Ending, ChangeRoots
<1>3. Pointers' /\ NoKernelLost'
  BY DEF NoKernelLost, ChangeRoots
<1>4. ASSUME NEW u \in Threads PROVE Stage(u)'
  BY DEF ChangeRoots
<1>5. ASSUME NEW u \in Threads PROVE Joining(u)'
  BY DEF Joining, GcLife, Members, ChangeRoots
<1>6. ASSUME NEW m \in Kernels PROVE GcLife(m)'
  BY DEF KernelStates, GcStates, Joining, GcLife, ChangeRoots
<1>7. ASSUME NEW m \in Kernels PROVE Owned(m)'
  BY DEF KernelStates, GcStates, Joining, GcLife, Owned, ChangeRoots
<1>8. ASSUME NEW m \in Kernels PROVE Members(m)'
  BY DEF NoKernelLost, Joining, GcLife, Members, ChangeRoots
<1>. QED  BY <1>1, <1>2, <1>3, <1>4, <1>5, <1>6, <1>7, <1>8

(* The shutdown takes the mutexes. *)
LEMMA SLockKeeps ==
    ASSUME LifeInv, Orderly, ended = "no", NEW t \in Threads, SLock(t)
    PROVE  LifeInv'
<1>1. TypeOK'
  BY DEF KernelStates, GcStates, Owners, SLock, Take
<1>2. Serial' /\ Ending'
  BY DEF Ending, SLock, Take
<1>3. Pointers' /\ NoKernelLost'
  BY DEF NoKernelLost, SLock, Take
<1>4. ASSUME NEW u \in Threads PROVE Stage(u)'
  BY DEF SLock, Take
<1>5. ASSUME NEW u \in Threads PROVE Joining(u)'
  BY DEF Joining, GcLife, Members, SLock, Take
<1>6. ASSUME NEW m \in Kernels PROVE GcLife(m)'
  BY DEF KernelStates, GcStates, Joining, GcLife, SLock, Take
<1>7. ASSUME NEW m \in Kernels PROVE Owned(m)'
  BY DEF KernelStates, GcStates, Joining, GcLife, Owned, SLock, Take
<1>8. ASSUME NEW m \in Kernels PROVE Members(m)'
  BY DEF NoKernelLost, Joining, GcLife, Members, SLock, Take
<1>. QED  BY <1>1, <1>2, <1>3, <1>4, <1>5, <1>6, <1>7, <1>8

(* It stops a gc thread that nobody has stopped. *)
LEMMA SStopKeeps ==
    ASSUME LifeInv, Orderly, ended = "no", NEW t \in Threads, SStop(t)
    PROVE  LifeInv'
<1>1. TypeOK'
  BY DEF KernelStates, GcStates, Owners, SStop
<1>2. Serial' /\ Ending'
  BY DEF Ending, SStop
<1>3. Pointers' /\ NoKernelLost'
  BY DEF NoKernelLost, SStop
<1>4. ASSUME NEW u \in Threads PROVE Stage(u)'
  BY DEF SStop
<1>5. ASSUME NEW u \in Threads PROVE Joining(u)'
  BY DEF GcStates, Owned, Joining, GcLife, Members, SStop
<1>6. ASSUME NEW m \in Kernels PROVE GcLife(m)'
  BY DEF KernelStates, GcStates, Joining, GcLife, SStop
<1>7. ASSUME NEW m \in Kernels PROVE Owned(m)'
  BY DEF KernelStates, GcStates, Joining, GcLife, Owned, SStop
<1>8. ASSUME NEW m \in Kernels PROVE Members(m)'
  BY DEF NoKernelLost, Joining, GcLife, Members, SStop
<1>. QED  BY <1>1, <1>2, <1>3, <1>4, <1>5, <1>6, <1>7, <1>8

(* It joins a thread nobody has joined. *)
LEMMA SJoinKeeps ==
    ASSUME LifeInv, Orderly, ended = "no", NEW t \in Threads, SJoin(t)
    PROVE  LifeInv'
<1>1. TypeOK'
  <2>1. g_gks' \in Kernels \cup {Null} /\ gks' \in Kernels \cup {Null}
        /\ cached' \in Kernels \cup {Null}
    BY DEF KernelStates, GcStates, Owners, SJoin
  <2>2. kstate' \in [Kernels -> KernelStates] /\ mutex' \in [Kernels -> Threads \cup {Null}]
        /\ m_threads' \in [Kernels -> SUBSET Threads]
    BY DEF KernelStates, GcStates, Owners, SJoin
  <2>3. internal' \in [Kernels -> BOOLEAN] /\ m_initialized' \in [Kernels -> BOOLEAN]
        /\ m_gc_threads' \in [Kernels -> BOOLEAN]
    BY DEF KernelStates, GcStates, Owners, SJoin
  <2>4. gc' \in [Kernels -> GcStates] /\ m_run' \in [Kernels -> BOOLEAN]
        /\ details' \in [Kernels -> Owners]
    BY DEF KernelStates, GcStates, Owners, SJoin
  <2>5. joins' \in [Kernels -> Nat]
    <3>1. joins' = [joins EXCEPT ![mine[t]] = 1]
      <4>1. joins[mine[t]] = 0
        BY DEF SJoin, Joining
      <4>2. joins' = [joins EXCEPT ![mine[t]] = joins[mine[t]] + 1]
        BY DEF SJoin
      <4>. QED  BY <4>1, <4>2
    <3>. QED  BY <3>1 DEF LifeInv, TypeOK
  <2>6. t_tlks' \in [Threads -> Kernels \cup {Null}] /\ pc' \in [Threads -> PCs]
        /\ mine' \in [Threads -> Kernels \cup {Null}]
    BY DEF KernelStates, GcStates, Owners, SJoin
  <2>7. call' \in [Threads -> {"idle", "register", "add_root", "exit"}]
        /\ ended' \in {"no", "terminate", "exit"}
    BY DEF KernelStates, GcStates, Owners, SJoin
  <2>. QED  BY <2>1, <2>2, <2>3, <2>4, <2>5, <2>6, <2>7 DEF TypeOK
<1>2. Serial' /\ Ending'
  BY DEF Ending, SJoin
<1>3. Pointers' /\ NoKernelLost'
  BY DEF NoKernelLost, SJoin
<1>4. ASSUME NEW u \in Threads PROVE Stage(u)'
  BY DEF SJoin
<1>5. ASSUME NEW u \in Threads PROVE Joining(u)'
  BY DEF Joining, GcLife, Members, SJoin
<1>6. ASSUME NEW m \in Kernels PROVE GcLife(m)'
  BY DEF KernelStates, GcStates, Joining, GcLife, SJoin
<1>7. ASSUME NEW m \in Kernels PROVE Owned(m)'
  BY DEF KernelStates, GcStates, Joining, GcLife, Owned, SJoin
<1>8. ASSUME NEW m \in Kernels PROVE Members(m)'
  BY DEF NoKernelLost, Joining, GcLife, Members, SJoin
<1>. QED  BY <1>1, <1>2, <1>3, <1>4, <1>5, <1>6, <1>7, <1>8

(* It drops the gc thread after the join. *)
LEMMA SForgetKeeps ==
    ASSUME LifeInv, Orderly, ended = "no", NEW t \in Threads, SForget(t)
    PROVE  LifeInv'
<1>1. TypeOK'
  BY DEF KernelStates, GcStates, Owners, SForget, Give
<1>2. Serial' /\ Ending'
  BY DEF Ending, SForget, Give
<1>3. Pointers' /\ NoKernelLost'
  BY DEF NoKernelLost, SForget, Give
<1>4. ASSUME NEW u \in Threads PROVE Stage(u)'
  BY DEF SForget, Give
<1>5. ASSUME NEW u \in Threads PROVE Joining(u)'
  BY DEF Joining, GcLife, Members, SForget, Give
<1>6. ASSUME NEW m \in Kernels PROVE GcLife(m)'
  BY DEF KernelStates, GcStates, Joining, GcLife, SForget, Give
<1>7. ASSUME NEW m \in Kernels PROVE Owned(m)'
  BY DEF KernelStates, GcStates, Joining, GcLife, Owned, SForget, Give
<1>8. ASSUME NEW m \in Kernels PROVE Members(m)'
  BY DEF NoKernelLost, Joining, GcLife, Members, SForget, Give
<1>. QED  BY <1>1, <1>2, <1>3, <1>4, <1>5, <1>6, <1>7, <1>8

(* The destructor finds a running gc thread or one that is gone. *)
LEMMA DStopKeeps ==
    ASSUME LifeInv, Orderly, ended = "no", NEW t \in Threads, DStop(t)
    PROVE  LifeInv'
<1>1. TypeOK'
  <2>1. g_gks' \in Kernels \cup {Null} /\ gks' \in Kernels \cup {Null}
        /\ cached' \in Kernels \cup {Null}
    BY DEF KernelStates, GcStates, Owners, DStop
  <2>2. kstate' \in [Kernels -> KernelStates] /\ mutex' \in [Kernels -> Threads \cup {Null}]
        /\ m_threads' \in [Kernels -> SUBSET Threads]
    BY DEF KernelStates, GcStates, Owners, DStop
  <2>3. internal' \in [Kernels -> BOOLEAN] /\ m_initialized' \in [Kernels -> BOOLEAN]
        /\ m_gc_threads' \in [Kernels -> BOOLEAN]
    BY DEF KernelStates, GcStates, Owners, DStop
  <2>4. gc' \in [Kernels -> GcStates] /\ m_run' \in [Kernels -> BOOLEAN]
          /\ details' \in [Kernels -> Owners]
    <3>1. m_run' \in [Kernels -> BOOLEAN]
      <4>1. mine[t] \in Kernels
        BY DEF DStop
      <4>2. CASE m_gc_threads[mine[t]]
        BY <4>1, <4>2 DEF DStop
      <4>3. CASE ~m_gc_threads[mine[t]]
        BY <4>1, <4>3 DEF DStop
      <4>. QED  BY <4>2, <4>3
    <3>. QED  BY <3>1 DEF DStop, LifeInv, TypeOK
  <2>5. joins' \in [Kernels -> Nat]
    BY DEF KernelStates, GcStates, Owners, DStop
  <2>6. t_tlks' \in [Threads -> Kernels \cup {Null}] /\ pc' \in [Threads -> PCs]
        /\ mine' \in [Threads -> Kernels \cup {Null}]
    BY DEF KernelStates, GcStates, Owners, DStop
  <2>7. call' \in [Threads -> {"idle", "register", "add_root", "exit"}]
        /\ ended' \in {"no", "terminate", "exit"}
    BY DEF KernelStates, GcStates, Owners, DStop
  <2>. QED  BY <2>1, <2>2, <2>3, <2>4, <2>5, <2>6, <2>7 DEF TypeOK
<1>2. Serial' /\ Ending'
  BY DEF Ending, DStop
<1>3. Pointers' /\ NoKernelLost'
  BY DEF NoKernelLost, DStop
<1>4. ASSUME NEW u \in Threads PROVE Stage(u)'
  BY DEF DStop
<1>5. ASSUME NEW u \in Threads PROVE Joining(u)'
  BY DEF GcStates, Owned, Joining, GcLife, Members, DStop
<1>6. ASSUME NEW m \in Kernels PROVE GcLife(m)'
  BY DEF KernelStates, GcStates, Joining, GcLife, DStop
<1>7. ASSUME NEW m \in Kernels PROVE Owned(m)'
  BY DEF KernelStates, GcStates, Joining, GcLife, Owned, DStop
<1>8. ASSUME NEW m \in Kernels PROVE Members(m)'
  BY DEF NoKernelLost, Joining, GcLife, Members, DStop
<1>. QED  BY <1>1, <1>2, <1>3, <1>4, <1>5, <1>6, <1>7, <1>8

(* It joins a thread nobody has joined. *)
LEMMA DJoinKeeps ==
    ASSUME LifeInv, Orderly, ended = "no", NEW t \in Threads, DJoin(t)
    PROVE  LifeInv'
<1>1. TypeOK'
  <2>1. g_gks' \in Kernels \cup {Null} /\ gks' \in Kernels \cup {Null}
        /\ cached' \in Kernels \cup {Null}
    BY DEF KernelStates, GcStates, Owners, DJoin
  <2>2. kstate' \in [Kernels -> KernelStates] /\ mutex' \in [Kernels -> Threads \cup {Null}]
        /\ m_threads' \in [Kernels -> SUBSET Threads]
    BY DEF KernelStates, GcStates, Owners, DJoin
  <2>3. internal' \in [Kernels -> BOOLEAN] /\ m_initialized' \in [Kernels -> BOOLEAN]
        /\ m_gc_threads' \in [Kernels -> BOOLEAN]
    BY DEF KernelStates, GcStates, Owners, DJoin
  <2>4. gc' \in [Kernels -> GcStates] /\ m_run' \in [Kernels -> BOOLEAN]
        /\ details' \in [Kernels -> Owners]
    BY DEF KernelStates, GcStates, Owners, DJoin
  <2>5. joins' \in [Kernels -> Nat]
    <3>1. joins' = [joins EXCEPT ![mine[t]] = 1]
      <4>1. joins[mine[t]] = 0
        BY DEF DJoin, Joining
      <4>2. joins' = [joins EXCEPT ![mine[t]] = joins[mine[t]] + 1]
        BY DEF DJoin
      <4>. QED  BY <4>1, <4>2
    <3>. QED  BY <3>1 DEF LifeInv, TypeOK
  <2>6. t_tlks' \in [Threads -> Kernels \cup {Null}] /\ pc' \in [Threads -> PCs]
        /\ mine' \in [Threads -> Kernels \cup {Null}]
    BY DEF KernelStates, GcStates, Owners, DJoin
  <2>7. call' \in [Threads -> {"idle", "register", "add_root", "exit"}]
        /\ ended' \in {"no", "terminate", "exit"}
    BY DEF KernelStates, GcStates, Owners, DJoin
  <2>. QED  BY <2>1, <2>2, <2>3, <2>4, <2>5, <2>6, <2>7 DEF TypeOK
<1>2. Serial' /\ Ending'
  BY DEF Ending, DJoin
<1>3. Pointers' /\ NoKernelLost'
  BY DEF NoKernelLost, DJoin
<1>4. ASSUME NEW u \in Threads PROVE Stage(u)'
  BY DEF DJoin
<1>5. ASSUME NEW u \in Threads PROVE Joining(u)'
  BY DEF Joining, GcLife, Members, DJoin
<1>6. ASSUME NEW m \in Kernels PROVE GcLife(m)'
  BY DEF KernelStates, GcStates, Joining, GcLife, DJoin
<1>7. ASSUME NEW m \in Kernels PROVE Owned(m)'
  BY DEF KernelStates, GcStates, Joining, GcLife, Owned, DJoin
<1>8. ASSUME NEW m \in Kernels PROVE Members(m)'
  BY DEF NoKernelLost, Joining, GcLife, Members, DJoin
<1>. QED  BY <1>1, <1>2, <1>3, <1>4, <1>5, <1>6, <1>7, <1>8

(* The second shutdown joins nothing. *)
LEMMA DClearKeeps ==
    ASSUME LifeInv, Orderly, ended = "no", NEW t \in Threads, DClear(t)
    PROVE  LifeInv'
<1>1. TypeOK'
  <2>1. g_gks' \in Kernels \cup {Null} /\ gks' \in Kernels \cup {Null}
        /\ cached' \in Kernels \cup {Null}
    BY DEF KernelStates, GcStates, Owners, DClear
  <2>2. kstate' \in [Kernels -> KernelStates] /\ mutex' \in [Kernels -> Threads \cup {Null}]
        /\ m_threads' \in [Kernels -> SUBSET Threads]
    BY DEF KernelStates, GcStates, Owners, DClear
  <2>3. internal' \in [Kernels -> BOOLEAN] /\ m_initialized' \in [Kernels -> BOOLEAN]
        /\ m_gc_threads' \in [Kernels -> BOOLEAN]
    BY DEF KernelStates, GcStates, Owners, DClear
  <2>4. gc' \in [Kernels -> GcStates] /\ m_run' \in [Kernels -> BOOLEAN]
        /\ details' \in [Kernels -> Owners]
    BY DEF KernelStates, GcStates, Owners, DClear
  <2>5. joins' \in [Kernels -> Nat]
    <3>1. ~m_run[mine[t]]
      BY DEF DClear, Joining
    <3>2. joins' = joins
      BY <3>1 DEF DClear
    <3>. QED  BY <3>2 DEF LifeInv, TypeOK
  <2>6. t_tlks' \in [Threads -> Kernels \cup {Null}] /\ pc' \in [Threads -> PCs]
        /\ mine' \in [Threads -> Kernels \cup {Null}]
    BY DEF KernelStates, GcStates, Owners, DClear
  <2>7. call' \in [Threads -> {"idle", "register", "add_root", "exit"}]
        /\ ended' \in {"no", "terminate", "exit"}
    BY DEF KernelStates, GcStates, Owners, DClear
  <2>. QED  BY <2>1, <2>2, <2>3, <2>4, <2>5, <2>6, <2>7 DEF TypeOK
<1>2. Serial' /\ Ending'
  BY DEF Ending, DClear
<1>3. Pointers' /\ NoKernelLost'
  BY DEF NoKernelLost, DClear
<1>4. ASSUME NEW u \in Threads PROVE Stage(u)'
  BY DEF DClear
<1>5. ASSUME NEW u \in Threads PROVE Joining(u)'
  BY DEF Joining, GcLife, Members, DClear
<1>6. ASSUME NEW m \in Kernels PROVE GcLife(m)'
  BY DEF KernelStates, GcStates, Joining, GcLife, DClear
<1>7. ASSUME NEW m \in Kernels PROVE Owned(m)'
  BY DEF KernelStates, GcStates, Joining, GcLife, Owned, DClear
<1>8. ASSUME NEW m \in Kernels PROVE Members(m)'
  BY DEF NoKernelLost, Joining, GcLife, Members, DClear
<1>. QED  BY <1>1, <1>2, <1>3, <1>4, <1>5, <1>6, <1>7, <1>8

(* The kernel is dead and nothing names it but gks at exit. *)
LEMMA DReleaseKeeps ==
    ASSUME LifeInv, Orderly, ended = "no", NEW t \in Threads, DRelease(t)
    PROVE  LifeInv'
<1>1. TypeOK'
  <2>1. g_gks' \in Kernels \cup {Null} /\ gks' \in Kernels \cup {Null}
          /\ cached' \in Kernels \cup {Null}
    <3>1. cached' \in {g_gks, cached}
      BY DEF DRelease, Remember, RealGks
    <3>. QED  BY <3>1 DEF DRelease, LifeInv, TypeOK
  <2>2. kstate' \in [Kernels -> KernelStates] /\ mutex' \in [Kernels -> Threads \cup {Null}]
        /\ m_threads' \in [Kernels -> SUBSET Threads]
    BY DEF KernelStates, GcStates, Owners, DRelease, Remember, RealGks
  <2>3. internal' \in [Kernels -> BOOLEAN] /\ m_initialized' \in [Kernels -> BOOLEAN]
        /\ m_gc_threads' \in [Kernels -> BOOLEAN]
    BY DEF KernelStates, GcStates, Owners, DRelease, Remember, RealGks
  <2>4. gc' \in [Kernels -> GcStates] /\ m_run' \in [Kernels -> BOOLEAN]
        /\ details' \in [Kernels -> Owners]
    BY DEF KernelStates, GcStates, Owners, DRelease, Remember, RealGks
  <2>5. joins' \in [Kernels -> Nat]
    BY DEF KernelStates, GcStates, Owners, DRelease, Remember, RealGks
  <2>6. t_tlks' \in [Threads -> Kernels \cup {Null}] /\ pc' \in [Threads -> PCs]
        /\ mine' \in [Threads -> Kernels \cup {Null}]
    BY DEF KernelStates, GcStates, Owners, DRelease, Remember, RealGks
  <2>7. call' \in [Threads -> {"idle", "register", "add_root", "exit"}]
        /\ ended' \in {"no", "terminate", "exit"}
    BY DEF KernelStates, GcStates, Owners, DRelease, Remember, RealGks
  <2>. QED  BY <2>1, <2>2, <2>3, <2>4, <2>5, <2>6, <2>7 DEF TypeOK
<1>2. Serial' /\ Ending'
  BY DEF Ending, DRelease, Remember, RealGks
<1>3. Pointers' /\ NoKernelLost'
  BY DEF NoKernelLost, DRelease, Remember, RealGks
<1>4. ASSUME NEW u \in Threads PROVE Stage(u)'
  BY DEF DRelease, Remember, RealGks
<1>5. ASSUME NEW u \in Threads PROVE Joining(u)'
  BY DEF Joining, GcLife, Members, DRelease, Remember, RealGks
<1>6. ASSUME NEW m \in Kernels PROVE GcLife(m)'
  BY DEF KernelStates, GcStates, Joining, GcLife, DRelease, Remember, RealGks
<1>7. ASSUME NEW m \in Kernels PROVE Owned(m)'
  BY DEF KernelStates, GcStates, Joining, GcLife, Owned, DRelease, Remember, RealGks
<1>8. ASSUME NEW m \in Kernels PROVE Members(m)'
  BY DEF NoKernelLost, Joining, GcLife, Members, DRelease, Remember, RealGks
<1>. QED  BY <1>1, <1>2, <1>3, <1>4, <1>5, <1>6, <1>7, <1>8

(* The gc thread ends only when told to. *)
LEMMA GcRunReturnsKeeps ==
    ASSUME LifeInv, Orderly, ended = "no", NEW k \in Kernels, GcRunReturns(k)
    PROVE  LifeInv'
<1>1. TypeOK'
  BY DEF KernelStates, GcStates, Owners, GcRunReturns, GcStep
<1>2. Serial' /\ Ending'
  BY DEF Ending, GcRunReturns, GcStep
<1>3. Pointers' /\ NoKernelLost'
  BY DEF NoKernelLost, GcRunReturns, GcStep
<1>4. ASSUME NEW u \in Threads PROVE Stage(u)'
  BY DEF GcRunReturns, GcStep
<1>5. ASSUME NEW u \in Threads PROVE Joining(u)'
  BY DEF Joining, GcLife, Members, GcRunReturns, GcStep
<1>6. ASSUME NEW m \in Kernels PROVE GcLife(m)'
  BY DEF KernelStates, GcStates, Joining, GcLife, GcRunReturns, GcStep
<1>7. ASSUME NEW m \in Kernels PROVE Owned(m)'
  BY DEF KernelStates, GcStates, Joining, GcLife, Owned, GcRunReturns, GcStep
<1>8. ASSUME NEW m \in Kernels PROVE Members(m)'
  BY DEF NoKernelLost, Joining, GcLife, Members, GcRunReturns, GcStep
<1>. QED  BY <1>1, <1>2, <1>3, <1>4, <1>5, <1>6, <1>7, <1>8

(* Its kernel is the one _real_gks finds. *)
LEMMA GcDestroyThreadKeeps ==
    ASSUME LifeInv, Orderly, ended = "no", NEW k \in Kernels, GcDestroyThread(k)
    PROVE  LifeInv'
<1>1. TypeOK'
  BY DEF KernelStates, GcStates, Owners, GcDestroyThread, GcStep, Remember, RealGks
<1>2. Serial' /\ Ending'
  BY DEF Ending, GcDestroyThread, GcStep, Remember, RealGks
<1>3. Pointers' /\ NoKernelLost'
  BY DEF NoKernelLost, GcDestroyThread, GcStep, Remember, RealGks
<1>4. ASSUME NEW u \in Threads PROVE Stage(u)'
  BY DEF GcDestroyThread, GcStep, Remember, RealGks
<1>5. ASSUME NEW u \in Threads PROVE Joining(u)'
  BY DEF Joining, GcLife, Members, GcDestroyThread, GcStep, Remember, RealGks
<1>6. ASSUME NEW m \in Kernels PROVE GcLife(m)'
  BY DEF KernelStates, GcStates, Joining, GcLife, GcDestroyThread, GcStep, Remember, RealGks
<1>7. ASSUME NEW m \in Kernels PROVE Owned(m)'
  BY DEF KernelStates, GcStates, Joining, GcLife, Owned, GcDestroyThread, GcStep, Remember,
     RealGks
<1>8. ASSUME NEW m \in Kernels PROVE Members(m)'
  BY DEF NoKernelLost, Joining, GcLife, Members, GcDestroyThread, GcStep, Remember, RealGks
<1>. QED  BY <1>1, <1>2, <1>3, <1>4, <1>5, <1>6, <1>7, <1>8

(* The details it owned are destroyed with it. *)
LEMMA GcExitKeeps ==
    ASSUME LifeInv, Orderly, ended = "no", NEW k \in Kernels, GcExit(k)
    PROVE  LifeInv'
<1>f. details' = [details EXCEPT ![k] = "freed"]
  BY DEF GcExit, Freed, GcLife, GcStep
<1>1. TypeOK'
  BY <1>f DEF KernelStates, GcStates, Owners, GcExit, GcStep
<1>2. Serial' /\ Ending'
  BY <1>f DEF Ending, GcExit, GcStep
<1>3. Pointers' /\ NoKernelLost'
  BY <1>f DEF NoKernelLost, GcExit, GcStep
<1>4. ASSUME NEW u \in Threads PROVE Stage(u)'
  BY <1>f DEF GcExit, GcStep
<1>5. ASSUME NEW u \in Threads PROVE Joining(u)'
  BY <1>f DEF Joining, GcLife, Members, GcExit, GcStep
<1>6. ASSUME NEW m \in Kernels PROVE GcLife(m)'
  BY <1>f DEF KernelStates, GcStates, Joining, GcLife, GcExit, GcStep
<1>7. ASSUME NEW m \in Kernels PROVE Owned(m)'
  BY <1>f DEF KernelStates, GcStates, Joining, GcLife, Owned, GcExit, GcStep
<1>8. ASSUME NEW m \in Kernels PROVE Members(m)'
  BY <1>f DEF NoKernelLost, Joining, GcLife, Members, GcExit, GcStep
<1>. QED  BY <1>1, <1>2, <1>3, <1>4, <1>5, <1>6, <1>7, <1>8
HIDE DEF LifeInv, TypeOK, Serial, Stage, Pointers, PCs, ChangePCs, HoldPCs, CreatePCs, DestroyPCs,
         ShutdownPCs, CallPCs, Goto

-----------------------------------------------------------------------------
(* The invariant holds in every state of an orderly program. *)
THEOREM InductiveInvariant == Orderly => (Spec => []LifeInv)
<1>. SUFFICES ASSUME Orderly PROVE Spec => []LifeInv
  OBVIOUS
<1>1. Init => LifeInv
  <2>. SUFFICES ASSUME Init PROVE LifeInv
    OBVIOUS
  <2>. USE DEF Init, PCs, CreatePCs, DestroyPCs, ShutdownPCs, CallPCs, ChangePCs, HoldPCs
  <2>1. TypeOK
    BY DEF TypeOK, KernelStates, GcStates, Owners
  <2>2. Ending /\ Serial /\ Pointers /\ NoKernelLost
    BY DEF Ending, Serial, Pointers, NoKernelLost
  <2>3. \A t \in Threads : Stage(t) /\ Joining(t)
    BY DEF Stage, Joining
  <2>4. \A k \in Kernels : GcLife(k) /\ Owned(k) /\ Members(k)
    BY DEF GcLife, Owned, Members
  <2>. QED  BY <2>1, <2>2, <2>3, <2>4 DEF LifeInv
<1>2. LifeInv /\ [Next]_vars => LifeInv'
  <2>. SUFFICES ASSUME LifeInv, [Next]_vars PROVE LifeInv'
    OBVIOUS
  <2>1. CASE UNCHANGED vars
    <3>. USE <2>1 DEF LifeInv, vars
    <3>1. TypeOK' /\ Ending' /\ Serial' /\ Pointers' /\ NoKernelLost'
      BY DEF TypeOK, Ending, Serial, Pointers, NoKernelLost
    <3>2. \A t \in Threads : Stage(t)' /\ Joining(t)'
      BY DEF Stage, Joining
    <3>3. \A k \in Kernels : GcLife(k)' /\ Owned(k)' /\ Members(k)'
      BY DEF GcLife, Owned, Members
    <3>. QED  BY <3>1, <3>2, <3>3
  <2>2. CASE Next
    <3>1. ended = "no"
      BY <2>2 DEF Next
    <3>2. ASSUME NEW t \in Threads, CallNext(t) PROVE LifeInv'
      BY <3>1, <3>2, CallRegisterKeeps, CallAddRootKeeps, CallRemoveRootKeeps, UnregisterKeeps,
         CallShutdownKeeps, ExitKeeps DEF CallNext
    <3>3. ASSUME NEW t \in Threads, CreateNext(t) PROVE LifeInv'
      BY <3>1, <3>3, ConstructKeeps, AssignKeeps, PublishKeeps, InitializeKeeps DEF CreateNext
    <3>4. ASSUME NEW t \in Threads, RegisterNext(t) PROVE LifeInv'
      BY <3>1, <3>4, RegisterKeeps, UInitializeKeeps, StartKeeps, StartFailsKeeps, PushKeeps,
         ChangeRootsKeeps DEF RegisterNext
    <3>5. ASSUME NEW t \in Threads, ShutdownNext(t) PROVE LifeInv'
      BY <3>1, <3>5, SLockKeeps, SStopKeeps, SJoinKeeps, SForgetKeeps DEF ShutdownNext
    <3>6. ASSUME NEW t \in Threads, DestroyNext(t) PROVE LifeInv'
      BY <3>1, <3>6, DStopKeeps, DJoinKeeps, DClearKeeps, DReleaseKeeps DEF DestroyNext
    <3>7. ASSUME NEW k \in Kernels, GcNext(k) PROVE LifeInv'
      BY <3>1, <3>7, GcRunReturnsKeeps, GcDestroyThreadKeeps, GcExitKeeps DEF GcNext
    <3>. QED  BY <2>2, <3>2, <3>3, <3>4, <3>5, <3>6, <3>7 DEF Next
  <2>. QED  BY <2>1, <2>2
<1>. QED  BY <1>1, <1>2, PTL DEF Spec

(* The state of kernels, gc threads and callers stays well typed. *)
THEOREM TypeCorrect == Orderly => (Spec => []TypeOK)
BY InductiveInvariant, PTL DEF LifeInv

(* A call that has tested g_gks finds an initialized kernel when it reads   *)
(* it again (kernel.cpp 171-239).                                           *)
THEOREM CallsFindAKernel == Orderly => (Spec => []KernelUsable)
<1>1. LifeInv => KernelUsable
  <2>. SUFFICES ASSUME LifeInv, NEW t \in Threads PROVE
         /\ pc[t] \in {"register", "add_root", "remove_root", "s_lock"} =>
                g_gks # Null /\ kstate[g_gks] = "ready"
         /\ pc[t] \in {"u_initialize", "start", "push", "s_stop", "s_join"} =>
                kstate[mine[t]] = "ready"
    BY DEF KernelUsable
  <2>1. CASE pc[t] \in CallPCs \cup ShutdownPCs
    <3>1. g_gks # Null /\ gks = g_gks
      BY <2>1 DEF LifeInv, Stage, Pointers
    <3>2. ended # "exit"
      BY <2>1 DEF LifeInv, Ending, CallPCs, ShutdownPCs
    <3>3. \A u \in Threads : pc[u] \notin {"publish", "initialize"} \cup DestroyPCs
      BY <2>1 DEF LifeInv, Serial, ChangePCs, CreatePCs, DestroyPCs, ShutdownPCs, CallPCs
    <3>4. kstate[g_gks] = "ready"
      BY <3>1, <3>2, <3>3 DEF LifeInv, Pointers
    <3>. QED  BY <3>1, <3>4 DEF LifeInv, Stage, HoldPCs
  <2>. QED  BY <2>1 DEF CallPCs, ShutdownPCs
<1>. QED  BY <1>1, InductiveInvariant, PTL

(* No kernel is lost: between calls gks owns the only one that is not dead  *)
(* (check_initialized, kernel.cpp 22-33).                                   *)
THEOREM KernelsAreOwned == Orderly => (Spec => []NoKernelLost)
BY InductiveInvariant, PTL DEF LifeInv

(* The gc thread finds its object and its own kernel to the end of its      *)
(* lambda (gc_thread.cpp 24-34).                                            *)
THEOREM GcThreadsAtHome == Orderly => (Spec => []GcThreadInItsKernel)
<1>1. LifeInv => GcThreadInItsKernel
  BY DEF LifeInv, GcLife, GcThreadInItsKernel, RealGks
<1>. QED  BY <1>1, InductiveInvariant, PTL

(* A destructor gives the memory of the internal allocator back to the one  *)
(* it came from (global_kernel_state.cpp 38-46).                            *)
THEOREM MemoryGoesHome == Orderly => (Spec => []InternalMemoryHome)
<1>1. LifeInv => InternalMemoryHome
  <2>. SUFFICES ASSUME LifeInv, NEW t \in Threads, pc[t] = "d_release", internal[mine[t]]
                PROVE  RealGks = mine[t]
    BY DEF InternalMemoryHome
  <2>1. mine[t] \in Kernels /\ cached = mine[t]
    BY DEF LifeInv, TypeOK, Stage, Members, DestroyPCs
  <2>2. g_gks \in {Null, mine[t]}
    BY DEF LifeInv, Stage, Pointers, DestroyPCs
  <2>. QED  BY <2>1, <2>2 DEF RealGks
<1>. QED  BY <1>1, InductiveInvariant, PTL

(* Every gc thread is joined once, by the shutdown or by the destructor     *)
(* (gc_thread.cpp 37-52).                                                   *)
THEOREM EachJoinedOnce == Orderly => (Spec => []JoinedOnce)
<1>1. LifeInv => JoinedOnce
  <2>. SUFFICES ASSUME LifeInv, NEW k \in Kernels
                PROVE  /\ joins[k] <= 1
                       /\ kstate[k] = "dead" => (gc[k] = "none" \/ joins[k] = 1)
    BY DEF JoinedOnce
  <2>1. joins[k] \in {0, 1}
    BY DEF LifeInv, GcLife
  <2>2. kstate[k] = "dead" => (gc[k] = "none" \/ joins[k] = 1)
    BY DEF LifeInv, GcLife
  <2>3. joins[k] <= 1
    BY <2>1
  <2>. QED  BY <2>2, <2>3
<1>. QED  BY <1>1, InductiveInvariant, PTL

(* The details of a thread's start are destroyed once, whether or not the   *)
(* thread could be made (allocated_thread_timpl.hpp).                       *)
THEOREM EachFreedOnce == Orderly => (Spec => []DetailsFreedOnce)
<1>1. LifeInv => DetailsFreedOnce
  <2>. SUFFICES ASSUME LifeInv, NEW k \in Kernels
                PROVE  /\ details[k] # "freed twice"
                       /\ details[k] = "creator" => \E t \in Threads : pc[t] = "start" /\ mine[t] = k
                       /\ gc[k] = "exited" => details[k] = "freed"
    BY DEF DetailsFreedOnce
  <2>1. gc[k] \in {"none", "running", "left", "returned", "exited"}
    BY DEF LifeInv, TypeOK, GcStates
  <2>2. details[k] # "freed twice"
    BY <2>1 DEF LifeInv, GcLife
  <2>. QED  BY <2>2 DEF LifeInv, GcLife, Owned
<1>. QED  BY <1>1, InductiveInvariant, PTL

(* Threads are registered only with a kernel whose gc thread serves them    *)
(* (global_kernel_state.cpp 504-541).                                       *)
THEOREM MembersAreServed == Orderly => (Spec => []MembersHaveGcThread)
<1>1. LifeInv => MembersHaveGcThread
  BY DEF LifeInv, TypeOK, GcLife, Members, MembersHaveGcThread, DestroyPCs
<1>. QED  BY <1>1, InductiveInvariant, PTL
=============================================================================
