------------------------------ MODULE LlamaShim ------------------------------
(***************************************************************************)
(* Loading and dropping backends (src/include/aptp_llama_shim.c behind     *)
(* LlamaCppBackend::new and its Drop): threads that load models of their   *)
(* own, share the flag that guards llama_backend_init, and own a model, a  *)
(* context and the shim's struct until they drop them.  Each allocation    *)
(* may fail.                                                               *)
(***************************************************************************)
EXTENDS Integers, FiniteSets

CONSTANTS
  Threads,
  MaxLoads   \* bound on the loads of a thread

ASSUME ThreadsAssumption == IsFiniteSet(Threads) /\ MaxLoads \in Nat

VARIABLES
  pc,           \* where each thread is
  initialized,  \* g_aptp_backend_initialized
  inits,        \* the calls of llama_backend_init
  ready,        \* one of them has returned
  models,       \* the threads that own a llama_model
  contexts,     \* the threads that own a llama_context
  handles,      \* the threads that own an aptp_model_t
  loads         \* the loads each thread began

vars == <<pc, initialized, inits, ready, models, contexts, handles, loads>>

Places == {"idle", "guard", "init", "load", "context", "alloc", "loaded", "drop"}
-----------------------------------------------------------------------------
Init ==
  /\ pc = [t \in Threads |-> "idle"]
  /\ initialized = 0
  /\ inits = 0 /\ ready = FALSE
  /\ models = {} /\ contexts = {} /\ handles = {}
  /\ loads = [t \in Threads |-> 0]

Goto(t, place) == pc' = [pc EXCEPT ![t] = place]

\* LlamaCppBackend::new calls aptp_load_model.
Begin(t) ==
  /\ pc[t] = "idle" /\ loads[t] < MaxLoads
  /\ loads' = [loads EXCEPT ![t] = @ + 1]
  /\ Goto(t, "guard")
  /\ UNCHANGED <<initialized, inits, ready, models, contexts, handles>>

\* Fault: the flag is tested and not set.
GuardByTest(t) ==
  /\ pc[t] = "guard"
  /\ \/ initialized = 0 /\ inits' = inits + 1 /\ Goto(t, "init")
     \/ initialized # 0 /\ UNCHANGED inits /\ Goto(t, "load")
  /\ UNCHANGED <<initialized, ready, models, contexts, handles, loads>>

\* ensure_backend_init: atomic_exchange, and the call of llama_backend_init.
Guard(t) ==
  /\ pc[t] = "guard"
  /\ initialized' = 1
  /\ \/ initialized = 0 /\ inits' = inits + 1 /\ Goto(t, "init")
     \/ initialized # 0 /\ UNCHANGED inits /\ Goto(t, "load")
  /\ UNCHANGED <<ready, models, contexts, handles, loads>>

\* llama_backend_init returns.
BackendInit(t) ==
  /\ pc[t] = "init"
  /\ ready' = TRUE
  /\ Goto(t, "load")
  /\ UNCHANGED <<initialized, inits, models, contexts, handles, loads>>

\* llama_load_model_from_file, or NULL.
LoadModel(t) ==
  /\ pc[t] = "load"
  /\ \/ models' = models \cup {t} /\ Goto(t, "context")
     \/ UNCHANGED models /\ Goto(t, "idle")
  /\ UNCHANGED <<initialized, inits, ready, contexts, handles, loads>>

\* Fault: the model is not freed where there is no context for it.
NewContextLeaking(t) ==
  /\ pc[t] = "context"
  /\ \/ contexts' = contexts \cup {t} /\ Goto(t, "alloc")
     \/ UNCHANGED contexts /\ Goto(t, "idle")
  /\ UNCHANGED <<initialized, inits, ready, models, handles, loads>>

\* llama_new_context_with_model, or the model is freed and NULL returned.
NewContext(t) ==
  /\ pc[t] = "context"
  /\ \/ contexts' = contexts \cup {t} /\ Goto(t, "alloc") /\ UNCHANGED models
     \/ UNCHANGED contexts /\ Goto(t, "idle") /\ models' = models \ {t}
  /\ UNCHANGED <<initialized, inits, ready, handles, loads>>

\* calloc of the struct, or context and model are freed and NULL returned.
Alloc(t) ==
  /\ pc[t] = "alloc"
  /\ \/ handles' = handles \cup {t} /\ Goto(t, "loaded") /\ UNCHANGED <<models, contexts>>
     \/ /\ contexts' = contexts \ {t} /\ models' = models \ {t}
        /\ UNCHANGED handles /\ Goto(t, "idle")
  /\ UNCHANGED <<initialized, inits, ready, loads>>

\* Fault: the model is freed before its context.
DropModelFirst(t) ==
  /\ pc[t] = "loaded"
  /\ models' = models \ {t}
  /\ Goto(t, "drop")
  /\ UNCHANGED <<initialized, inits, ready, contexts, handles, loads>>

\* Drop: aptp_free_model frees the context,
DropContext(t) ==
  /\ pc[t] = "loaded"
  /\ contexts' = contexts \ {t}
  /\ Goto(t, "drop")
  /\ UNCHANGED <<initialized, inits, ready, models, handles, loads>>

\* then the model and the struct.
DropModel(t) ==
  /\ pc[t] = "drop"
  /\ models' = models \ {t} /\ handles' = handles \ {t}
  /\ Goto(t, "idle")
  /\ UNCHANGED <<initialized, inits, ready, contexts, loads>>

Step(t) ==
  \/ Guard(t) \/ BackendInit(t) \/ LoadModel(t) \/ NewContext(t) \/ Alloc(t)
  \/ DropModel(t)

Next == \E t \in Threads : Begin(t) \/ Step(t) \/ DropContext(t)

Spec == Init /\ [][Next]_vars
-----------------------------------------------------------------------------
(* Properties *)

\* Every variable has its type, and the flag says whether the backend was asked for.
TypeOK ==
  /\ pc \in [Threads -> Places]
  /\ initialized \in {0, 1} /\ inits \in Nat /\ ready \in BOOLEAN
  /\ initialized = 0 <=> inits = 0
  /\ models \subseteq Threads /\ contexts \subseteq Threads /\ handles \subseteq Threads
  /\ loads \in [Threads -> 0..MaxLoads]

\* However many threads load their first model at once, llama_backend_init is called
\* at most once (aptp_llama_shim.c:50).
InitOnce == inits <= 1

\* A thread that is not loading, holding or dropping a backend owns nothing native,
\* whichever allocation of whichever load failed.
NothingLeaks ==
  \A t \in Threads : pc[t] \in {"idle", "guard", "init", "load"} =>
    t \notin models \cup contexts \cup handles

\* A context lives within its model, and a backend has both.
ContextWithinModel ==
  /\ contexts \subseteq models
  /\ \A t \in Threads : pc[t] = "loaded" => t \in contexts \cap handles
=============================================================================
