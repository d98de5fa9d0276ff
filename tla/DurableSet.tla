----------------------------- MODULE DurableSet -----------------------------
(***************************************************************************)
(* What the panel's storage layer promises, with no lock, no thread and no *)
(* file: a memory that changes, a saved copy that survives a crash, and    *)
(* the changes a caller has been told are safe.  Every detailed store of   *)
(* this project is shown to implement this one.                            *)
(***************************************************************************)
CONSTANT Change          \* the changes anyone may make to the database

VARIABLES mem,           \* the changes the running process would answer with
          saved,         \* the changes a restart would find
          promised,      \* the changes some caller was told are safe
          running        \* is the process alive

abstractVars == <<mem, saved, promised, running>>

AInit == /\ mem = {} /\ saved = {} /\ promised = {}
         /\ running = FALSE

\* The process starts from what was saved.
AStart == /\ ~running /\ running' = TRUE
          /\ mem' = saved
          /\ UNCHANGED <<saved, promised>>

\* Memory only gains changes ...
AApply == /\ running
          /\ mem' \in SUBSET Change /\ mem \subseteq mem'
          /\ UNCHANGED <<saved, promised, running>>

\* ... except when a backup is swapped in, which withdraws the promises it
\* does not contain.
ARestore == /\ running
            /\ mem' \in SUBSET Change
            /\ promised' = promised \cap mem'
            /\ UNCHANGED <<saved, running>>

\* Saving may lose what nobody was promised, never the rest.
ASave == /\ running
         /\ saved' \in SUBSET Change /\ promised \subseteq saved'
         /\ UNCHANGED <<mem, promised, running>>

\* A promise covers only what is both saved and in memory already.
APromise == /\ running
            /\ promised' \in SUBSET (saved \cap mem)
            /\ promised \subseteq promised'
            /\ UNCHANGED <<mem, saved, running>>

\* A stop takes the memory; a power cut may also fall back to an older save
\* that still holds every promise.
AStop == /\ running /\ running' = FALSE
         /\ mem' = {}
         /\ saved' \in SUBSET Change /\ promised \subseteq saved'
         /\ UNCHANGED promised

ANext == AStart \/ AApply \/ ARestore \/ ASave \/ APromise \/ AStop

ASpec == AInit /\ [][ANext]_abstractVars
=============================================================================
