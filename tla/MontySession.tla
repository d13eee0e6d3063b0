---------------------------- MODULE MontySession ----------------------------
(***************************************************************************)
(* Monty sessions: runs of MontyTool::execute (crates/tool-monty) over the *)
(* session store (crates/access-monty).  A run loads the REPL of its       *)
(* session, feeds it code that may call tools (the same tool included),    *)
(* and saves the REPL.  The store locks each access, not the run: runs of  *)
(* one session may overlap between load and save.                          *)
(*                                                                         *)
(* The state of a REPL is the sequence of runs whose code it was fed; the  *)
(* interpreter decides what a run does between load and save.              *)
(***************************************************************************)
EXTENDS Naturals, Sequences, FiniteSets

CONSTANTS
  Run,       \* runs of the tool
  NoRun,
  Root,      \* canonical workspace roots
  SessionId,
  MaxCalls   \* bound on the tool calls of one run

Key == [root : Root, id : SessionId]
Public == 0
Class == 0..2 \* OutputClassification by classification_rank

ASSUME SessionAssumption == NoRun \notin Run /\ MaxCalls \in Nat

VARIABLES
  store,    \* the saved REPL of each session, <<>> where none was saved
  pc,       \* where each run is
  parent,   \* the run whose code called this one, NoRun for a call from outside
  child,    \* the run a run's code is waiting for, or NoRun
  key,      \* the session of each run
  repl,     \* the REPL a run works on
  class,    \* MontyStepOutput.classification
  calls,    \* tool calls made so far, a bound of the model only
  saved,    \* history: the runs that saved each session, in order
  received, \* history: the classifications a run was handed
  overlapped \* history: the sessions loaded while another run had them loaded

history == <<saved, received, overlapped>>
vars == <<store, pc, parent, child, key, repl, class, calls, history>>

PC == {"idle", "loading", "driving", "awaiting", "saving", "ok", "error", "dropped"}

TypeOK ==
  /\ store \in [Key -> Seq(Run)]
  /\ pc \in [Run -> PC]
  /\ parent \in [Run -> Run \cup {NoRun}]
  /\ child \in [Run -> Run \cup {NoRun}]
  /\ key \in [Run -> Key]
  /\ repl \in [Run -> Seq(Run)]
  /\ class \in [Run -> Class]
  /\ calls \in [Run -> 0..MaxCalls]
  /\ saved \in [Key -> Seq(Run)]
  /\ received \in [Run -> SUBSET Class]
  /\ overlapped \subseteq Key

Init ==
  /\ store = [k \in Key |-> <<>>]
  /\ pc = [r \in Run |-> "idle"]
  /\ parent = [r \in Run |-> NoRun]
  /\ child = [r \in Run |-> NoRun]
  /\ key \in [Run -> Key]
  /\ repl = [r \in Run |-> <<>>]
  /\ class = [r \in Run |-> Public]
  /\ calls = [r \in Run |-> 0]
  /\ saved = [k \in Key |-> <<>>]
  /\ received = [r \in Run |-> {}]
  /\ overlapped = {}

-----------------------------------------------------------------------------
Goto(r, label) == pc' = [pc EXCEPT ![r] = label]

Ended(r) == pc[r] \in {"ok", "error", "dropped"}

(* Between load and save a run works on its own copy of the session. *)
HoldsCopy(r) == pc[r] \in {"driving", "awaiting", "saving"}

(* Slip: the workspace root is left out of the key. *)
StoreKeyById(r) == [root |-> CHOOSE root \in Root : TRUE, id |-> key[r].id]

(* MontySessionKey *)
StoreKey(r) == key[r]

Start(r) ==
  /\ pc[r] = "idle"
  /\ Goto(r, "loading")
  /\ UNCHANGED <<store, parent, child, key, repl, class, calls, history>>

(* MontySessionAccess::load: the policies may refuse; a session that was   *)
(* never saved starts as a new REPL.  A stored REPL that does not load is   *)
(* the same to the caller as a refusal.                                    *)
LoadDenied(r) ==
  /\ pc[r] = "loading"
  /\ Goto(r, "error")
  /\ UNCHANGED <<store, parent, child, key, repl, class, calls, history>>

(* Slip: a session is locked from load to save. *)
LoadLocked(r) ==
  /\ pc[r] = "loading"
  /\ \A q \in Run \ {r} : ~(key[q] = key[r] /\ HoldsCopy(q))
  /\ repl' = [repl EXCEPT ![r] = store[StoreKey(r)]]
  /\ Goto(r, "driving")
  /\ UNCHANGED <<store, parent, child, key, class, calls, history>>

(* Slip: every run starts a new REPL. *)
LoadFresh(r) ==
  /\ pc[r] = "loading"
  /\ overlapped' = IF \E q \in Run \ {r} : key[q] = key[r] /\ HoldsCopy(q)
                   THEN overlapped \cup {key[r]} ELSE overlapped
  /\ Goto(r, "driving")
  /\ UNCHANGED <<store, parent, child, key, repl, class, calls, saved, received>>

Load(r) ==
  /\ pc[r] = "loading"
  /\ repl' = [repl EXCEPT ![r] = store[StoreKey(r)]]
  /\ overlapped' = IF \E q \in Run \ {r} : key[q] = key[r] /\ HoldsCopy(q)
                   THEN overlapped \cup {key[r]} ELSE overlapped
  /\ Goto(r, "driving")
  /\ UNCHANGED <<store, parent, child, key, class, calls, saved, received>>

-----------------------------------------------------------------------------
(* drive *)

(* Slip: the latest classification replaces the others. *)
MergeLatest(current, next) == next

(* Slip: the ranks are added up. *)
MergeSum(current, next) == current + next

(* merge_classification *)
Merge(current, next) == IF next > current THEN next ELSE current

Receive(r, c) ==
  /\ class' = [class EXCEPT ![r] = Merge(@, c)]
  /\ received' = [received EXCEPT ![r] = @ \cup {c}]

(* An exposed tool or an OS call: an outcome is merged, an error (of the   *)
(* tool or of a conversion) reaches the code as an exception it may catch. *)
CallTool(r) ==
  /\ pc[r] = "driving"
  /\ calls[r] < MaxCalls
  /\ calls' = [calls EXCEPT ![r] = @ + 1]
  /\ \/ \E c \in Class : Receive(r, c)
     \/ UNCHANGED <<class, received>>
  /\ UNCHANGED <<store, pc, parent, child, key, repl, saved, overlapped>>

(* The code calls Monty itself, in the same workspace. *)
CallMonty(r, n) ==
  /\ pc[r] = "driving"
  /\ calls[r] < MaxCalls
  /\ pc[n] = "idle"
  /\ key[n].root = key[r].root
  /\ calls' = [calls EXCEPT ![r] = @ + 1]
  /\ parent' = [parent EXCEPT ![n] = r]
  /\ child' = [child EXCEPT ![r] = n]
  /\ pc' = [pc EXCEPT ![r] = "awaiting", ![n] = "loading"]
  /\ UNCHANGED <<store, key, repl, class, history>>

(* The nested run has ended, with an outcome or an exception. *)
Resume(r) ==
  /\ pc[r] = "awaiting"
  /\ Ended(child[r])
  /\ IF pc[child[r]] = "ok" THEN Receive(r, class[child[r]]) ELSE UNCHANGED <<class, received>>
  /\ child' = [child EXCEPT ![r] = NoRun]
  /\ Goto(r, "driving")
  /\ UNCHANGED <<store, parent, key, repl, calls, saved, overlapped>>

(* Slip: the REPL of failing code is saved too. *)
RaiseSaving(r) ==
  /\ pc[r] = "driving"
  /\ store' = [store EXCEPT ![StoreKey(r)] = Append(repl[r], r)]
  /\ Goto(r, "error")
  /\ UNCHANGED <<parent, child, key, repl, class, calls, history>>

(* The code raises, runs out of its limits or uses a future: the REPL is lost. *)
Raise(r) ==
  /\ pc[r] = "driving"
  /\ Goto(r, "error")
  /\ UNCHANGED <<store, parent, child, key, repl, class, calls, history>>

Complete(r) ==
  /\ pc[r] = "driving"
  /\ repl' = [repl EXCEPT ![r] = Append(@, r)]
  /\ Goto(r, "saving")
  /\ UNCHANGED <<store, parent, child, key, class, calls, history>>

-----------------------------------------------------------------------------
(* Slip: a refused save is ignored. *)
SaveDeniedIgnored(r) ==
  /\ pc[r] = "saving"
  /\ Goto(r, "ok")
  /\ UNCHANGED <<store, parent, child, key, repl, class, calls, history>>

(* The policies refuse, or the REPL does not serialise. *)
SaveDenied(r) ==
  /\ pc[r] = "saving"
  /\ Goto(r, "error")
  /\ UNCHANGED <<store, parent, child, key, repl, class, calls, history>>

(* Slip: a run adds itself to what is stored by now. *)
SaveAdding(r) ==
  /\ pc[r] = "saving"
  /\ store' = [store EXCEPT ![StoreKey(r)] = Append(@, r)]
  /\ saved' = [saved EXCEPT ![key[r]] = Append(@, r)]
  /\ Goto(r, "ok") \/ Goto(r, "error")
  /\ UNCHANGED <<parent, child, key, repl, class, calls, received, overlapped>>

(* The value is converted after the save, so a run may fail although its   *)
(* session was saved.                                                      *)
Save(r) ==
  /\ pc[r] = "saving"
  /\ store' = [store EXCEPT ![StoreKey(r)] = repl[r]]
  /\ saved' = [saved EXCEPT ![key[r]] = Append(@, r)]
  /\ Goto(r, "ok") \/ Goto(r, "error")
  /\ UNCHANGED <<parent, child, key, repl, class, calls, received, overlapped>>

(* A call from outside is dropped while it awaits a policy or a tool: with *)
(* it go the runs its code is waiting for.                                 *)
Caller[r \in Run] == IF parent[r] = NoRun THEN r ELSE Caller[parent[r]]

Drop(r) ==
  /\ parent[r] = NoRun
  /\ pc[r] # "idle" /\ ~Ended(r)
  /\ pc' = [q \in Run |->
              IF pc[q] # "idle" /\ ~Ended(q) /\ Caller[q] = r THEN "dropped" ELSE pc[q]]
  /\ UNCHANGED <<store, parent, child, key, repl, class, calls, history>>

-----------------------------------------------------------------------------
Advance(r) == Load(r) \/ Resume(r) \/ Raise(r) \/ Complete(r) \/ Save(r)
Denied(r) == LoadDenied(r) \/ SaveDenied(r)

Next ==
  \E r \in Run :
    \/ Start(r) \/ Advance(r) \/ Denied(r) \/ CallTool(r) \/ Drop(r)
    \/ \E n \in Run \ {r} : CallMonty(r, n)

Safety == Init /\ [][Next]_vars

(* Policies and tools answer, one way or the other, and code ends: the     *)
(* interpreter has limits.                                                 *)
Spec == Safety /\ \A r \in Run : WF_vars(Advance(r))

-----------------------------------------------------------------------------
(* Properties *)

Elements(s) == {s[i] : i \in 1..Len(s)}

(* Every run of a session finds the state the previous ones left, as long  *)
(* as they do not overlap: the session is then exactly the runs that saved *)
(* it, in order (tool-monty tests, monty_session_store_preserves_repl_state). *)
SerialRunsAccumulate == \A k \in Key \ overlapped : store[k] = saved[k]

(* Even with overlaps a session is a history, not a mixture: the last save *)
(* wins, what is stored was saved, in the order of the saves, and nothing  *)
(* of a run that failed before its save is left.                           *)
StoredIsSavedHistory ==
  \A k \in Key :
    LET n == Len(store[k])
        m == Len(saved[k])
    IN  /\ (n = 0) = (m = 0)
        /\ m > 0 => store[k][n] = saved[k][m]
        /\ Elements(store[k]) \subseteq Elements(saved[k])
        /\ \A i, j \in 1..n : i < j =>
             \E a, b \in 1..m : a < b /\ saved[k][a] = store[k][i] /\ saved[k][b] = store[k][j]

(* Sessions of different workspaces or names never see each other's runs.  *)
SessionsIsolated == \A k \in Key : \A r \in Elements(store[k]) : key[r] = k

(* What a run reports and what it saved agree: a run saves at most once, a *)
(* run that succeeded did, and one that was dropped or refused did not,    *)
(* whatever its tools had done by then.                                    *)
OkIsSaved ==
  \A r \in Run :
    LET saves == Cardinality({i \in 1..Len(saved[key[r]]) : saved[key[r]][i] = r})
    IN  /\ saves <= 1
        /\ pc[r] = "ok" => saves = 1
        /\ pc[r] \notin {"ok", "error"} => saves = 0

(* What a run saved on the session of its caller is superseded when the    *)
(* caller saves, whatever it reported; only a third run that had loaded it *)
(* by then may bring it back.                                              *)
CallerSupersedes ==
  \A q, r \in Run :
    LET k == key[q] IN
    /\ parent[r] = q /\ key[r] = k
    /\ saved[k] # <<>> /\ saved[k][Len(saved[k])] = q
    => r \notin Elements(store[k])

(* The outcome of a run is as sensitive as the most sensitive outcome its  *)
(* code was handed, whether or not the code failed calls in between.       *)
ClassificationCovers ==
  \A r \in Run : \A c \in received[r] : c <= class[r]

(* A run ends, also when its code calls Monty on its own session.          *)
RunsEnd == \A r \in Run : pc[r] = "loading" ~> Ended(r)

(* What the session tests and docs/design.md:30 ("Persist Monty REPL       *)
(* state") say of a session: a run that succeeded stays part of it.        *)
OkRunsPersist == \A r \in Run : pc[r] = "ok" => r \in Elements(store[key[r]])
=============================================================================
