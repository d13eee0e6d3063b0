------------------------- MODULE MontySessionProofs -------------------------
(***************************************************************************)
(* Proofs about MontySession, for any runs, sessions and tool calls: what  *)
(* a stored session is made of, however its runs nest and overlap.         *)
(***************************************************************************)
EXTENDS MontySession, SequenceTheorems, FiniteSetTheorems, TLAPS

(* A run that waits has somebody to wait for; the types rest on it, because *)
(* Resume reads the state of that run.                                     *)
AwaitsARun == \A r \in Run : pc[r] = "awaiting" => child[r] \in Run

Typed == TypeOK /\ AwaitsARun

LEMMA TypeInit == Init => Typed
<1> SUFFICES ASSUME Init PROVE Typed
  OBVIOUS
<1>1. <<>> \in Seq(Run)
  OBVIOUS
<1> QED BY <1>1, SessionAssumption DEF Init, Typed, TypeOK, AwaitsARun, PC, Class, Public

LEMMA AwaitStep == TypeOK /\ AwaitsARun /\ [Next]_vars => AwaitsARun'
<1> SUFFICES ASSUME TypeOK, AwaitsARun, [Next]_vars, NEW q \in Run, pc'[q] = "awaiting"
             PROVE  child'[q] \in Run
  BY DEF AwaitsARun
<1>1. ASSUME NEW r \in Run, NEW n \in Run \ {r}, CallMonty(r, n) PROVE child'[q] \in Run
  BY <1>1 DEF CallMonty, TypeOK, AwaitsARun
<1>2. ASSUME NEW r \in Run, Resume(r) PROVE child'[q] \in Run
  BY <1>2 DEF Resume, Goto, TypeOK, AwaitsARun
<1>3. CASE pc[q] = "awaiting" /\ UNCHANGED child
  BY <1>3 DEF AwaitsARun
<1>4. ASSUME NEW r \in Run, \/ Start(r) \/ Load(r) \/ Raise(r) \/ Complete(r)
                             \/ LoadDenied(r) \/ SaveDenied(r) \/ CallTool(r)
      PROVE  pc[q] = "awaiting" /\ UNCHANGED child
  BY <1>4 DEF Start, Load, Raise, Complete, LoadDenied, SaveDenied, CallTool, Goto, TypeOK
<1>5. ASSUME NEW r \in Run, Save(r) \/ Drop(r) PROVE pc[q] = "awaiting" /\ UNCHANGED child
  BY <1>5 DEF Save, Drop, Goto, TypeOK
<1>6. CASE UNCHANGED vars
  BY <1>3, <1>6 DEF vars
<1> QED BY <1>1, <1>2, <1>3, <1>4, <1>5, <1>6 DEF Next, Advance, Denied

LEMMA TypeStep == TypeOK /\ AwaitsARun /\ [Next]_vars => TypeOK'
<1> SUFFICES ASSUME TypeOK, AwaitsARun, [Next]_vars PROVE TypeOK'
  OBVIOUS
<1>1. ASSUME NEW r \in Run, Start(r) \/ LoadDenied(r) \/ Raise(r) \/ SaveDenied(r) PROVE TypeOK'
  BY <1>1 DEF Start, LoadDenied, Raise, SaveDenied, Goto, history, TypeOK, PC
<1>2. ASSUME NEW r \in Run, Load(r) PROVE TypeOK'
  <2>1. store[key[r]] \in Seq(Run) /\ key[r] \in Key
    BY DEF TypeOK
  <2>2. overlapped' \subseteq Key
    BY <1>2, <2>1 DEF Load, TypeOK
  <2> QED BY <1>2, <2>1, <2>2 DEF Load, StoreKey, Goto, TypeOK, PC
<1>3. ASSUME NEW r \in Run, NEW c \in Class, Receive(r, c)
      PROVE  class' \in [Run -> Class] /\ received' \in [Run -> SUBSET Class]
  BY <1>3 DEF Receive, Merge, TypeOK
<1>4. ASSUME NEW r \in Run, CallTool(r) PROVE TypeOK'
  <2>1. class' \in [Run -> Class] /\ received' \in [Run -> SUBSET Class]
    BY <1>3, <1>4 DEF CallTool, TypeOK
  <2>2. calls' \in [Run -> 0..MaxCalls]
    BY <1>4, SessionAssumption DEF CallTool, TypeOK
  <2> QED BY <1>4, <2>1, <2>2 DEF CallTool, TypeOK
<1>5. ASSUME NEW r \in Run, NEW n \in Run \ {r}, CallMonty(r, n) PROVE TypeOK'
  <2>1. calls' \in [Run -> 0..MaxCalls]
    BY <1>5, SessionAssumption DEF CallMonty, TypeOK
  <2> QED BY <1>5, <2>1 DEF CallMonty, history, TypeOK, PC
<1>6. ASSUME NEW r \in Run, Resume(r) PROVE TypeOK'
  <2>1. CASE pc[child[r]] = "ok"
    <3>1. Receive(r, class[child[r]])
      BY <1>6, <2>1 DEF Resume
    <3>2. class[child[r]] \in Class
      BY <1>6 DEF Resume, AwaitsARun, TypeOK
    <3> QED BY <1>3, <1>6, <3>1, <3>2 DEF Resume, Goto, TypeOK, PC
  <2>2. CASE pc[child[r]] # "ok"
    BY <1>6, <2>2 DEF Resume, Goto, TypeOK, PC
  <2> QED BY <2>1, <2>2
<1>7. ASSUME NEW r \in Run, Complete(r) PROVE TypeOK'
  <2>1. Append(repl[r], r) \in Seq(Run)
    BY DEF TypeOK
  <2> QED BY <1>7, <2>1 DEF Complete, Goto, history, TypeOK, PC
<1>8. ASSUME NEW r \in Run, Save(r) PROVE TypeOK'
  <2>1. repl[r] \in Seq(Run) /\ Append(saved[key[r]], r) \in Seq(Run) /\ key[r] \in Key
    BY DEF TypeOK
  <2> QED BY <1>8, <2>1 DEF Save, StoreKey, Goto, TypeOK, PC
<1>9. ASSUME NEW r \in Run, Drop(r) PROVE TypeOK'
  BY <1>9 DEF Drop, history, TypeOK, PC
<1>10. CASE UNCHANGED vars
  BY <1>10 DEF vars, history, TypeOK
<1> QED BY <1>1, <1>2, <1>4, <1>5, <1>6, <1>7, <1>8, <1>9, <1>10 DEF Next, Advance, Denied

LEMMA TypedStep == Typed /\ [Next]_vars => Typed'
  BY TypeStep, AwaitStep DEF Typed

(* TypeOK, for which a waiting run must know whom it waits for.            *)
THEOREM SessionTypes == Spec => []TypeOK
<1>1. Typed => TypeOK
  BY DEF Typed
<1> QED BY <1>1, TypeInit, TypedStep, PTL DEF Spec, Safety

-----------------------------------------------------------------------------
(* Classification                                                          *)

LEMMA MergeCovers ==
  ASSUME Typed, ClassificationCovers, NEW r \in Run, NEW c \in Class, Receive(r, c)
  PROVE  ClassificationCovers'
<1>1. /\ class'[r] = Merge(class[r], c) /\ received'[r] = received[r] \cup {c}
      /\ \A q \in Run \ {r} : class'[q] = class[q] /\ received'[q] = received[q]
  BY DEF Receive, Typed, TypeOK
<1>2. c <= Merge(class[r], c) /\ class[r] <= Merge(class[r], c)
  <2>1. class[r] \in Class
    BY DEF Typed, TypeOK
  <2> QED BY <2>1 DEF Merge, Class
<1>3. ASSUME NEW d \in received[r] PROVE d <= Merge(class[r], c)
  <2>1. d \in Class /\ class[r] \in Class /\ Merge(class[r], c) \in Class /\ d <= class[r]
    BY DEF Typed, TypeOK, ClassificationCovers, Merge
  <2> QED BY <1>2, <2>1 DEF Class
<1> QED BY <1>1, <1>2, <1>3 DEF ClassificationCovers

(* ClassificationCovers for any runs: what is merged into a run is never   *)
(* taken back (tool-monty merge_classification).                           *)
THEOREM OutcomeAsSensitive == Spec => []ClassificationCovers
<1>1. Init => ClassificationCovers
  BY DEF Init, ClassificationCovers
<1>2. Typed /\ ClassificationCovers /\ [Next]_vars => ClassificationCovers'
  <2> SUFFICES ASSUME Typed, ClassificationCovers, [Next]_vars PROVE ClassificationCovers'
    OBVIOUS
  <2>1. CASE UNCHANGED <<class, received>>
    BY <2>1 DEF ClassificationCovers
  <2>2. ASSUME NEW r \in Run, CallTool(r) PROVE ClassificationCovers'
    BY <2>1, <2>2, MergeCovers DEF CallTool
  <2>3. ASSUME NEW r \in Run, Resume(r) PROVE ClassificationCovers'
    <3>1. class[child[r]] \in Class
      BY <2>3 DEF Resume, Typed, AwaitsARun, TypeOK
    <3> QED BY <2>1, <2>3, <3>1, MergeCovers DEF Resume
  <2>4. \/ \E r \in Run : CallTool(r) \/ Resume(r)
        \/ UNCHANGED <<class, received>>
    BY DEF Next, Advance, Denied, Start, Load, Raise, Complete, Save, LoadDenied, SaveDenied,
           CallMonty, Drop, history, vars
  <2> QED BY <2>1, <2>2, <2>3, <2>4
<1> QED BY <1>1, <1>2, TypeInit, TypedStep, PTL DEF Spec, Safety

-----------------------------------------------------------------------------
(* Sessions.  A run is early until it has nothing left to do but save; it  *)
(* then holds the session as it loaded it, with itself at the end.         *)
Working(r) == pc[r] \in {"driving", "awaiting"}
Fresh(r) == pc[r] \in {"idle", "loading"}

(* Every step but load, complete and save: no session and no copy changes, *)
(* no run gets nearer to a save, and a run has a caller once and for all.  *)
Quiet ==
  /\ UNCHANGED <<store, saved, repl, key, overlapped>>
  /\ \A r \in Run :
       /\ Working(r)' => Working(r)
       /\ pc'[r] = "saving" => pc[r] = "saving"
       /\ Fresh(r)' => Fresh(r)
       /\ pc'[r] = "ok" <=> pc[r] = "ok"
       /\ pc[r] = "error" => pc'[r] = "error"
       /\ \/ parent'[r] = parent[r]
          \/ pc[r] = "idle" /\ \E q \in Run \ {r} : parent'[r] = q /\ Working(q) /\ Working(q)'

LEMMA QuietSteps ==
  ASSUME Typed, [Next]_vars
  PROVE  \/ Quiet
         \/ \E r \in Run : Load(r) \/ Complete(r) \/ Save(r)
<1>1. ASSUME NEW r \in Run, Start(r) \/ LoadDenied(r) \/ Raise(r) \/ SaveDenied(r) PROVE Quiet
  BY <1>1 DEF Start, LoadDenied, Raise, SaveDenied, Goto, history, Typed, TypeOK,
              Quiet, Working, Fresh
<1>2. ASSUME NEW r \in Run, CallTool(r) PROVE Quiet
  BY <1>2 DEF CallTool, Quiet, Working, Fresh
<1>3. ASSUME NEW r \in Run, NEW n \in Run \ {r}, CallMonty(r, n) PROVE Quiet
  BY <1>3 DEF CallMonty, history, Typed, TypeOK, Quiet, Working, Fresh
<1>4. ASSUME NEW r \in Run, Resume(r) PROVE Quiet
  BY <1>4 DEF Resume, Goto, Typed, TypeOK, Quiet, Working, Fresh
<1>5. ASSUME NEW r \in Run, Drop(r) PROVE Quiet
  <2>1. /\ UNCHANGED <<store, saved, repl, key, overlapped, parent>>
        /\ \A q \in Run : \/ pc'[q] = pc[q]
                          \/ pc'[q] = "dropped" /\ pc[q] # "idle" /\ ~Ended(q)
    BY <1>5 DEF Drop, history
  <2> QED BY <2>1 DEF Quiet, Working, Fresh, Ended
<1>6. CASE UNCHANGED vars
  BY <1>6 DEF vars, history, Quiet, Working, Fresh
<1> QED BY <1>1, <1>2, <1>3, <1>4, <1>5, <1>6 DEF Next, Advance, Denied

LEMMA LoadEffect ==
  ASSUME Typed, NEW r \in Run, Load(r)
  PROVE  /\ UNCHANGED <<store, saved, key, parent>>
         /\ pc[r] = "loading" /\ pc'[r] = "driving" /\ repl'[r] = store[key[r]]
         /\ \A q \in Run \ {r} : pc'[q] = pc[q] /\ repl'[q] = repl[q]
         /\ overlapped \subseteq overlapped'
         /\ \A q \in Run \ {r} : key[q] = key[r] /\ HoldsCopy(q) => key[r] \in overlapped'
  BY DEF Load, StoreKey, Goto, Typed, TypeOK

LEMMA CompleteEffect ==
  ASSUME Typed, NEW r \in Run, Complete(r)
  PROVE  /\ UNCHANGED <<store, saved, key, parent, overlapped>>
         /\ pc[r] = "driving" /\ pc'[r] = "saving" /\ repl'[r] = Append(repl[r], r)
         /\ \A q \in Run \ {r} : pc'[q] = pc[q] /\ repl'[q] = repl[q]
  BY DEF Complete, history, Goto, Typed, TypeOK

LEMMA SaveEffect ==
  ASSUME Typed, NEW r \in Run, Save(r)
  PROVE  /\ UNCHANGED <<repl, key, parent, overlapped>>
         /\ pc[r] = "saving" /\ pc'[r] \in {"ok", "error"}
         /\ \A q \in Run \ {r} : pc'[q] = pc[q]
         /\ store'[key[r]] = repl[r] /\ saved'[key[r]] = Append(saved[key[r]], r)
         /\ \A k \in Key \ {key[r]} : store'[k] = store[k] /\ saved'[k] = saved[k]
  BY DEF Save, StoreKey, Goto, Typed, TypeOK

-----------------------------------------------------------------------------
(* A run saves once.                                                       *)
SavesOf(r) == {i \in 1..Len(saved[key[r]]) : saved[key[r]][i] = r}

SavesInv ==
  /\ \A k \in Key : \A i \in 1..Len(saved[k]) : key[saved[k][i]] = k
  /\ \A r \in Run :
       /\ pc[r] \notin {"ok", "error"} => SavesOf(r) = {}
       /\ pc[r] = "ok" => \E i : SavesOf(r) = {i}
       /\ pc[r] = "error" => SavesOf(r) = {} \/ \E i : SavesOf(r) = {i}

LEMMA SavesInit == Init => SavesInv
  BY DEF Init, SavesInv, SavesOf, TypeOK

LEMMA SavesStep == Typed /\ SavesInv /\ [Next]_vars => SavesInv'
<1> SUFFICES ASSUME Typed, SavesInv, [Next]_vars PROVE SavesInv'
  OBVIOUS
<1>1. CASE Quiet
  <2>1. \A r \in Run : SavesOf(r)' = SavesOf(r)
    BY <1>1 DEF Quiet, SavesOf
  <2>2. \A r \in Run : pc'[r] = "error" => pc[r] # "ok"
    BY <1>1 DEF Quiet
  <2> QED BY <1>1, <2>1, <2>2 DEF Quiet, SavesInv
<1>2. ASSUME NEW r \in Run, Load(r) \/ Complete(r) PROVE SavesInv'
  <2>1. /\ UNCHANGED <<saved, key>> /\ pc[r] \notin {"ok", "error"} /\ pc'[r] \notin {"ok", "error"}
        /\ \A q \in Run \ {r} : pc'[q] = pc[q]
    BY <1>2, LoadEffect, CompleteEffect
  <2>2. \A q \in Run : SavesOf(q)' = SavesOf(q)
    BY <2>1 DEF SavesOf
  <2> QED BY <2>1, <2>2 DEF SavesInv
<1>3. ASSUME NEW r \in Run, Save(r) PROVE SavesInv'
  <2> DEFINE k == key[r]
             n == Len(saved[k]) + 1
  <2>1. /\ key' = key /\ pc[r] = "saving" /\ pc'[r] \in {"ok", "error"}
        /\ \A q \in Run \ {r} : pc'[q] = pc[q]
        /\ saved'[k] = Append(saved[k], r)
        /\ \A l \in Key \ {k} : saved'[l] = saved[l]
    BY <1>3, SaveEffect
  <2>2. k \in Key /\ saved[k] \in Seq(Run)
    BY DEF Typed, TypeOK
  <2>3. /\ Len(saved[k]) \in Nat /\ Len(saved'[k]) = n /\ saved'[k][n] = r
        /\ \A i \in 1..Len(saved[k]) : saved'[k][i] = saved[k][i]
    BY <2>1, <2>2, AppendProperties
  <2>4. ASSUME NEW l \in Key, NEW i \in 1..Len(saved'[l]) PROVE key[saved'[l][i]] = l
    <3>1. CASE l # k
      BY <2>1, <3>1 DEF SavesInv
    <3>2. CASE l = k /\ i = n
      BY <2>3, <3>2
    <3>3. CASE l = k /\ i # n
      <4>1. i \in 1..Len(saved[k]) /\ saved'[k][i] = saved[k][i]
        BY <2>3, <3>3
      <4> QED BY <2>2, <3>3, <4>1 DEF SavesInv
    <3> QED BY <3>1, <3>2, <3>3
  <2>5. SavesOf(r)' = {n}
    <3>1. SavesOf(r) = {}
      BY <2>1 DEF SavesInv
    <3> QED BY <2>1, <2>3, <3>1 DEF SavesOf
  <2>6. ASSUME NEW q \in Run \ {r} PROVE SavesOf(q)' = SavesOf(q)
    <3>1. CASE key[q] = k
      BY <2>1, <2>3, <3>1 DEF SavesOf
    <3>2. CASE key[q] # k
      BY <2>1, <3>2 DEF SavesOf, Typed, TypeOK
    <3> QED BY <3>1, <3>2
  <2> QED BY <2>1, <2>4, <2>5, <2>6 DEF SavesInv
<1> QED BY <1>1, <1>2, <1>3, QuietSteps

(* OkIsSaved for any runs: whatever a run's calls did before, it succeeds  *)
(* with exactly one save, and no refused or dropped run has saved          *)
(* (tool-monty execute, the save and what follows it).                     *)
THEOREM SuccessIsOneSave == Spec => []OkIsSaved
<1>1. SavesInv => OkIsSaved
  <2> SUFFICES ASSUME SavesInv, NEW r \in Run
               PROVE  /\ Cardinality(SavesOf(r)) <= 1
                      /\ pc[r] = "ok" => Cardinality(SavesOf(r)) = 1
                      /\ pc[r] \notin {"ok", "error"} => Cardinality(SavesOf(r)) = 0
    BY DEF OkIsSaved, SavesOf
  <2>1. SavesOf(r) = {} => Cardinality(SavesOf(r)) = 0
    BY FS_EmptySet
  <2>2. (\E i : SavesOf(r) = {i}) => Cardinality(SavesOf(r)) = 1 /\ SavesOf(r) # {}
    BY FS_Singleton
  <2>3. /\ pc[r] \notin {"ok", "error"} => SavesOf(r) = {}
        /\ pc[r] = "ok" => \E i : SavesOf(r) = {i}
        /\ SavesOf(r) = {} \/ \E i : SavesOf(r) = {i}
    BY DEF SavesInv
  <2> DEFINE n == Cardinality(SavesOf(r))
  <2>4. /\ pc[r] \notin {"ok", "error"} => n = 0
        /\ pc[r] = "ok" => n = 1
        /\ n = 0 \/ n = 1
    BY <2>1, <2>2, <2>3, Zenon
  <2> HIDE DEF n
  <2>5. n <= 1
    BY <2>4
  <2> QED BY <2>4, <2>5 DEF n
<1> QED BY <1>1, TypeInit, TypedStep, SavesInit, SavesStep, PTL DEF Spec, Safety

-----------------------------------------------------------------------------
(* Histories.  One sequence follows another if it is part of it, in the    *)
(* same order.                                                             *)
Follows(s, t) ==
  /\ \A i \in 1..Len(s) : \E a \in 1..Len(t) : t[a] = s[i]
  /\ \A i, j \in 1..Len(s) : i < j =>
       \E a, b \in 1..Len(t) : a < b /\ t[a] = s[i] /\ t[b] = s[j]

LEMMA FollowsLonger ==
  ASSUME NEW s \in Seq(Run), NEW t \in Seq(Run), NEW e \in Run, Follows(s, t)
  PROVE  Follows(s, Append(t, e))
<1>1. /\ Len(t) \in Nat /\ Len(Append(t, e)) = Len(t) + 1
      /\ \A a \in 1..Len(t) : a \in 1..Len(Append(t, e)) /\ Append(t, e)[a] = t[a]
  BY AppendProperties
<1>2. ASSUME NEW i \in 1..Len(s) PROVE \E a \in 1..Len(Append(t, e)) : Append(t, e)[a] = s[i]
  BY <1>1 DEF Follows
<1>3. ASSUME NEW i \in 1..Len(s), NEW j \in 1..Len(s), i < j
      PROVE  \E a, b \in 1..Len(Append(t, e)) :
               a < b /\ Append(t, e)[a] = s[i] /\ Append(t, e)[b] = s[j]
  <2>1. PICK a \in 1..Len(t), b \in 1..Len(t) : a < b /\ t[a] = s[i] /\ t[b] = s[j]
    BY <1>3 DEF Follows
  <2> QED BY <1>1, <2>1
<1> QED BY <1>2, <1>3 DEF Follows

LEMMA FollowsBoth ==
  ASSUME NEW s \in Seq(Run), NEW t \in Seq(Run), NEW e \in Run, Follows(s, t)
  PROVE  Follows(Append(s, e), Append(t, e))
<1> DEFINE m == Len(s)
           n == Len(t)
           ss == Append(s, e)
           tt == Append(t, e)
<1>1. /\ m \in Nat /\ Len(ss) = m + 1 /\ ss[m + 1] = e
      /\ \A i \in 1..m : ss[i] = s[i]
  BY AppendProperties
<1>2. /\ n \in Nat /\ Len(tt) = n + 1 /\ tt[n + 1] = e
      /\ \A a \in 1..n : a \in 1..Len(tt) /\ tt[a] = t[a]
  BY AppendProperties
<1> HIDE DEF m, n, ss, tt
<1>3. \A i \in 1..m : \E a \in 1..n : t[a] = s[i]
  BY DEF Follows, m, n
<1>4. ASSUME NEW i \in 1..Len(ss) PROVE \E a \in 1..Len(tt) : tt[a] = ss[i]
  <2>1. CASE i = m + 1
    BY <1>1, <1>2, <2>1
  <2>2. CASE i \in 1..m
    BY <1>1, <1>2, <1>3, <2>2
  <2> QED BY <1>1, <2>1, <2>2
<1>5. ASSUME NEW i \in 1..Len(ss), NEW j \in 1..Len(ss), i < j
      PROVE  \E a, b \in 1..Len(tt) : a < b /\ tt[a] = ss[i] /\ tt[b] = ss[j]
  <2>1. i \in 1..m
    BY <1>1, <1>5
  <2>2. CASE j = m + 1
    <3>1. PICK a \in 1..n : t[a] = s[i]
      BY <1>3, <2>1
    <3>2. a < n + 1 /\ n + 1 \in 1..Len(tt) /\ a \in 1..Len(tt)
      BY <1>2, <3>1
    <3> QED BY <1>1, <1>2, <2>1, <2>2, <3>1, <3>2
  <2>3. CASE j \in 1..m
    <3>1. PICK a \in 1..n, b \in 1..n : a < b /\ t[a] = s[i] /\ t[b] = s[j]
      BY <1>5, <2>1, <2>3 DEF Follows, m, n
    <3> QED BY <1>1, <1>2, <2>1, <2>3, <3>1
  <2> QED BY <1>1, <2>2, <2>3
<1> QED BY <1>4, <1>5 DEF Follows, ss, tt

(* Somebody else saves before the last run of a copy does.                 *)
LEMMA FollowsInserted ==
  ASSUME NEW s \in Seq(Run), NEW t \in Seq(Run), NEW e \in Run, NEW f \in Run,
         Follows(s, Append(t, e))
  PROVE  Follows(s, Append(Append(t, f), e))
<1> DEFINE n == Len(t)
           tt == Append(t, e)
           uu == Append(Append(t, f), e)
           Moved(a) == IF a = n + 1 THEN n + 2 ELSE a
<1>1. /\ n \in Nat /\ Len(tt) = n + 1 /\ tt[n + 1] = e
      /\ \A a \in 1..n : tt[a] = t[a]
  BY AppendProperties
<1>2. /\ Len(uu) = n + 2 /\ uu[n + 2] = e
      /\ \A a \in 1..n : uu[a] = t[a]
  <2>1. /\ Append(t, f) \in Seq(Run) /\ Len(Append(t, f)) = n + 1
        /\ \A a \in 1..n : Append(t, f)[a] = t[a]
    BY AppendProperties
  <2> QED BY <1>1, <2>1, AppendProperties
<1> HIDE DEF n, tt, uu
<1>3. \A a \in 1..Len(tt) : Moved(a) \in 1..Len(uu) /\ uu[Moved(a)] = tt[a]
  BY <1>1, <1>2
<1>4. ASSUME NEW a \in 1..Len(tt), NEW b \in 1..Len(tt), a < b PROVE Moved(a) < Moved(b)
  <2>1. a \in 1..n /\ b \in 1..n + 1
    BY <1>1, <1>4
  <2> QED BY <1>1, <1>4, <2>1
<1> HIDE DEF Moved
<1>5. ASSUME NEW i \in 1..Len(s) PROVE \E a \in 1..Len(uu) : uu[a] = s[i]
  <2>1. PICK a \in 1..Len(tt) : tt[a] = s[i]
    BY DEF Follows, tt
  <2> QED BY <1>3, <2>1
<1>6. ASSUME NEW i \in 1..Len(s), NEW j \in 1..Len(s), i < j
      PROVE  \E a, b \in 1..Len(uu) : a < b /\ uu[a] = s[i] /\ uu[b] = s[j]
  <2>1. PICK a \in 1..Len(tt), b \in 1..Len(tt) : a < b /\ tt[a] = s[i] /\ tt[b] = s[j]
    BY <1>6 DEF Follows, tt
  <2> QED BY <1>3, <1>4, <2>1
<1> QED BY <1>5, <1>6 DEF Follows, uu

-----------------------------------------------------------------------------
(* What is stored.  A copy follows what was saved by now, although others  *)
(* may have saved since it was loaded, and so does what it is stored as.   *)
Last(s) == s[Len(s)]

CopiesInv ==
  /\ \A r \in Run : Working(r) => Follows(repl[r], saved[key[r]])
  /\ \A r \in Run : pc[r] = "saving" =>
       /\ Follows(repl[r], Append(saved[key[r]], r))
       /\ Len(repl[r]) > 0 /\ Last(repl[r]) = r
  /\ \A k \in Key :
       /\ Follows(store[k], saved[k])
       /\ (Len(store[k]) = 0) = (Len(saved[k]) = 0)
       /\ Len(saved[k]) > 0 => Last(store[k]) = Last(saved[k])

LEMMA CopiesInit == Init => CopiesInv
<1> SUFFICES ASSUME Init PROVE CopiesInv
  OBVIOUS
<1>1. /\ \A r \in Run : pc[r] = "idle"
      /\ \A k \in Key : store[k] = <<>> /\ saved[k] = <<>>
  BY DEF Init
<1>2. Len(<<>>) = 0 /\ 1..0 = {}
  OBVIOUS
<1>3. Follows(<<>>, <<>>)
  BY <1>2 DEF Follows
<1> QED BY <1>1, <1>2, <1>3 DEF CopiesInv, Working

LEMMA CopiesStep == Typed /\ CopiesInv /\ [Next]_vars => CopiesInv'
<1> SUFFICES ASSUME Typed, CopiesInv, [Next]_vars PROVE CopiesInv'
  OBVIOUS
<1>1. CASE Quiet
  <2>1. /\ UNCHANGED <<store, saved, repl, key>>
        /\ \A r \in Run : (Working(r)' => Working(r)) /\ (pc'[r] = "saving" => pc[r] = "saving")
    BY <1>1 DEF Quiet
  <2> QED BY <2>1 DEF CopiesInv
<1>2. ASSUME NEW r \in Run, Load(r) PROVE CopiesInv'
  <2>1. /\ UNCHANGED <<store, saved, key>>
        /\ pc'[r] = "driving" /\ repl'[r] = store[key[r]] /\ key[r] \in Key
        /\ \A q \in Run \ {r} : pc'[q] = pc[q] /\ repl'[q] = repl[q]
    BY <1>2, LoadEffect DEF Typed, TypeOK
  <2>2. Follows(repl'[r], saved'[key'[r]])
    BY <2>1 DEF CopiesInv
  <2>3. \A q \in Run \ {r} : Working(q)' = Working(q)
    BY <2>1 DEF Working
  <2> QED BY <2>1, <2>2, <2>3 DEF CopiesInv
<1>3. ASSUME NEW r \in Run, Complete(r) PROVE CopiesInv'
  <2>1. /\ UNCHANGED <<store, saved, key>>
        /\ pc[r] = "driving" /\ pc'[r] = "saving" /\ repl'[r] = Append(repl[r], r)
        /\ \A q \in Run \ {r} : pc'[q] = pc[q] /\ repl'[q] = repl[q]
    BY <1>3, CompleteEffect
  <2>2. repl[r] \in Seq(Run) /\ saved[key[r]] \in Seq(Run)
    BY DEF Typed, TypeOK
  <2>3. Follows(repl[r], saved[key[r]])
    BY <2>1 DEF CopiesInv, Working
  <2>4. Follows(repl'[r], Append(saved'[key'[r]], r))
    BY <2>1, <2>2, <2>3, FollowsBoth
  <2>5. Len(repl'[r]) > 0 /\ Last(repl'[r]) = r
    BY <2>1, <2>2, AppendProperties DEF Last
  <2>6. /\ ~Working(r)'
        /\ \A q \in Run \ {r} : Working(q)' = Working(q)
    BY <2>1 DEF Working
  <2> QED BY <2>1, <2>4, <2>5, <2>6 DEF CopiesInv
<1>4. ASSUME NEW r \in Run, Save(r) PROVE CopiesInv'
  <2> DEFINE k == key[r]
  <2>1. /\ UNCHANGED <<repl, key>> /\ pc[r] = "saving" /\ pc'[r] \in {"ok", "error"}
        /\ \A q \in Run \ {r} : pc'[q] = pc[q]
        /\ store'[k] = repl[r] /\ saved'[k] = Append(saved[k], r)
        /\ \A l \in Key \ {k} : store'[l] = store[l] /\ saved'[l] = saved[l]
    BY <1>4, SaveEffect
  <2>2. /\ \A q \in Run : key[q] \in Key /\ repl[q] \in Seq(Run)
        /\ saved[k] \in Seq(Run)
    BY DEF Typed, TypeOK
  <2>3. ~Working(r)' /\ pc'[r] # "saving" /\ \A q \in Run \ {r} : Working(q)' = Working(q)
    BY <2>1 DEF Working
  <2>4. ASSUME NEW q \in Run, Working(q)' PROVE Follows(repl'[q], saved'[key'[q]])
    <3>1. q # r /\ Follows(repl[q], saved[key[q]])
      BY <2>3, <2>4 DEF CopiesInv
    <3>2. CASE key[q] = k
      BY <2>1, <2>2, <3>1, <3>2, FollowsLonger
    <3>3. CASE key[q] # k
      BY <2>1, <2>2, <3>1, <3>3
    <3> QED BY <3>2, <3>3
  <2>5. ASSUME NEW q \in Run, pc'[q] = "saving"
        PROVE  /\ Follows(repl'[q], Append(saved'[key'[q]], q))
               /\ Len(repl'[q]) > 0 /\ Last(repl'[q]) = q
    <3>1. /\ q # r /\ Follows(repl[q], Append(saved[key[q]], q))
          /\ Len(repl[q]) > 0 /\ Last(repl[q]) = q
      BY <2>1, <2>3, <2>5 DEF CopiesInv
    <3>2. CASE key[q] = k
      BY <2>1, <2>2, <3>1, <3>2, FollowsInserted
    <3>3. CASE key[q] # k
      BY <2>1, <2>2, <3>1, <3>3
    <3> QED BY <2>1, <3>1, <3>2, <3>3
  <2>6. /\ Follows(store'[k], saved'[k])
        /\ Len(store'[k]) > 0 /\ Last(store'[k]) = r
    BY <2>1 DEF CopiesInv
  <2>7. Len(saved'[k]) > 0 /\ Last(saved'[k]) = r
    BY <2>1, <2>2, AppendProperties DEF Last
  <2>8. \A l \in Key : /\ Follows(store'[l], saved'[l])
                       /\ (Len(store'[l]) = 0) = (Len(saved'[l]) = 0)
                       /\ Len(saved'[l]) > 0 => Last(store'[l]) = Last(saved'[l])
    <3>1. TAKE l \in Key
    <3>2. CASE l = k
      BY <2>6, <2>7, <3>2
    <3>3. CASE l # k
      BY <2>1, <3>3 DEF CopiesInv
    <3> QED BY <3>2, <3>3
  <2> QED BY <2>4, <2>5, <2>8 DEF CopiesInv
<1> QED BY <1>1, <1>2, <1>3, <1>4, QuietSteps

(* StoredIsSavedHistory for any runs: whatever overlaps, what is stored of *)
(* a session was saved there, in that order, and ends with the last save   *)
(* (access-monty load and save, tool-monty execute).                       *)
THEOREM StoredWasSaved == Spec => []StoredIsSavedHistory
<1>1. CopiesInv => StoredIsSavedHistory
  <2> SUFFICES ASSUME CopiesInv, NEW k \in Key
               PROVE  /\ (Len(store[k]) = 0) = (Len(saved[k]) = 0)
                      /\ Len(saved[k]) > 0 => store[k][Len(store[k])] = saved[k][Len(saved[k])]
                      /\ Elements(store[k]) \subseteq Elements(saved[k])
                      /\ \A i, j \in 1..Len(store[k]) : i < j =>
                           \E a, b \in 1..Len(saved[k]) :
                             a < b /\ saved[k][a] = store[k][i] /\ saved[k][b] = store[k][j]
    BY DEF StoredIsSavedHistory
  <2>1. Follows(store[k], saved[k])
    BY DEF CopiesInv
  <2>2. Elements(store[k]) \subseteq Elements(saved[k])
    BY <2>1 DEF Follows, Elements
  <2> QED BY <2>1, <2>2 DEF CopiesInv, Last, Follows
<1> QED BY <1>1, TypeInit, TypedStep, CopiesInit, CopiesStep, PTL DEF Spec, Safety

(* SessionsIsolated for any runs, roots and names: a stored REPL was fed   *)
(* the code of runs of its own session only (tool-monty MontySessionKey).  *)
THEOREM OwnRunsOnly == Spec => []SessionsIsolated
<1>1. CopiesInv /\ SavesInv => SessionsIsolated
  <2> SUFFICES ASSUME CopiesInv, SavesInv, NEW k \in Key, NEW i \in 1..Len(store[k])
               PROVE  key[store[k][i]] = k
    BY DEF SessionsIsolated, Elements
  <2>1. PICK a \in 1..Len(saved[k]) : saved[k][a] = store[k][i]
    BY DEF CopiesInv, Follows
  <2> QED BY <2>1 DEF SavesInv
<1> QED BY <1>1, TypeInit, TypedStep, CopiesInit, CopiesStep, SavesInit, SavesStep, PTL
        DEF Spec, Safety

-----------------------------------------------------------------------------
(* Sessions whose runs never overlapped: the copies are exact.             *)
SerialInv ==
  /\ \A q, r \in Run : q # r /\ key[q] = key[r] /\ HoldsCopy(q) /\ HoldsCopy(r)
                       => key[r] \in overlapped
  /\ \A r \in Run : key[r] \notin overlapped =>
       /\ Working(r) => repl[r] = saved[key[r]]
       /\ pc[r] = "saving" => repl[r] = Append(saved[key[r]], r)
  /\ SerialRunsAccumulate

LEMMA SerialInit == Init => SerialInv
  BY DEF Init, SerialInv, SerialRunsAccumulate, HoldsCopy, Working

LEMMA SerialStep == Typed /\ SerialInv /\ [Next]_vars => SerialInv'
<1> SUFFICES ASSUME Typed, SerialInv, [Next]_vars PROVE SerialInv'
  OBVIOUS
<1>1. CASE Quiet
  <2>1. /\ UNCHANGED <<store, saved, repl, key, overlapped>>
        /\ \A r \in Run : /\ Working(r)' => Working(r)
                          /\ pc'[r] = "saving" => pc[r] = "saving"
                          /\ HoldsCopy(r)' => HoldsCopy(r)
    BY <1>1 DEF Quiet, Working, HoldsCopy
  <2> QED BY <2>1 DEF SerialInv, SerialRunsAccumulate
<1>2. ASSUME NEW r \in Run, Load(r) PROVE SerialInv'
  <2>1. /\ UNCHANGED <<store, saved, key>> /\ key[r] \in Key
        /\ pc'[r] = "driving" /\ repl'[r] = store[key[r]]
        /\ \A q \in Run \ {r} : pc'[q] = pc[q] /\ repl'[q] = repl[q]
        /\ overlapped \subseteq overlapped'
        /\ \A q \in Run \ {r} : key[q] = key[r] /\ HoldsCopy(q) => key[r] \in overlapped'
    BY <1>2, LoadEffect DEF Typed, TypeOK
  <2>2. \A q \in Run \ {r} : HoldsCopy(q)' = HoldsCopy(q) /\ Working(q)' = Working(q)
    BY <2>1 DEF HoldsCopy, Working
  <2>3. \A p, q \in Run : p # q /\ key[p] = key[q] /\ HoldsCopy(p)' /\ HoldsCopy(q)'
                         => key[q] \in overlapped'
    BY <2>1, <2>2 DEF SerialInv
  <2>4. SerialRunsAccumulate'
    BY <2>1 DEF SerialInv, SerialRunsAccumulate
  <2>5. ASSUME NEW q \in Run, key[q] \notin overlapped'
        PROVE  /\ Working(q)' => repl'[q] = saved[key[q]]
               /\ pc'[q] = "saving" => repl'[q] = Append(saved[key[q]], q)
    <3>1. CASE q = r
      BY <2>1, <2>5, <3>1 DEF SerialInv, SerialRunsAccumulate
    <3>2. CASE q # r
      BY <2>1, <2>2, <2>5, <3>2 DEF SerialInv
    <3> QED BY <3>1, <3>2
  <2> QED BY <2>1, <2>3, <2>4, <2>5 DEF SerialInv
<1>3. ASSUME NEW r \in Run, Complete(r) PROVE SerialInv'
  <2>1. /\ UNCHANGED <<store, saved, key, overlapped>>
        /\ pc[r] = "driving" /\ pc'[r] = "saving" /\ repl'[r] = Append(repl[r], r)
        /\ \A q \in Run \ {r} : pc'[q] = pc[q] /\ repl'[q] = repl[q]
    BY <1>3, CompleteEffect
  <2>2. /\ \A q \in Run : HoldsCopy(q)' = HoldsCopy(q)
        /\ \A q \in Run : Working(q)' => Working(q)
    BY <2>1 DEF HoldsCopy, Working
  <2>3. ASSUME NEW q \in Run, key[q] \notin overlapped
        PROVE  /\ Working(q)' => repl'[q] = saved[key[q]]
               /\ pc'[q] = "saving" => repl'[q] = Append(saved[key[q]], q)
    <3>1. CASE q = r
      BY <2>1, <2>3, <3>1 DEF SerialInv, Working
    <3>2. CASE q # r
      BY <2>1, <2>2, <2>3, <3>2 DEF SerialInv
    <3> QED BY <3>1, <3>2
  <2> QED BY <2>1, <2>2, <2>3 DEF SerialInv, SerialRunsAccumulate
<1>4. ASSUME NEW r \in Run, Save(r) PROVE SerialInv'
  <2>1. /\ UNCHANGED <<repl, key, overlapped>> /\ pc[r] = "saving" /\ pc'[r] \in {"ok", "error"}
        /\ \A q \in Run \ {r} : pc'[q] = pc[q]
        /\ store'[key[r]] = repl[r] /\ saved'[key[r]] = Append(saved[key[r]], r)
        /\ \A k \in Key \ {key[r]} : store'[k] = store[k] /\ saved'[k] = saved[k]
        /\ \A q \in Run : key[q] \in Key
    BY <1>4, SaveEffect DEF Typed, TypeOK
  <2>2. /\ HoldsCopy(r) /\ ~HoldsCopy(r)'
        /\ \A q \in Run : HoldsCopy(q)' => HoldsCopy(q)
        /\ \A q \in Run : Working(q)' \/ pc'[q] = "saving" => HoldsCopy(q)'
        /\ \A q \in Run : Working(q)' => Working(q)
    BY <2>1 DEF HoldsCopy, Working
  <2>3. ASSUME NEW q \in Run, key[q] \notin overlapped
        PROVE  /\ Working(q)' => repl'[q] = saved'[key[q]]
               /\ pc'[q] = "saving" => repl'[q] = Append(saved'[key[q]], q)
    <3>1. CASE HoldsCopy(q)'
      <4>1. q # r /\ key[q] # key[r]
        BY <2>1, <2>2, <2>3, <3>1 DEF SerialInv
      <4> QED BY <2>1, <2>2, <2>3, <4>1 DEF SerialInv
    <3> QED BY <2>2, <3>1
  <2>4. SerialRunsAccumulate'
    BY <2>1 DEF SerialInv, SerialRunsAccumulate
  <2> QED BY <2>1, <2>2, <2>3, <2>4 DEF SerialInv
<1> QED BY <1>1, <1>2, <1>3, <1>4, QuietSteps

(* SerialRunsAccumulate for any runs: the lock of the store is held for an *)
(* access only, so that nothing is lost of a session needs that no two of  *)
(* its runs ever overlapped, and it is enough (access-monty store.rs,      *)
(* tool-monty execute).                                                    *)
THEOREM SerialSessionsAreExact == Spec => []SerialRunsAccumulate
<1>1. SerialInv => SerialRunsAccumulate
  BY DEF SerialInv
<1> QED BY <1>1, TypeInit, TypedStep, SerialInit, SerialStep, PTL DEF Spec, Safety

-----------------------------------------------------------------------------
(* Nested runs.  A run loads before it calls, so its copy never has what   *)
(* the runs it called did; and what is stored is the copy of the last run  *)
(* that saved.                                                             *)
CallerInv ==
  /\ \A k \in Key : Len(saved[k]) > 0 => store[k] = repl[Last(saved[k])]
  /\ \A q, r \in Run : parent[r] = q =>
       q # r /\ ~Fresh(q) /\ r \notin Elements(repl[q])

LEMMA CallerInit == Init => CallerInv
<1> SUFFICES ASSUME Init PROVE CallerInv
  OBVIOUS
<1>1. Len(<<>>) = 0
  OBVIOUS
<1> QED BY <1>1, SessionAssumption DEF Init, CallerInv

(* A run that saved has ended; no copy in use has a run that did not save. *)
LEMMA SaversEnded ==
  ASSUME Typed, SavesInv, NEW k \in Key, NEW i \in 1..Len(saved[k])
  PROVE  /\ saved[k][i] \in Run /\ key[saved[k][i]] = k
         /\ pc[saved[k][i]] \in {"ok", "error"}
<1>1. saved[k][i] \in Run
  BY DEF Typed, TypeOK
<1>2. key[saved[k][i]] = k
  BY DEF SavesInv
<1>3. i \in SavesOf(saved[k][i])
  BY <1>2 DEF SavesOf
<1> QED BY <1>1, <1>2, <1>3 DEF SavesInv

LEMMA CallerStep == Typed /\ SavesInv /\ CopiesInv /\ CallerInv /\ [Next]_vars => CallerInv'
<1> SUFFICES ASSUME Typed, SavesInv, CopiesInv, CallerInv, [Next]_vars PROVE CallerInv'
  OBVIOUS
<1>1. ASSUME NEW k \in Key, Len(saved[k]) > 0
      PROVE  /\ Last(saved[k]) \in Run /\ key[Last(saved[k])] = k
             /\ pc[Last(saved[k])] \in {"ok", "error"}
  <2>1. Len(saved[k]) \in 1..Len(saved[k])
    BY <1>1 DEF Typed, TypeOK
  <2> QED BY <2>1, SaversEnded DEF Last
<1>2. CASE Quiet
  <2>1. UNCHANGED <<store, saved, repl>> /\ \A r \in Run : Fresh(r)' => Fresh(r)
    BY <1>2 DEF Quiet
  <2>2. ASSUME NEW q \in Run, NEW r \in Run, parent'[r] = q
        PROVE  q # r /\ ~Fresh(q)' /\ r \notin Elements(repl[q])
    <3>1. CASE parent[r] = q
      BY <2>1, <3>1 DEF CallerInv
    <3>2. CASE parent[r] # q
      <4>1. pc[r] = "idle" /\ q # r /\ Working(q) /\ Working(q)'
        BY <1>2, <2>2, <3>2 DEF Quiet
      <4>2. ~Fresh(q)'
        BY <4>1 DEF Working, Fresh
      <4>3. r \notin Elements(repl[q])
        <5> SUFFICES ASSUME NEW i \in 1..Len(repl[q]), repl[q][i] = r PROVE FALSE
          BY DEF Elements
        <5>1. PICK a \in 1..Len(saved[key[q]]) : saved[key[q]][a] = r
          BY <4>1 DEF CopiesInv, Follows
        <5>2. key[q] \in Key
          BY DEF Typed, TypeOK
        <5> QED BY <4>1, <5>1, <5>2, SaversEnded
      <4> QED BY <4>1, <4>2, <4>3
    <3> QED BY <3>1, <3>2
  <2> QED BY <2>1, <2>2 DEF CallerInv
<1>3. ASSUME NEW r \in Run, Load(r) PROVE CallerInv'
  <2>1. /\ UNCHANGED <<store, saved, parent>>
        /\ pc[r] = "loading" /\ pc'[r] = "driving"
        /\ \A q \in Run \ {r} : pc'[q] = pc[q] /\ repl'[q] = repl[q]
    BY <1>3, LoadEffect
  <2>2. \A q \in Run : Fresh(q)' => Fresh(q)
    BY <2>1 DEF Fresh
  <2>3. \A q \in Run : parent[q] # r
    BY <2>1 DEF CallerInv, Fresh
  <2>4. \A p, q \in Run : parent[q] = p => p # q /\ ~Fresh(p)' /\ q \notin Elements(repl'[p])
    BY <2>1, <2>2, <2>3 DEF CallerInv
  <2>5. \A k \in Key : Len(saved[k]) > 0 => store[k] = repl'[Last(saved[k])]
    BY <1>1, <2>1 DEF CallerInv
  <2> QED BY <2>1, <2>4, <2>5 DEF CallerInv
<1>4. ASSUME NEW r \in Run, Complete(r) PROVE CallerInv'
  <2>1. /\ UNCHANGED <<store, saved, parent>>
        /\ pc[r] = "driving" /\ pc'[r] = "saving" /\ repl'[r] = Append(repl[r], r)
        /\ \A q \in Run \ {r} : pc'[q] = pc[q] /\ repl'[q] = repl[q]
    BY <1>4, CompleteEffect
  <2>2. \A q \in Run : Fresh(q)' => Fresh(q)
    BY <2>1 DEF Fresh
  <2>3. ASSUME NEW q \in Run, q # r, q \in Elements(repl'[r]) PROVE q \in Elements(repl[r])
    <3>1. repl[r] \in Seq(Run)
      BY DEF Typed, TypeOK
    <3>2. PICK i \in 1..Len(repl'[r]) : repl'[r][i] = q
      BY <2>3 DEF Elements
    <3>3. i \in 1..Len(repl[r]) /\ repl[r][i] = q
      BY <2>1, <2>3, <3>1, <3>2, AppendProperties
    <3> QED BY <3>3 DEF Elements
  <2>4. \A p, q \in Run : parent[q] = p => p # q /\ ~Fresh(p)' /\ q \notin Elements(repl'[p])
    BY <2>1, <2>2, <2>3 DEF CallerInv
  <2>5. \A k \in Key : Len(saved[k]) > 0 => store[k] = repl'[Last(saved[k])]
    BY <1>1, <2>1 DEF CallerInv
  <2> QED BY <2>1, <2>4, <2>5 DEF CallerInv
<1>5. ASSUME NEW r \in Run, Save(r) PROVE CallerInv'
  <2>1. /\ UNCHANGED <<repl, parent>> /\ pc[r] = "saving" /\ pc'[r] \in {"ok", "error"}
        /\ \A q \in Run \ {r} : pc'[q] = pc[q]
        /\ store'[key[r]] = repl[r] /\ saved'[key[r]] = Append(saved[key[r]], r)
        /\ \A k \in Key \ {key[r]} : store'[k] = store[k] /\ saved'[k] = saved[k]
    BY <1>5, SaveEffect
  <2>2. \A q \in Run : Fresh(q)' => Fresh(q)
    BY <2>1 DEF Fresh
  <2>3. Last(saved'[key[r]]) = r
    <3>1. saved[key[r]] \in Seq(Run)
      BY DEF Typed, TypeOK
    <3> QED BY <2>1, <3>1, AppendProperties DEF Last
  <2>4. \A k \in Key : Len(saved'[k]) > 0 => store'[k] = repl[Last(saved'[k])]
    BY <2>1, <2>3 DEF CallerInv
  <2> QED BY <2>1, <2>2, <2>4 DEF CallerInv
<1> QED BY <1>2, <1>3, <1>4, <1>5, QuietSteps

(* CallerSupersedes for any runs, nested to any depth: once the caller     *)
(* saved last, nothing of a run it called on the same session is stored    *)
(* (tool-monty call_tool within execute, between its load and its save).   *)
THEOREM CallerSavesOver == Spec => []CallerSupersedes
<1>1. Typed /\ CallerInv => CallerSupersedes
  <2> SUFFICES ASSUME Typed, CallerInv, NEW q \in Run, NEW r \in Run,
                      parent[r] = q, saved[key[q]] # <<>>,
                      saved[key[q]][Len(saved[key[q]])] = q
               PROVE  r \notin Elements(store[key[q]])
    BY DEF CallerSupersedes
  <2>1. key[q] \in Key /\ saved[key[q]] \in Seq(Run)
    BY DEF Typed, TypeOK
  <2>2. Len(saved[key[q]]) > 0
    BY <2>1, EmptySeq
  <2> QED BY <2>1, <2>2 DEF CallerInv, Last
<1> QED BY <1>1, TypeInit, TypedStep, SavesInit, SavesStep, CopiesInit, CopiesStep,
           CallerInit, CallerStep, PTL DEF Spec, Safety
=============================================================================
