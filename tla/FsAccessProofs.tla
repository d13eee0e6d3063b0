--------------------------- MODULE FsAccessProofs ---------------------------
(***************************************************************************)
(* Proofs about FsAccess, for any operations, names, links, policies and   *)
(* files: who an access was granted to, and what overlapping ones leave.   *)
(***************************************************************************)
EXTENDS FsAccess, NumberLemmas, SequenceTheorems, FunctionTheorems, FiniteSetTheorems

Early == {"idle", "probing", "resolving", "asking_parent", "asking", "panicked"}

(* A task is started with both grants and no file open; a task that goes   *)
(* on has one.                                                             *)
Stage(o) ==
  /\ pc[o] \in Early => task[o] = "none"
  /\ pc[o] \in {"idle", "probing", "resolving"} => target[o] = <<>>
  /\ pc[o] \in {"asking_parent", "asking"} => target[o] # <<>> /\ UnderRoot(target[o])
  /\ task[o] # "none" => target[o] # <<>> /\ Permitted(o)
  /\ task[o] \in {"none", "queued"} => handle[o] = 0 /\ written[o] = 0 /\ result[o] = <<>>
  /\ task[o] \in {"open", "done"} => handle[o] # 0

Stages == \A o \in Op : Stage(o)

(* An inode nobody has opened since the start is not in use. *)
Spare ==
  \A n \in Inode : n > Cardinality(Initial) /\ (\A o \in Op : handle[o] # n)
                   => data[n] = <<>> /\ \A p \in Path : inode[p] # n

Typed ==
  /\ TypeOK
  /\ written \in [Op -> Nat]
  /\ Stages
  /\ Spare

-----------------------------------------------------------------------------
(* Inodes: there is a free one for every operation that has yet to open.   *)

LEMMA InodesFit ==
  /\ Cardinality(Initial) \in Nat /\ Cardinality(Op) \in Nat /\ MaxInode \in Nat
  /\ 1..Cardinality(Initial) \subseteq Inode /\ 0 \notin Inode
<1>1. Cardinality(Initial) \in Nat /\ Cardinality(Op) \in Nat
  BY FsAssumption, FS_CardinalityType
<1> QED BY <1>1, FsAssumption DEF Inode

LEMMA InitialInodes ==
  /\ InitialInode \in [Initial -> 1..Cardinality(Initial)]
  /\ \A p, q \in Initial : InitialInode[p] = InitialInode[q] => p = q
<1> DEFINE C == 1..Cardinality(Initial)
<1>1. ExistsBijection(C, Initial)
  BY FsAssumption, FS_CardinalityType
<1>2. ExistsBijection(Initial, C)
  BY <1>1, Fun_ExistsBijSymmetric
<1>3. PICK f \in Bijection(Initial, C) : TRUE
  BY <1>2, Fun_ExistsBij
<1>4. f \in [Initial -> C] /\ \A p, q \in Initial : f[p] = f[q] => p = q
  BY <1>3, Fun_BijectionProperties
<1> QED BY <1>4 DEF InitialInode

LEMMA FreeInode ==
  ASSUME Typed, NEW o \in Op, handle[o] = 0
  PROVE  \E n \in Inode : n > Cardinality(Initial) /\ \A q \in Op : handle[q] # n
<1> DEFINE N == Cardinality(Initial) + 1 .. MaxInode
           R == Op \ {o}
<1>1. IsFiniteSet(N) /\ Cardinality(N) = Cardinality(Op)
  <2>1. /\ IsFiniteSet(N)
        /\ Cardinality(N) = IF Cardinality(Initial) + 1 > MaxInode THEN 0
                            ELSE MaxInode - (Cardinality(Initial) + 1) + 1
    <3>1. Cardinality(Initial) + 1 \in Int /\ MaxInode \in Int
      BY InodesFit
    <3> QED BY <3>1, FS_Interval
  <2> HIDE DEF N
  <2> QED BY <2>1, InodesFit, FsAssumption
<1>2. IsFiniteSet(R) /\ Cardinality(R) = Cardinality(Op) - 1
  BY FsAssumption, FS_RemoveElement
<1>3. Cardinality(R) < Cardinality(N)
  <2> HIDE DEF N, R
  <2> QED BY <1>1, <1>2, InodesFit
<1>4. N \subseteq Inode /\ \A n \in N : n > Cardinality(Initial) /\ n # 0
  BY InodesFit DEF Inode
<1> SUFFICES ASSUME \A n \in N : \E q \in Op : handle[q] = n PROVE FALSE
  BY <1>4
<1> DEFINE f == [n \in N |-> CHOOSE q \in R : handle[q] = n]
<1>5. \A n \in N : \E q \in R : handle[q] = n
  BY <1>4
<1>6. \A n \in N : f[n] \in R /\ handle[f[n]] = n
  <2> HIDE DEF N, R
  <2> QED BY <1>5
<1>7. f \in [N -> R]
  BY <1>6
<1> HIDE DEF N, R, f
<1>8. PICK m \in N, n \in N : m # n /\ f[m] = f[n]
  BY <1>1, <1>2, <1>3, <1>7, FS_PigeonHole
<1> QED BY <1>6, <1>8

(* Opened: the file at the path, or one that nobody knows.                 *)
LEMMA OpenedIsFree ==
  ASSUME Typed, NEW o \in Op, handle[o] = 0, NEW p \in Path
  PROVE  LET n == Opened(p) IN
         /\ n \in Inode
         /\ inode[p] # 0 => n = inode[p]
         /\ inode[p] = 0 => /\ data[n] = <<>>
                            /\ \A q \in Path : inode[q] # n
                            /\ \A q \in Op : handle[q] # n
<1>1. CASE inode[p] # 0
  BY <1>1 DEF Opened, Typed, TypeOK
<1>2. CASE inode[p] = 0
  <2>1. PICK m \in Inode : m > Cardinality(Initial) /\ \A q \in Op : handle[q] # m
    BY FreeInode
  <2>2. \E n \in Inode : /\ data[n] = <<>>
                         /\ \A q \in Path : inode[q] # n
                         /\ \A q \in Op : handle[q] # n
    BY <2>1 DEF Typed, Spare
  <2> QED BY <1>2, <2>2 DEF Opened
<1> QED BY <1>1, <1>2

-----------------------------------------------------------------------------
(* Walks *)

(* What is plain is reached at once. *)
LEMMA PlainReached ==
  ASSUME NEW q \in Seq(STRING), Plain(q)
  PROVE  Reached(q) = q
<1> DEFINE Walk(f) == f = [n \in 0..MaxHops |-> IF n = 0 THEN q ELSE Hop[f[n - 1]]]
           walk == CHOOSE f : Walk(f)
           S == {n \in Nat : n \in 0..MaxHops => walk[n] = q}
<1>1. Hop[q] = q
  BY DEF Hop
<1>2. Walk([n \in 0..MaxHops |-> q])
  <2> DEFINE g == [n \in 0..MaxHops |-> q]
  <2>1. \A n \in 0..MaxHops : (IF n = 0 THEN q ELSE Hop[g[n - 1]]) = q
    <3>1. TAKE n \in 0..MaxHops
    <3>2. n # 0 => n - 1 \in 0..MaxHops
      BY FsAssumption
    <3> QED BY <1>1, <3>2
  <2>2. g = [n \in 0..MaxHops |-> IF n = 0 THEN q ELSE Hop[g[n - 1]]]
    <3> HIDE DEF g
    <3>1. g = [n \in 0..MaxHops |-> q]
      BY DEF g
    <3> QED BY <2>1, <3>1
  <2> QED BY <2>2
<1>3. Walk(walk)
  <2> HIDE DEF Walk
  <2> QED BY <1>2
<1> HIDE DEF walk
<1>4. 0 \in S
  BY <1>3, FsAssumption
<1>5. ASSUME NEW n \in S PROVE n + 1 \in S
  <2> SUFFICES ASSUME n + 1 \in 0..MaxHops PROVE walk[n + 1] = q
    OBVIOUS
  <2>1. n \in Nat /\ n \in 0..MaxHops /\ n + 1 # 0 /\ (n + 1) - 1 = n
    BY FsAssumption
  <2>2. walk[n + 1] = Hop[walk[(n + 1) - 1]]
    BY <1>3, <2>1
  <2> QED BY <1>1, <2>1, <2>2
<1>6. MaxHops \in S
  <2>1. S \in SUBSET Nat
    OBVIOUS
  <2> HIDE DEF S
  <2> QED BY <1>4, <1>5, <2>1, AllNumbers, FsAssumption
<1>7. walk[MaxHops] = q
  BY <1>6, FsAssumption
<1> QED BY <1>7 DEF Reached, walk

LEMMA PlainPlace ==
  ASSUME Typed, NEW p \in Path, Plain(p)
  PROVE  link[p] = <<>>
<1>1. p \in Seq(STRING) /\ p # <<>>
  BY FsAssumption
<1>2. Len(p) \in 1..Len(p) /\ SubSeq(p, 1, Len(p)) = p
  BY <1>1
<1> QED BY <1>2 DEF Plain, Special

-----------------------------------------------------------------------------
LEMMA PutAtProperties ==
  ASSUME NEW s \in Seq(Piece), NEW i \in Nat \ {0}, NEW piece \in Piece
  PROVE  /\ PutAt(s, i, piece) \in Seq(Piece)
         /\ i > Len(s) => Len(PutAt(s, i, piece)) = i
         /\ i <= Len(s) => Len(PutAt(s, i, piece)) = Len(s)
         /\ PutAt(s, i, piece)[i] = piece
         /\ \A j \in 1..Len(s) : j # i => PutAt(s, i, piece)[j] = s[j]
         /\ \A j \in 1..Len(PutAt(s, i, piece)) :
              j # i /\ j > Len(s) => PutAt(s, i, piece)[j] = Hole
<1> DEFINE n == IF i > Len(s) THEN i ELSE Len(s)
           f == [j \in 1..n |-> IF j = i THEN piece ELSE IF j <= Len(s) THEN s[j] ELSE Hole]
<1>1. n \in Nat /\ i \in 1..n /\ Len(s) \in Nat /\ Len(s) <= n
  OBVIOUS
<1>2. Hole \in Piece
  BY DEF Hole, Piece
<1>3. \A j \in 1..n : (IF j = i THEN piece ELSE IF j <= Len(s) THEN s[j] ELSE Hole) \in Piece
  BY <1>1, <1>2
<1> HIDE DEF n
<1>4. f \in Seq(Piece) /\ Len(f) = n
  BY <1>1, <1>3
<1>5. f = PutAt(s, i, piece)
  BY DEF PutAt, n
<1>6. f[i] = piece /\ \A j \in 1..Len(s) : j # i => f[j] = s[j]
  BY <1>1
<1>7. \A j \in 1..n : j # i /\ j > Len(s) => f[j] = Hole
  BY <1>1
<1>8. (i > Len(s) => n = i) /\ (i <= Len(s) => n = Len(s))
  BY DEF n
<1> HIDE DEF f
<1> QED BY <1>4, <1>5, <1>6, <1>7, <1>8

LEMMA TypeInit == Init => Typed
<1> SUFFICES ASSUME Init PROVE Typed
  OBVIOUS
<1>1. data \in [Inode -> Seq(Piece)]
  <2>1. Old \in Seq(Piece) /\ <<>> \in Seq(Piece)
    BY DEF Old, Piece
  <2> QED BY <2>1 DEF Init
<1>2. \A p \in Initial : InitialInode[p] \in Inode /\ InitialInode[p] <= Cardinality(Initial)
  BY InitialInodes, InodesFit
<1>3. inode \in [Path -> Inode \cup {0}]
  BY <1>2 DEF Init
<1>4. \A p, q \in Path : inode[p] # 0 /\ inode[p] = inode[q] => p = q
  BY InitialInodes, InodesFit DEF Init
<1>5. Spare
  <2> SUFFICES ASSUME NEW n \in Inode, n > Cardinality(Initial)
               PROVE  data[n] = <<>> /\ \A p \in Path : inode[p] # n
    BY DEF Spare
  <2>1. n \in Nat /\ n # 0 /\ ~(n <= Cardinality(Initial))
    BY InodesFit DEF Inode
  <2> QED BY <1>2, <2>1 DEF Init
<1>6. Stages
  BY DEF Init, Stages, Stage, Early
<1>7. \A o \in Op : request[o].size \in Nat
  BY FsAssumption DEF Init
<1>8. /\ gone \in BOOLEAN
      /\ request \in [Op -> Request]
      /\ pc \in [Op -> {"idle"} \cup Pending \cup Final]
      /\ existed \in [Op -> BOOLEAN]
      /\ target \in [Op -> Seq(STRING)]
      /\ task \in [Op -> {"none", "queued", "open", "done", "failed"}]
      /\ handle \in [Op -> Inode \cup {0}]
      /\ overlapped \subseteq Op /\ unfollowed \subseteq Op /\ relinked \subseteq Op
  <2>1. pc \in [Op -> {"idle"} \cup Pending \cup Final]
    BY DEF Init
  <2>2. /\ target \in [Op -> Seq(STRING)]
        /\ task \in [Op -> {"none", "queued", "open", "done", "failed"}]
    BY DEF Init
  <2>3. /\ existed \in [Op -> BOOLEAN] /\ handle \in [Op -> Inode \cup {0}]
        /\ gone \in BOOLEAN /\ request \in [Op -> Request]
    BY DEF Init
  <2>4. overlapped \subseteq Op /\ unfollowed \subseteq Op /\ relinked \subseteq Op
    BY DEF Init
  <2> QED BY <2>1, <2>2, <2>3, <2>4
<1>9. /\ \A o \in Op : written[o] \in 0..request[o].size
      /\ result \in [Op -> Seq(Piece)]
      /\ written \in [Op -> Nat]
  BY <1>7 DEF Init
<1>10. /\ link \in [Path -> Seq(STRING)]
       /\ \A p \in Path : link[p] # <<>> => p \notin Dir /\ inode[p] = 0
  <2>1. PICK made \in SUBSET {l \in Link : l[1] \notin Initial} :
          link = [p \in Path |-> IF \E l \in made : l[1] = p
                                THEN (CHOOSE l \in made : l[1] = p)[2] ELSE <<>>]
    BY DEF Init
  <2>2. \A l \in made : l[1] \in Path \ Dir /\ l[2] \in Seq(STRING) /\ l[1] \notin Initial
    BY FsAssumption
  <2>3. ASSUME NEW p \in Path
        PROVE  /\ link[p] \in Seq(STRING)
               /\ link[p] # <<>> => p \notin Dir /\ p \notin Initial
    <3>1. CASE \E l \in made : l[1] = p
      <4>1. PICK m \in made : m = CHOOSE l \in made : l[1] = p
        BY <3>1
      <4>2. m[1] = p
        BY <3>1, <4>1
      <4>3. link[p] = m[2]
        BY <2>1, <3>1, <4>1
      <4> QED BY <2>2, <4>2, <4>3
    <3>2. CASE ~\E l \in made : l[1] = p
      <4>1. link[p] = <<>>
        BY <2>1, <3>2
      <4> QED BY <4>1
    <3> QED BY <3>1, <3>2
  <2>4. link = [p \in Path |-> link[p]]
    BY <2>1
  <2>5. \A p \in Path : p \notin Initial => inode[p] = 0
    BY DEF Init
  <2> QED BY <2>3, <2>4, <2>5
<1>11. TypeOK
  BY <1>1, <1>3, <1>4, <1>8, <1>9, <1>10 DEF TypeOK
<1> QED BY <1>5, <1>6, <1>9, <1>11 DEF Typed

-----------------------------------------------------------------------------
(* What the steps do.  Every step but those of a task leaves the files and *)
(* the tasks that go on alone, and so does a task that fails.              *)
Still ==
  /\ UNCHANGED <<data, request, handle, written, result, overlapped>>
  /\ \A p \in Path : inode'[p] \in {inode[p], 0}
  /\ \A o \in Op :
       /\ \/ task'[o] = task[o]
          \/ task[o] = "none" /\ task'[o] = "queued"
          \/ task[o] \in {"queued", "open"} /\ task'[o] = "failed"
       /\ task[o] # "none" => target'[o] = target[o] /\ (Strayed(o) => Strayed(o)')

LEMMA OpenReadEffect ==
  ASSUME Typed, NEW o \in Op, OpenRead(o)
  PROVE  \E p \in Place(target[o]) : LET n == inode[p] IN
         /\ UNCHANGED <<gone, links, inode, data, caller, written, result>>
         /\ p \in Path /\ n \in Inode /\ n # 0
         /\ task[o] = "queued" /\ task'[o] = "open" /\ ~Writes(o) /\ handle'[o] = n
         /\ handle' = [handle EXCEPT ![o] = n] /\ task' = [task EXCEPT ![o] = "open"]
         /\ \A q \in Op \ {o} : task'[q] = task[q] /\ handle'[q] = handle[q]
         /\ overlapped \subseteq overlapped'
         /\ \A q \in Op : task[q] = "open" /\ handle[q] = n /\ Writes(q) => o \in overlapped'
<1>1. PICK p \in Place(target[o]) :
        /\ inode[p] # 0
        /\ handle' = [handle EXCEPT ![o] = inode[p]]
        /\ overlapped' = IF Writers(inode[p]) = {} THEN overlapped ELSE overlapped \cup {o}
  BY DEF OpenRead
<1>2. p \in Path
  BY DEF Place
<1>3. inode[p] \in Inode
  BY <1>1, <1>2 DEF Typed, TypeOK
<1>4. /\ UNCHANGED <<gone, links, inode, data, caller, written, result>>
      /\ task[o] = "queued" /\ ~Writes(o) /\ task' = [task EXCEPT ![o] = "open"]
  BY DEF OpenRead
<1>5. task'[o] = "open" /\ handle'[o] = inode[p]
  BY <1>1, <1>4 DEF Typed, TypeOK
<1>6. \A q \in Op \ {o} : task'[q] = task[q] /\ handle'[q] = handle[q]
  BY <1>1, <1>4 DEF Typed, TypeOK
<1>7. /\ overlapped \subseteq overlapped'
      /\ \A q \in Op : task[q] = "open" /\ handle[q] = inode[p] /\ Writes(q) => o \in overlapped'
  BY <1>1 DEF Writers, Busy
<1> QED BY <1>1, <1>2, <1>3, <1>4, <1>5, <1>6, <1>7

LEMMA OpenWriteEffect ==
  ASSUME Typed, NEW o \in Op, OpenWrite(o)
  PROVE  \E p \in Place(target[o]) : LET n == Opened(p) IN
         /\ UNCHANGED <<gone, links, caller, written, result>>
         /\ p \in Path /\ n \in Inode /\ link[p] = <<>>
         /\ inode[p] # 0 => n = inode[p]
         /\ inode[p] = 0 => /\ data[n] = <<>>
                            /\ \A q \in Path : inode[q] # n
                            /\ \A q \in Op : handle[q] # n
         /\ inode'[p] = n /\ \A q \in Path \ {p} : inode'[q] = inode[q]
         /\ data'[n] = <<>> /\ \A m \in Inode \ {n} : data'[m] = data[m]
         /\ inode' = [inode EXCEPT ![p] = n] /\ data' = [data EXCEPT ![n] = <<>>]
         /\ handle' = [handle EXCEPT ![o] = n] /\ task' = [task EXCEPT ![o] = "open"]
         /\ task[o] = "queued" /\ task'[o] = "open" /\ Writes(o) /\ handle'[o] = n
         /\ \A q \in Op \ {o} : task'[q] = task[q] /\ handle'[q] = handle[q]
         /\ overlapped \subseteq overlapped' /\ overlapped' \subseteq Op
         /\ \A q \in Op : task[q] = "open" /\ handle[q] = n => q \in overlapped'
         /\ \A q \in Op : task[q] = "open" /\ handle[q] = n /\ Writes(q) => o \in overlapped'
<1>1. PICK p \in Place(target[o]) : OpenAt(o, p, Opened(p), <<>>)
  BY DEF OpenWrite
<1> DEFINE n == Opened(p)
<1>2. p \in Path /\ Plain(p) /\ task[o] = "queued" /\ Writes(o)
  BY <1>1 DEF Place, OpenAt
<1>3. handle[o] = 0 /\ link[p] = <<>>
  BY <1>2, PlainPlace DEF Typed, Stages, Stage
<1>4. /\ n \in Inode
      /\ inode[p] # 0 => n = inode[p]
      /\ inode[p] = 0 => /\ data[n] = <<>>
                         /\ \A q \in Path : inode[q] # n
                         /\ \A q \in Op : handle[q] # n
  BY <1>2, <1>3, OpenedIsFree
<1>5. OpenAt(o, p, n, <<>>)
  BY <1>1
<1> HIDE DEF n
<1>6. /\ inode' = [inode EXCEPT ![p] = n] /\ data' = [data EXCEPT ![n] = <<>>]
      /\ handle' = [handle EXCEPT ![o] = n] /\ task' = [task EXCEPT ![o] = "open"]
      /\ UNCHANGED <<gone, links, caller, written, result>>
  BY <1>5 DEF OpenAt
<1>7. /\ inode'[p] = n /\ \A q \in Path \ {p} : inode'[q] = inode[q]
      /\ data'[n] = <<>> /\ \A m \in Inode \ {n} : data'[m] = data[m]
      /\ task'[o] = "open" /\ handle'[o] = n
      /\ \A q \in Op \ {o} : task'[q] = task[q] /\ handle'[q] = handle[q]
  BY <1>2, <1>4, <1>6 DEF Typed, TypeOK
<1>8. overlapped' = overlapped \cup Busy(n) \cup (IF Writers(n) = {} THEN {} ELSE {o})
  BY <1>5 DEF OpenAt
<1>9. overlapped' \subseteq Op
  BY <1>8 DEF Busy, Typed, TypeOK
<1> QED BY <1>2, <1>3, <1>4, <1>6, <1>7, <1>8, <1>9 DEF Busy, Writers, n

LEMMA WritePieceEffect ==
  ASSUME Typed, NEW o \in Op, WritePiece(o)
  PROVE  LET n == handle[o]
             i == written[o] + 1
         IN  /\ UNCHANGED <<gone, links, inode, caller, task, handle, result, overlapped>>
             /\ task[o] = "open" /\ Writes(o) /\ written[o] < request[o].size
             /\ n \in Inode /\ data[n] \in Seq(Piece) /\ i \in Nat \ {0} /\ <<o, i>> \in Piece
             /\ data'[n] = PutAt(data[n], i, <<o, i>>)
             /\ \A m \in Inode \ {n} : data'[m] = data[m]
             /\ written'[o] = i /\ \A q \in Op \ {o} : written'[q] = written[q]
<1>1. handle[o] \in Inode /\ written[o] \in Nat
  BY DEF WritePiece, Typed, Stages, Stage, TypeOK
<1> QED BY <1>1 DEF WritePiece, Typed, TypeOK, Piece

LEMMA ReadPieceEffect ==
  ASSUME Typed, NEW o \in Op, ReadPiece(o)
  PROVE  LET s == data[handle[o]]
             i == Len(result[o]) + 1
         IN  /\ UNCHANGED <<gone, links, inode, data, caller, task, handle, written, overlapped>>
             /\ task[o] = "open" /\ ~Writes(o)
             /\ handle[o] \in Inode /\ s \in Seq(Piece) /\ i \in 1..Len(s) /\ s[i] \in Piece
             /\ result[o] \in Seq(Piece) /\ result'[o] = Append(result[o], s[i])
             /\ \A q \in Op \ {o} : result'[q] = result[q]
<1>1. handle[o] \in Inode
  BY DEF ReadPiece, Typed, Stages, Stage, TypeOK
<1>2. result[o] \in Seq(Piece) /\ data[handle[o]] \in Seq(Piece)
  BY <1>1 DEF Typed, TypeOK
<1> QED BY <1>1, <1>2 DEF ReadPiece, Typed, TypeOK

LEMMA DoneEffect ==
  ASSUME Typed, NEW o \in Op, WriteDone(o) \/ ReadDone(o)
  PROVE  /\ UNCHANGED <<gone, links, inode, data, caller, handle, written, result, overlapped>>
         /\ task[o] = "open" /\ task'[o] = "done" /\ handle[o] \in Inode
         /\ \A q \in Op \ {o} : task'[q] = task[q]
         /\ Writes(o) => written[o] = request[o].size
         /\ ~Writes(o) => Len(result[o]) >= Len(data[handle[o]])
<1>1. task[o] = "open" => handle[o] \in Inode
  BY DEF Typed, Stages, Stage, TypeOK
<1> QED BY <1>1 DEF WriteDone, ReadDone, EndTask, Typed, TypeOK

LEMMA StillSteps ==
  ASSUME Typed, [Next]_vars
  PROVE  \/ Still
         \/ \E o \in Op : OpenRead(o) \/ OpenWrite(o) \/ WritePiece(o) \/ ReadPiece(o)
                         \/ WriteDone(o) \/ ReadDone(o)
<1> USE DEF Strayed, Writes
<1>1. ASSUME NEW o \in Op, Start(o) \/ Refused(o) \/ GrantParent(o) \/ Finish(o) \/ Drop(o)
      PROVE  Still
  BY <1>1 DEF Start, Refused, GrantParent, Finish, Drop, backend, links, Still
<1>2. ASSUME NEW o \in Op, Probe(o) \/ Resolve(o) PROVE Still
  <2>1. task[o] = "none"
    BY <1>2 DEF Probe, Resolve, ResolveTo, Typed, Stages, Stage, Early
  <2>2. /\ UNCHANGED <<inode, data, request, task, handle, written, result, overlapped, relinked>>
        /\ unfollowed \subseteq unfollowed'
        /\ \A q \in Op \ {o} : target'[q] = target[q] /\ existed'[q] = existed[q]
    <3>1. CASE Probe(o)
      BY <3>1 DEF Probe, backend, links, Typed, TypeOK
    <3>2. CASE Resolve(o)
      BY <3>2 DEF Resolve, ResolveTo, backend, links, Typed, TypeOK
    <3> QED BY <1>2, <3>1, <3>2
  <2> QED BY <2>1, <2>2 DEF Still
<1>3. ASSUME NEW o \in Op, GrantAction(o) PROVE Still
  <2>1. task[o] = "none"
    BY <1>3 DEF GrantAction, Typed, Stages, Stage, Early
  <2> QED BY <1>3, <2>1 DEF GrantAction, links, Still, Typed, TypeOK
<1>4. ASSUME NEW o \in Op, TaskFails(o) PROVE Still
  BY <1>4 DEF TaskFails, EndTask, caller, links, Still, Typed, TypeOK
<1>5. ASSUME NEW p \in Path, RemoveFile(p) PROVE Still
  BY <1>5 DEF RemoveFile, caller, backend, Still, Typed, TypeOK
<1>6. CASE RemoveRoot
  BY <1>6 DEF RemoveRoot, caller, backend, Still
<1>7. CASE UNCHANGED vars
  BY <1>7 DEF vars, caller, backend, links, Still
<1>8. ASSUME NEW l \in Link, MakeLink(l[1], l[2]) PROVE Still
  BY <1>8 DEF MakeLink, caller, backend, Still
<1> QED BY <1>1, <1>2, <1>3, <1>4, <1>5, <1>6, <1>7, <1>8 DEF Next, Advance, Work

-----------------------------------------------------------------------------
LEMMA SpareStep == Typed /\ [Next]_vars => Spare'
<1> SUFFICES ASSUME Typed, [Next]_vars,
                    NEW n \in Inode, n > Cardinality(Initial), \A q \in Op : handle'[q] # n
             PROVE  data'[n] = <<>> /\ \A p \in Path : inode'[p] # n
  BY DEF Spare
<1>1. n # 0
  BY InodesFit
<1>2. (\A q \in Op : handle[q] # n) => data[n] = <<>> /\ \A p \in Path : inode[p] # n
  BY DEF Typed, Spare
<1>3. CASE Still
  BY <1>1, <1>2, <1>3 DEF Still
<1>4. ASSUME NEW o \in Op, OpenRead(o) PROVE data'[n] = <<>> /\ \A p \in Path : inode'[p] # n
  <2>1. /\ UNCHANGED <<inode, data>>
        /\ \A q \in Op \ {o} : handle'[q] = handle[q]
        /\ handle[o] = 0
    BY <1>4, OpenReadEffect DEF Typed, Stages, Stage
  <2> QED BY <1>1, <1>2, <2>1
<1>5. ASSUME NEW o \in Op, OpenWrite(o) PROVE data'[n] = <<>> /\ \A p \in Path : inode'[p] # n
  <2>1. PICK r \in Path, m \in Inode :
          /\ inode'[r] = m /\ \A p \in Path \ {r} : inode'[p] = inode[p]
          /\ \A l \in Inode \ {m} : data'[l] = data[l]
          /\ handle'[o] = m /\ \A q \in Op \ {o} : handle'[q] = handle[q]
          /\ handle[o] = 0
    BY <1>5, OpenWriteEffect DEF Typed, Stages, Stage
  <2> QED BY <1>1, <1>2, <2>1
<1>6. ASSUME NEW o \in Op, WritePiece(o) PROVE data'[n] = <<>> /\ \A p \in Path : inode'[p] # n
  <2>1. /\ UNCHANGED <<inode, handle>>
        /\ \A l \in Inode \ {handle[o]} : data'[l] = data[l]
    BY <1>6, WritePieceEffect DEF caller
  <2> QED BY <1>2, <2>1
<1>7. ASSUME NEW o \in Op, ReadPiece(o) \/ WriteDone(o) \/ ReadDone(o)
      PROVE  data'[n] = <<>> /\ \A p \in Path : inode'[p] # n
  BY <1>2, <1>7, ReadPieceEffect, DoneEffect
<1> QED BY <1>3, <1>4, <1>5, <1>6, <1>7, StillSteps

(* What a name is resolved to: the place it leads to, or for a write of    *)
(* what was not there a path in its parent, which may be a link.           *)
LEMMA ResolveEffect ==
  ASSUME Typed, NEW o \in Op, Resolve(o)
  PROVE  /\ \A q \in Op \ {o} : /\ pc'[q] = pc[q] /\ target'[q] = target[q]
                                /\ q \in unfollowed' <=> q \in unfollowed
         /\ target' \in [Op -> Seq(STRING)] /\ unfollowed' \subseteq Op
         /\ pc' \in [Op -> {"idle"} \cup Pending \cup Final]
         /\ \/ /\ pc'[o] = "error" /\ UNCHANGED <<target, unfollowed>>
            \/ /\ pc'[o] = "asking_parent"
               /\ target'[o] # <<>> /\ UnderRoot(target'[o])
               /\ \/ Plain(target'[o])
                  \/ o \in unfollowed' /\ Writes(o) /\ ~existed[o]
<1> DEFINE name == request[o].name
<1>1. name \in Seq(STRING) /\ name # <<>>
  BY FsAssumption DEF Typed, TypeOK
<1>2. ASSUME NEW n, NEW p \in Existing(n)
      PROVE  p \in Path /\ p \in Seq(STRING) /\ p # <<>> /\ Plain(p)
  BY FsAssumption DEF Existing, Place
<1>3. ASSUME NEW p \in InParent(name) PROVE p \in Seq(STRING) /\ p # <<>>
  <2>1. Last(name) \in STRING
    BY <1>1 DEF Last
  <2>2. PICK r \in Existing(Front(name)) : p = Append(r, Last(name))
    BY DEF InParent
  <2>3. r \in Seq(STRING)
    BY <1>2
  <2> HIDE DEF name
  <2> QED BY <2>1, <2>2, <2>3
<1>4. ASSUME NEW p \in Resolved(o)
      PROVE  /\ p \in Seq(STRING) /\ p # <<>>
             /\ Plain(p) \/ (Writes(o) /\ ~existed[o])
  BY <1>2, <1>3 DEF Resolved
<1>5. CASE pc' = [pc EXCEPT ![o] = "error"] /\ UNCHANGED <<target, unfollowed>>
  BY <1>5 DEF Typed, TypeOK, Pending, Final
<1>6. CASE /\ pc' = [pc EXCEPT ![o] = "asking_parent"]
           /\ \E p \in Resolved(o) :
                /\ UnderRoot(p)
                /\ target' = [target EXCEPT ![o] = p]
                /\ unfollowed' = IF Plain(p) THEN unfollowed ELSE unfollowed \cup {o}
  <2>1. PICK p \in Resolved(o) :
          /\ UnderRoot(p)
          /\ target' = [target EXCEPT ![o] = p]
          /\ unfollowed' = IF Plain(p) THEN unfollowed ELSE unfollowed \cup {o}
    BY <1>6
  <2>2. target'[o] = p /\ pc'[o] = "asking_parent"
    BY <1>6, <2>1 DEF Typed, TypeOK
  <2>3. Plain(p) \/ (o \in unfollowed' /\ Writes(o) /\ ~existed[o])
    BY <1>4, <2>1
  <2>4. p \in Seq(STRING) /\ p # <<>>
    BY <1>4
  <2>5. Plain(target'[o]) <=> Plain(p)
    BY <2>2
  <2>6. /\ \A q \in Op \ {o} : /\ pc'[q] = pc[q] /\ target'[q] = target[q]
                               /\ q \in unfollowed' <=> q \in unfollowed
        /\ target' \in [Op -> Seq(STRING)] /\ unfollowed' \subseteq Op
        /\ pc' \in [Op -> {"idle"} \cup Pending \cup Final]
    BY <1>6, <2>1, <2>4 DEF Typed, TypeOK, Pending, Final
  <2> QED BY <2>1, <2>2, <2>3, <2>4, <2>5, <2>6
<1> QED BY <1>5, <1>6 DEF Resolve, ResolveTo, Goto

(* The facade *)
LEMMA FacadeTypes ==
  ASSUME Typed, NEW o \in Op,
         \/ Start(o) \/ Probe(o) \/ Resolve(o) \/ Refused(o) \/ GrantParent(o)
         \/ GrantAction(o) \/ Finish(o) \/ Drop(o)
  PROVE  TypeOK' /\ Stages' /\ written' \in [Op -> Nat]
<1> USE DEF Pending, Final, Early
<1>1. /\ UNCHANGED <<inode, link, relinked, data, request, handle, written, result,
                     overlapped, gone>>
      /\ pc' \in [Op -> {"idle"} \cup Pending \cup Final]
      /\ existed' \in [Op -> BOOLEAN]
      /\ target' \in [Op -> Seq(STRING)] /\ unfollowed' \subseteq Op
      /\ task' \in [Op -> {"none", "queued", "open", "done", "failed"}]
      /\ \A q \in Op \ {o} : pc'[q] = pc[q] /\ task'[q] = task[q] /\ target'[q] = target[q]
  <2>1. CASE Start(o) \/ Refused(o) \/ GrantParent(o) \/ Finish(o) \/ Drop(o)
    BY <2>1 DEF Start, Refused, GrantParent, Finish, Drop, Goto, backend, links, Typed, TypeOK
  <2>2. CASE Probe(o)
    BY <2>2 DEF Probe, Goto, backend, links, Typed, TypeOK
  <2>3. CASE Resolve(o)
    BY <2>3, ResolveEffect DEF Resolve, ResolveTo, backend, links, Typed, TypeOK
  <2>4. CASE GrantAction(o)
    BY <2>4 DEF GrantAction, Goto, links, Typed, TypeOK
  <2> QED BY <2>1, <2>2, <2>3, <2>4
<1>2. TypeOK' /\ written' \in [Op -> Nat]
  BY <1>1 DEF Typed, TypeOK
<1>3. \A q \in Op \ {o} : Stage(q)'
  <2>1. \A q \in Op \ {o} : Permitted(q)' = Permitted(q)
    BY <1>1 DEF Permitted, Held
  <2> QED BY <1>1, <2>1 DEF Typed, Stages, Stage
<1>4. target'[o] = target[o] => Permitted(o)' = Permitted(o)
  BY <1>1 DEF Permitted, Held
<1>5. pc[o] \in {"idle"} \cup Pending \cup Final /\ Stage(o)
  BY DEF Typed, TypeOK, Stages
<1>6. ASSUME Start(o) \/ Probe(o) PROVE Stage(o)'
  <2>1. task[o] = "none" /\ task' = task /\ target' = target
        /\ pc'[o] \in {"panicked", "probing", "resolving"} /\ target[o] = <<>>
    BY <1>5, <1>6 DEF Start, Probe, Goto, backend, Typed, TypeOK, Stage
  <2> QED BY <1>1, <1>5, <2>1 DEF Stage
<1>7. ASSUME Resolve(o) PROVE Stage(o)'
  <2>1. /\ task[o] = "none" /\ task' = task
        /\ \/ pc'[o] = "error"
           \/ pc'[o] = "asking_parent" /\ target'[o] # <<>> /\ UnderRoot(target'[o])
    BY <1>5, <1>7, ResolveEffect DEF Resolve, ResolveTo, backend, Stage
  <2> QED BY <1>1, <1>5, <2>1 DEF Stage
<1>8. ASSUME Refused(o) \/ Finish(o) \/ Drop(o) PROVE Stage(o)'
  <2>1. task' = task /\ target' = target /\ pc'[o] \in {"error", "ok", "dropped"}
    BY <1>8 DEF Refused, Finish, Drop, Goto, backend, Typed, TypeOK
  <2> QED BY <1>1, <1>4, <1>5, <2>1 DEF Stage
<1>9. ASSUME GrantParent(o) PROVE Stage(o)'
  <2>1. task' = task /\ target' = target /\ pc[o] = "asking_parent" /\ pc'[o] = "asking"
    BY <1>9 DEF GrantParent, Goto, backend, Typed, TypeOK
  <2> QED BY <1>1, <1>4, <1>5, <2>1 DEF Stage
<1>10. ASSUME GrantAction(o) PROVE Stage(o)'
  <2>1. /\ task'[o] = "queued" /\ target' = target /\ pc[o] = "asking" /\ pc'[o] = "executing"
        /\ task[o] = "none" /\ target[o] # <<>> /\ UnderRoot(target[o])
        /\ Held(o) /\ Covered(request[o].kind, target[o])
    BY <1>5, <1>10 DEF GrantAction, Goto, Typed, TypeOK, Stage
  <2>2. Permitted(o)'
    BY <1>4, <2>1 DEF Permitted
  <2> QED BY <1>1, <1>5, <2>1, <2>2 DEF Stage
<1>11. Stage(o)'
  BY <1>6, <1>7, <1>8, <1>9, <1>10
<1> QED BY <1>2, <1>3, <1>11 DEF Stages

LEMMA ExceptType ==
  ASSUME NEW S, NEW T, NEW f \in [S -> T], NEW x, NEW y \in T
  PROVE  [f EXCEPT ![x] = y] \in [S -> T]
  OBVIOUS

(* The tasks *)
LEMMA TaskTypes ==
  ASSUME Typed, NEW o \in Op,
         \/ OpenRead(o) \/ OpenWrite(o) \/ WritePiece(o) \/ ReadPiece(o)
         \/ WriteDone(o) \/ ReadDone(o) \/ TaskFails(o)
  PROVE  TypeOK' /\ Stages' /\ written' \in [Op -> Nat]
<1>1. UNCHANGED <<gone, link, relinked, request, pc, existed, target, unfollowed>>
  BY DEF OpenRead, OpenWrite, OpenAt, WritePiece, ReadPiece, WriteDone, ReadDone, TaskFails,
         caller, links
<1>2. \A q \in Op : Permitted(q)' = Permitted(q)
  BY <1>1 DEF Permitted, Held
<1>3. task[o] \in {"queued", "open"} /\ pc[o] \notin Early
  BY DEF OpenRead, OpenWrite, OpenAt, WritePiece, ReadPiece, WriteDone, ReadDone, TaskFails,
         Typed, Stages, Stage
<1>4. CASE OpenRead(o)
  <2>1. PICK n \in Inode :
          /\ UNCHANGED <<inode, data, written, result>> /\ n # 0
          /\ handle' = [handle EXCEPT ![o] = n] /\ task' = [task EXCEPT ![o] = "open"]
    BY <1>4, OpenReadEffect
  <2>2. overlapped' \subseteq Op
    BY <1>4 DEF OpenRead, Typed, TypeOK
  <2>3. TypeOK' /\ written' \in [Op -> Nat]
    BY <1>1, <2>1, <2>2 DEF Typed, TypeOK
  <2>4. Stages'
    BY <1>1, <1>2, <1>3, <2>1 DEF Typed, TypeOK, Stages, Stage
  <2> QED BY <2>3, <2>4
<1>5. CASE OpenWrite(o)
  <2>1. PICK r \in Path, n \in Inode :
          /\ UNCHANGED <<written, result>> /\ link[r] = <<>>
          /\ inode' = [inode EXCEPT ![r] = n] /\ data' = [data EXCEPT ![n] = <<>>]
          /\ handle' = [handle EXCEPT ![o] = n] /\ task' = [task EXCEPT ![o] = "open"]
          /\ inode[r] # 0 => n = inode[r]
          /\ inode[r] = 0 => \A p \in Path : inode[p] # n
          /\ overlapped' \subseteq Op
    <3>1. PICK p \in Place(target[o]) : LET n == Opened(p) IN
            /\ p \in Path /\ n \in Inode
            /\ UNCHANGED <<written, result>> /\ link[p] = <<>>
            /\ inode' = [inode EXCEPT ![p] = n] /\ data' = [data EXCEPT ![n] = <<>>]
            /\ handle' = [handle EXCEPT ![o] = n] /\ task' = [task EXCEPT ![o] = "open"]
            /\ inode[p] # 0 => n = inode[p]
            /\ inode[p] = 0 => \A q \in Path : inode[q] # n
            /\ overlapped' \subseteq Op
      BY <1>5, OpenWriteEffect
    <3> QED BY <3>1
  <2>2. n # 0
    BY InodesFit
  <2>4. \A p, q \in Path : inode'[p] # 0 /\ inode'[p] = inode'[q] => p = q
    BY <2>1, <2>2 DEF Typed, TypeOK
  <2>5. data' \in [Inode -> Seq(Piece)]
    <3>1. data \in [Inode -> Seq(Piece)] /\ <<>> \in Seq(Piece)
      BY DEF Typed, TypeOK
    <3> QED BY <2>1, <3>1, ExceptType, Zenon
  <2>6. TypeOK' /\ written' \in [Op -> Nat]
    BY <1>1, <2>1, <2>2, <2>4, <2>5 DEF Typed, TypeOK
  <2>7. Stages'
    BY <1>1, <1>2, <1>3, <2>1, <2>2 DEF Typed, TypeOK, Stages, Stage
  <2> QED BY <2>6, <2>7
<1>6. CASE WritePiece(o)
  <2> DEFINE i == written[o] + 1
             s == PutAt(data[handle[o]], i, <<o, i>>)
  <2>1. /\ UNCHANGED <<inode, task, handle, result, overlapped>>
        /\ task[o] = "open" /\ written[o] < request[o].size /\ written[o] \in Nat
        /\ data' = [data EXCEPT ![handle[o]] = s]
        /\ written' = [written EXCEPT ![o] = i]
    BY <1>6 DEF WritePiece, Typed, TypeOK
  <2>2. s \in Seq(Piece)
    BY <1>6, WritePieceEffect, PutAtProperties
  <2> HIDE DEF s
  <2>3. data' \in [Inode -> Seq(Piece)]
    <3>1. data \in [Inode -> Seq(Piece)]
      BY DEF Typed, TypeOK
    <3> QED BY <2>1, <2>2, <3>1, ExceptType, Zenon
  <2>4. request[o].size \in Nat
    BY FsAssumption DEF Typed, TypeOK
  <2>5. \A q \in Op : written'[q] \in 0..request'[q].size
    BY <1>1, <2>1, <2>4 DEF Typed, TypeOK
  <2>6. TypeOK' /\ written' \in [Op -> Nat]
    BY <1>1, <2>1, <2>3, <2>5 DEF Typed, TypeOK
  <2>7. Stages'
    BY <1>1, <1>2, <1>3, <2>1 DEF Typed, TypeOK, Stages, Stage
  <2> QED BY <2>6, <2>7
<1>7. CASE ReadPiece(o)
  <2> DEFINE s == data[handle[o]]
             r == Append(result[o], s[Len(result[o]) + 1])
  <2>1. /\ UNCHANGED <<inode, data, task, handle, written, overlapped>>
        /\ task[o] = "open" /\ result' = [result EXCEPT ![o] = r]
    BY <1>7 DEF ReadPiece
  <2>2. r \in Seq(Piece)
    BY <1>7, ReadPieceEffect
  <2> HIDE DEF r
  <2>3. TypeOK' /\ written' \in [Op -> Nat]
    BY <1>1, <2>1, <2>2 DEF Typed, TypeOK
  <2>4. Stages'
    BY <1>1, <1>2, <1>3, <2>1 DEF Typed, TypeOK, Stages, Stage
  <2> QED BY <2>3, <2>4
<1>8. CASE WriteDone(o) \/ ReadDone(o) \/ TaskFails(o)
  <2>1. /\ UNCHANGED <<inode, data, handle, written, result, overlapped>>
        /\ \/ task[o] = "open" /\ task' = [task EXCEPT ![o] = "done"]
           \/ task' = [task EXCEPT ![o] = "failed"]
    BY <1>8 DEF WriteDone, ReadDone, TaskFails, EndTask
  <2>2. TypeOK' /\ written' \in [Op -> Nat]
    BY <1>1, <2>1 DEF Typed, TypeOK
  <2>3. Stages'
    BY <1>1, <1>2, <1>3, <2>1 DEF Typed, TypeOK, Stages, Stage
  <2> QED BY <2>2, <2>3
<1> QED BY <1>4, <1>5, <1>6, <1>7, <1>8

LEMMA OutsideTypes ==
  ASSUME Typed, UNCHANGED <<data, caller, backend>>, gone' \in BOOLEAN,
         inode' \in [Path -> Inode \cup {0}],
         \A p \in Path : inode'[p] \in {inode[p], 0},
         link' \in [Path -> Seq(STRING)], relinked' \subseteq Op,
         \A p \in Path : link'[p] # <<>> => p \notin Dir /\ inode'[p] = 0
  PROVE  TypeOK' /\ Stages' /\ written' \in [Op -> Nat]
<1>1. TypeOK' /\ written' \in [Op -> Nat]
  BY DEF caller, backend, Typed, TypeOK
<1>2. \A o \in Op : Permitted(o)' = Permitted(o)
  BY DEF Permitted, Held, caller
<1>3. Stages'
  BY <1>2 DEF caller, backend, Typed, Stages, Stage
<1> QED BY <1>1, <1>3

LEMMA TypedStep == Typed /\ [Next]_vars => Typed'
<1> SUFFICES ASSUME Typed, [Next]_vars PROVE Typed'
  OBVIOUS
<1>1. ASSUME NEW p \in Path, RemoveFile(p) PROVE TypeOK' /\ Stages' /\ written' \in [Op -> Nat]
  <2>1. /\ UNCHANGED <<data, caller, backend>> /\ gone' \in BOOLEAN
        /\ inode' \in [Path -> Inode \cup {0}] /\ \A q \in Path : inode'[q] \in {inode[q], 0}
        /\ link' \in [Path -> Seq(STRING)] /\ relinked' \subseteq Op
        /\ \A q \in Path : link'[q] # <<>> => q \notin Dir /\ inode'[q] = 0
    BY <1>1 DEF links, RemoveFile, Typed, TypeOK
  <2> QED BY <2>1, OutsideTypes
<1>2. ASSUME RemoveRoot PROVE TypeOK' /\ Stages' /\ written' \in [Op -> Nat]
  <2>1. /\ UNCHANGED <<data, caller, backend>> /\ gone' \in BOOLEAN
        /\ inode' \in [Path -> Inode \cup {0}] /\ \A q \in Path : inode'[q] \in {inode[q], 0}
        /\ link' \in [Path -> Seq(STRING)] /\ relinked' \subseteq Op
        /\ \A q \in Path : link'[q] # <<>> => q \notin Dir /\ inode'[q] = 0
    <3>1. /\ inode \in [Path -> Inode \cup {0}] /\ link \in [Path -> Seq(STRING)]
          /\ \A q \in Path : link[q] # <<>> => q \notin Dir /\ inode[q] = 0
          /\ <<>> \in Seq(STRING) /\ relinked \subseteq Op
      BY DEF Typed, TypeOK
    <3>2. /\ UNCHANGED <<data, caller, backend, relinked>> /\ gone' = TRUE
          /\ inode' = [p \in Path |-> IF UnderRoot(p) THEN 0 ELSE inode[p]]
          /\ link' = [p \in Path |-> IF UnderRoot(p) THEN <<>> ELSE link[p]]
      BY <1>2 DEF RemoveRoot
    <3>3. inode' \in [Path -> Inode \cup {0}] /\ \A q \in Path : inode'[q] \in {inode[q], 0}
      BY <3>1, <3>2
    <3>4. link' \in [Path -> Seq(STRING)] /\ \A q \in Path : link'[q] \in {link[q], <<>>}
      BY <3>1, <3>2
    <3>5. \A q \in Path : link'[q] # <<>> => q \notin Dir /\ inode'[q] = 0
      BY <3>1, <3>3, <3>4
    <3> QED BY <3>1, <3>2, <3>3, <3>4, <3>5
  <2> QED BY <2>1, OutsideTypes
<1>3. ASSUME UNCHANGED vars PROVE TypeOK' /\ Stages' /\ written' \in [Op -> Nat]
  <2>1. /\ UNCHANGED <<data, caller, backend>> /\ gone' \in BOOLEAN
        /\ inode' \in [Path -> Inode \cup {0}] /\ \A q \in Path : inode'[q] \in {inode[q], 0}
        /\ link' \in [Path -> Seq(STRING)] /\ relinked' \subseteq Op
        /\ \A q \in Path : link'[q] # <<>> => q \notin Dir /\ inode'[q] = 0
    BY <1>3 DEF links, vars, Typed, TypeOK
  <2> QED BY <2>1, OutsideTypes
<1>4. ASSUME NEW o \in Op, Start(o) \/ Advance(o) \/ Drop(o) \/ Work(o)
      PROVE  TypeOK' /\ Stages' /\ written' \in [Op -> Nat]
  BY <1>4, FacadeTypes, TaskTypes DEF Advance, Work
<1>5. ASSUME NEW l \in Link, MakeLink(l[1], l[2])
      PROVE  TypeOK' /\ Stages' /\ written' \in [Op -> Nat]
  <2>1. l[1] \in Path \ Dir /\ l[2] \in Seq(STRING)
    BY FsAssumption
  <2>2. /\ UNCHANGED <<data, caller, backend>> /\ gone' \in BOOLEAN
        /\ inode' \in [Path -> Inode \cup {0}] /\ \A q \in Path : inode'[q] \in {inode[q], 0}
        /\ link' \in [Path -> Seq(STRING)] /\ relinked' \subseteq Op
        /\ \A q \in Path : link'[q] # <<>> => q \notin Dir /\ inode'[q] = 0
    BY <1>5, <2>1 DEF MakeLink, Typed, TypeOK
  <2> QED BY <2>2, OutsideTypes
<1>6. TypeOK' /\ Stages' /\ written' \in [Op -> Nat]
  BY <1>1, <1>2, <1>3, <1>4, <1>5 DEF Next
<1> QED BY <1>6, SpareStep DEF Typed

(* TypeOK for any operations and files: above all, that a file is at one   *)
(* path and that there is an inode for whoever creates one.                *)
THEOREM AccessTypes == Spec => []TypeOK
<1>1. Typed => TypeOK
  BY DEF Typed
<1> QED BY <1>1, TypeInit, TypedStep, PTL DEF Spec, Safety

-----------------------------------------------------------------------------
(* Places                                                                  *)
InPlace(s) == \A i \in DOMAIN s : s[i] # Hole => s[i][2] = i

PlaceInv ==
  /\ \A n \in Inode : InPlace(data[n])
  /\ \A o \in Op : InPlace(result[o])

LEMMA PlaceInit == Init => PlaceInv
<1>1. InPlace(<<>>) /\ InPlace(Old)
  BY DEF InPlace, Old
<1> QED BY <1>1 DEF Init, PlaceInv

LEMMA PutInPlace ==
  ASSUME NEW s \in Seq(Piece), NEW i \in Nat \ {0}, NEW piece \in Piece,
         piece[2] = i, InPlace(s)
  PROVE  InPlace(PutAt(s, i, piece))
<1> DEFINE t == PutAt(s, i, piece)
<1>1. t \in Seq(Piece)
  BY PutAtProperties
<1>2. t[i] = piece
  BY PutAtProperties
<1>3. \A j \in 1..Len(s) : j # i => t[j] = s[j]
  BY PutAtProperties
<1>4. \A j \in 1..Len(t) : j # i /\ j > Len(s) => t[j] = Hole
  BY PutAtProperties
<1> HIDE DEF t
<1>5. ASSUME NEW j \in 1..Len(t), t[j] # Hole PROVE t[j][2] = j
  <2>1. CASE j = i
    BY <1>2, <2>1
  <2>2. CASE j # i
    <3>1. j \in DOMAIN s /\ t[j] = s[j]
      BY <1>1, <1>3, <1>4, <1>5, <2>2
    <3> QED BY <1>5, <3>1 DEF InPlace
  <2> QED BY <2>1, <2>2
<1>6. InPlace(t)
  BY <1>1, <1>5 DEF InPlace
<1> QED BY <1>6 DEF t

LEMMA PlaceStep == Typed /\ PlaceInv /\ [Next]_vars => PlaceInv'
<1> SUFFICES ASSUME Typed, PlaceInv, [Next]_vars PROVE PlaceInv'
  OBVIOUS
<1>1. CASE UNCHANGED <<data, result>>
  BY <1>1 DEF PlaceInv
<1>2. ASSUME NEW o \in Op, OpenWrite(o) PROVE PlaceInv'
  <2>1. InPlace(<<>>)
    BY DEF InPlace
  <2> QED BY <1>2, <2>1, OpenWriteEffect DEF PlaceInv
<1>3. ASSUME NEW o \in Op, WritePiece(o) PROVE PlaceInv'
  <2> DEFINE n == handle[o]
             i == written[o] + 1
  <2>1. /\ n \in Inode /\ data[n] \in Seq(Piece) /\ i \in Nat \ {0}
        /\ data'[n] = PutAt(data[n], i, <<o, i>>)
        /\ \A m \in Inode \ {n} : data'[m] = data[m]
        /\ UNCHANGED result
    BY <1>3, WritePieceEffect
  <2> HIDE DEF n, i
  <2>2. InPlace(data[n])
    BY <2>1 DEF PlaceInv
  <2>3. <<o, i>> \in Piece /\ <<o, i>>[2] = i
    BY <2>1 DEF Piece
  <2>4. InPlace(PutAt(data[n], i, <<o, i>>))
    BY <2>1, <2>2, <2>3, PutInPlace
  <2> QED BY <2>1, <2>4 DEF PlaceInv
<1>4. ASSUME NEW o \in Op, ReadPiece(o) PROVE PlaceInv'
  <2> DEFINE s == data[handle[o]]
             r == result[o]
             i == Len(r) + 1
  <2>1. /\ handle[o] \in Inode /\ s \in Seq(Piece) /\ i \in 1..Len(s)
        /\ r \in Seq(Piece) /\ s[i] \in Piece /\ result'[o] = Append(r, s[i])
        /\ UNCHANGED data /\ \A q \in Op \ {o} : result'[q] = result[q]
    BY <1>4, ReadPieceEffect
  <2>2. InPlace(s) /\ InPlace(r)
    BY <2>1 DEF PlaceInv
  <2> HIDE DEF s, r
  <2>3. InPlace(Append(r, s[i]))
    BY <2>1, <2>2 DEF InPlace
  <2> QED BY <2>1, <2>3 DEF PlaceInv
<1>5. \/ UNCHANGED <<data, result>>
      \/ \E o \in Op : OpenWrite(o) \/ WritePiece(o) \/ ReadPiece(o)
  BY StillSteps, OpenReadEffect, DoneEffect DEF Still
<1> QED BY <1>1, <1>2, <1>3, <1>4, <1>5

(* PiecesKeepTheirPlace for any operations: a task writes at the place it  *)
(* has reached itself, wherever the file ends by then (access-fs           *)
(* StdFsBackend, tokio::fs).                                               *)
THEOREM NothingMoves == Spec => []PiecesKeepTheirPlace
<1>1. PlaceInv => PiecesKeepTheirPlace
  BY DEF PlaceInv, InPlace, PiecesKeepTheirPlace
<1> QED BY <1>1, TypeInit, TypedStep, PlaceInit, PlaceStep, PTL DEF Spec, Safety

-----------------------------------------------------------------------------
(* Grants                                                                  *)
LEMMA AuthorsEmpty == Authors(<<>>) = {}
  BY DEF Authors

LEMMA AuthorsAt ==
  ASSUME NEW s \in Seq(Piece), NEW i \in 1..Len(s), s[i][1] # NoOp
  PROVE  s[i][1] \in Authors(s)
  BY DEF Authors

LEMMA AuthorsPut ==
  ASSUME NEW s \in Seq(Piece), NEW i \in Nat \ {0}, NEW o \in Op,
         NEW w \in Authors(PutAt(s, i, <<o, i>>))
  PROVE  w = o \/ w \in Authors(s)
<1> DEFINE e == <<o, i>>
           t == PutAt(s, i, e)
<1>1. e \in Piece /\ e[1] = o
  BY DEF Piece
<1>2. w \in Authors(t) /\ w # NoOp
  BY DEF Authors
<1> HIDE DEF e
<1>3. /\ t \in Seq(Piece) /\ t[i] = e
      /\ \A j \in 1..Len(s) : j # i => t[j] = s[j]
      /\ \A j \in 1..Len(t) : j # i /\ j > Len(s) => t[j] = Hole
  <2>1. t \in Seq(Piece) /\ t[i] = e
    BY <1>1, PutAtProperties
  <2>2. \A j \in 1..Len(s) : j # i => t[j] = s[j]
    BY DEF PutAt
  <2>3. \A j \in 1..Len(t) : j # i /\ j > Len(s) => t[j] = Hole
    BY <1>1, PutAtProperties
  <2> HIDE DEF t
  <2> QED BY <2>1, <2>2, <2>3
<1> HIDE DEF t
<1>4. PICK j \in 1..Len(t) : t[j][1] = w
  BY <1>2, <1>3 DEF Authors
<1>5. CASE j = i
  BY <1>1, <1>3, <1>4, <1>5
<1>6. CASE j # i
  <2>1. j \in 1..Len(s) /\ t[j] = s[j]
    BY <1>2, <1>3, <1>4, <1>6 DEF Hole
  <2> QED BY <1>2, <1>4, <2>1, AuthorsAt
<1> QED BY <1>5, <1>6

LEMMA AuthorsAppend ==
  ASSUME NEW s \in Seq(Piece), NEW e \in Piece, NEW w \in Authors(Append(s, e))
  PROVE  (w = e[1] /\ w # NoOp) \/ w \in Authors(s)
  BY DEF Authors

(* The path of an operation leads to itself, or the operation is known to  *)
(* have strayed.                                                           *)
Straight == \A o \in Op : target[o] # <<>> => Plain(target[o]) \/ Strayed(o)

LEMMA StraightInit == Init => Straight
  BY DEF Init, Straight

LEMMA StraightStep == Typed /\ Straight /\ [Next]_vars => Straight'
<1> SUFFICES ASSUME Typed, Straight, [Next]_vars PROVE Straight'
  OBVIOUS
<1>1. CASE /\ UNCHANGED <<request, existed, target, unfollowed, relinked>>
           /\ \A p \in Path : link'[p] \in {link[p], <<>>}
  <2> SUFFICES ASSUME NEW o \in Op, target[o] # <<>>
               PROVE  Plain(target[o])' \/ Strayed(o)'
    BY <1>1 DEF Straight
  <2>1. Strayed(o) => Strayed(o)'
    BY <1>1 DEF Strayed, Writes
  <2>2. Plain(target[o]) => Plain(target[o])'
    BY <1>1 DEF Plain, Special
  <2> QED BY <2>1, <2>2 DEF Straight
<1>2. ASSUME NEW o \in Op, Start(o) \/ Refused(o) \/ GrantParent(o) \/ GrantAction(o)
                          \/ Finish(o) \/ Drop(o)
      PROVE  Straight'
  BY <1>1, <1>2 DEF Start, Refused, GrantParent, GrantAction, Finish, Drop, links
<1>3. ASSUME NEW o \in Op, Work(o) PROVE Straight'
  <2>1. UNCHANGED <<links, caller>>
    BY <1>3 DEF Work, TaskFails, OpenRead, ReadPiece, ReadDone, OpenWrite, OpenAt, WritePiece,
                WriteDone
  <2> QED BY <1>1, <2>1 DEF links, caller
<1>4. ASSUME NEW o \in Op, Probe(o) PROVE Straight'
  <2>1. /\ target[o] = <<>> /\ UNCHANGED <<request, target, unfollowed, link, relinked>>
        /\ \A q \in Op \ {o} : existed'[q] = existed[q]
    BY <1>4 DEF Probe, links, Typed, TypeOK, Stages, Stage
  <2> SUFFICES ASSUME NEW q \in Op, target[q] # <<>>
               PROVE  Plain(target[q])' \/ Strayed(q)'
    BY <2>1 DEF Straight
  <2>2. Strayed(q) => Strayed(q)'
    BY <2>1 DEF Strayed, Writes
  <2>3. Plain(target[q]) => Plain(target[q])'
    BY <2>1 DEF Plain, Special
  <2> QED BY <2>2, <2>3 DEF Straight
<1>5. ASSUME NEW o \in Op, Resolve(o) PROVE Straight'
  <2>1. UNCHANGED <<request, existed, link, relinked>>
    BY <1>5 DEF Resolve, ResolveTo, links
  <2>2. ASSUME NEW q \in Op, target'[q] # <<>>, target'[q] = target[q], q \in unfollowed => q \in unfollowed'
        PROVE  Plain(target[q])' \/ Strayed(q)'
    <3>1. Strayed(q) => Strayed(q)'
      BY <2>1, <2>2 DEF Strayed, Writes
    <3>2. Plain(target[q]) => Plain(target[q])'
      BY <2>1, <2>2 DEF Plain, Special
    <3> QED BY <2>2, <3>1, <3>2 DEF Straight
  <2>3. \A q \in Op \ {o} : target'[q] = target[q] /\ (q \in unfollowed => q \in unfollowed')
    BY <1>5, ResolveEffect
  <2>4. \/ UNCHANGED <<target, unfollowed>>
        \/ Plain(target'[o])
        \/ o \in unfollowed' /\ Writes(o) /\ ~existed[o]
    BY <1>5, ResolveEffect
  <2>5. Plain(target'[o]) => Plain(target[o])'
    BY <2>1 DEF Plain, Special
  <2>6. o \in unfollowed' /\ Writes(o) /\ ~existed[o] => Strayed(o)'
    BY <2>1 DEF Strayed, Writes
  <2>7. target'[o] # <<>> => Plain(target[o])' \/ Strayed(o)'
    BY <2>2, <2>4, <2>5, <2>6
  <2> QED BY <2>2, <2>3, <2>7 DEF Straight
<1>6. ASSUME NEW p \in Path, RemoveFile(p) PROVE Straight'
  <2>1. \A q \in Path : link'[q] \in {link[q], <<>>}
    BY <1>6 DEF RemoveFile, Typed, TypeOK
  <2> QED BY <1>1, <1>6, <2>1 DEF RemoveFile, caller
<1>7. CASE RemoveRoot
  <2>1. \A q \in Path : link'[q] \in {link[q], <<>>}
    BY <1>7 DEF RemoveRoot
  <2> QED BY <1>1, <1>7, <2>1 DEF RemoveRoot, caller
<1>8. ASSUME NEW l \in Link, MakeLink(l[1], l[2]) PROVE Straight'
  <2> DEFINE p == l[1]
  <2>1. p \in Path /\ p \in Seq(STRING) /\ p # <<>>
    BY FsAssumption
  <2>2. /\ UNCHANGED <<request, existed, target, unfollowed>>
        /\ \A q \in Path \ {p} : link'[q] = link[q]
        /\ relinked' = relinked \cup {o \in Op : IsPrefix(p, target[o])}
    BY <1>8, <2>1 DEF MakeLink, caller, Typed, TypeOK
  <2> HIDE DEF p
  <2> SUFFICES ASSUME NEW o \in Op, target[o] # <<>>
               PROVE  Plain(target[o])' \/ Strayed(o)'
    BY <2>2 DEF Straight
  <2>3. Strayed(o) => Strayed(o)'
    BY <2>2 DEF Strayed, Writes
  <2>4. CASE IsPrefix(p, target[o])
    BY <2>2, <2>4 DEF Strayed
  <2>5. CASE ~IsPrefix(p, target[o])
    <3>1. target[o] \in Seq(STRING)
      BY DEF Typed, TypeOK
    <3>2. \A i \in 1..Len(target[o]) : SubSeq(target[o], 1, i) # p
      <4> SUFFICES ASSUME NEW i \in 1..Len(target[o]), SubSeq(target[o], 1, i) = p
                   PROVE  IsPrefix(p, target[o])
        BY <2>5
      <4>1. Len(p) = i /\ Len(p) <= Len(target[o])
        BY <3>1
      <4>2. SubSeq(p, 1, Len(p)) = p
        BY <2>1
      <4> QED BY <4>1, <4>2 DEF IsPrefix
    <3>3. Plain(target[o]) => Plain(target[o])'
      BY <2>2, <3>2 DEF Plain, Special
    <3> QED BY <2>3, <3>3 DEF Straight
  <2> QED BY <2>4, <2>5
<1>9. CASE UNCHANGED vars
  BY <1>1, <1>9 DEF vars, links, caller
<1> QED BY <1>2, <1>3, <1>4, <1>5, <1>6, <1>7, <1>8, <1>9 DEF Next, Advance

LEMMA StraightPlace ==
  ASSUME Typed, Straight, NEW o \in Op, task[o] # "none", NEW p \in Place(target[o])
  PROVE  target[o] = p \/ Strayed(o)
<1>1. target[o] \in Seq(STRING) /\ target[o] # <<>>
  BY DEF Typed, TypeOK, Stages, Stage
<1>2. Plain(target[o]) => Reached(target[o]) = target[o]
  BY <1>1, PlainReached
<1> QED BY <1>1, <1>2 DEF Straight, Place

(* Who has a file open was granted the path it is at, if it is still at    *)
(* one, or has strayed; what is in a file, or was read of it, is of those  *)
(* who opened it.                                                          *)
GrantInv ==
  /\ \A o \in Op, p \in Path :
       inode[p] # 0 /\ handle[o] = inode[p] => target[o] = p \/ Strayed(o)
  /\ \A o, q \in Op :
       handle[o] # 0 /\ handle[o] = handle[q] => target[o] = target[q] \/ Strayed(o) \/ Strayed(q)
  /\ \A n \in Inode : \A w \in Authors(data[n]) : w \in Op /\ handle[w] = n /\ Writes(w)
  /\ \A o \in Op : result[o] # <<>> => handle[o] # 0
  /\ \A o \in Op : \A w \in Authors(result[o]) : w \in Op /\ handle[w] = handle[o] /\ Writes(w)

LEMMA GrantInit == Init => GrantInv
<1>1. Authors(Old) = {}
  BY DEF Authors, Old
<1> QED BY <1>1, AuthorsEmpty, InodesFit DEF Init, GrantInv

LEMMA GrantStep == Typed /\ Straight /\ GrantInv /\ [Next]_vars => GrantInv'
<1> SUFFICES ASSUME Typed, Straight, GrantInv, [Next]_vars PROVE GrantInv'
  OBVIOUS
<1>1. \A n \in Inode : n # 0
  BY InodesFit
<1>2. CASE Still
  <2>1. /\ UNCHANGED <<data, request, handle, result>>
        /\ \A p \in Path : inode'[p] \in {inode[p], 0}
        /\ \A o \in Op : handle[o] # 0 => target'[o] = target[o] /\ (Strayed(o) => Strayed(o)')
    BY <1>2 DEF Still, Typed, Stages, Stage
  <2>2. \A o \in Op : Writes(o)' = Writes(o)
    BY <2>1 DEF Writes
  <2> QED BY <2>1, <2>2 DEF GrantInv
<1>3. ASSUME NEW o \in Op, OpenRead(o) PROVE GrantInv'
  <2>0. PICK s \in Place(target[o]) :
          /\ UNCHANGED <<links, inode, data, caller, result>> /\ s \in Path /\ inode[s] \in Inode
          /\ task[o] = "queued"
          /\ handle'[o] = inode[s] /\ \A q \in Op \ {o} : handle'[q] = handle[q]
    BY <1>3, OpenReadEffect
  <2> DEFINE n == inode[s]
  <2>1. /\ UNCHANGED <<inode, data, request, target, result>> /\ n \in Inode
        /\ handle'[o] = n /\ \A q \in Op \ {o} : handle'[q] = handle[q]
        /\ target[o] = s \/ Strayed(o)
        /\ \A q \in Op : Strayed(q)' = Strayed(q)
    BY <2>0, StraightPlace DEF caller, links, Strayed, Writes
  <2>2. handle[o] = 0 /\ result[o] = <<>> /\ \A q \in Op : Writes(q)' = Writes(q)
    BY <1>3, <2>1 DEF OpenRead, Typed, Stages, Stage, Writes
  <2>3. \A q \in Op, p \in Path : inode[p] # 0 /\ handle'[q] = inode[p]
           => target[q] = p \/ Strayed(q)
    BY <1>1, <2>0, <2>1 DEF GrantInv, Typed, TypeOK
  <2>4. \A p, q \in Op : handle'[p] # 0 /\ handle'[p] = handle'[q]
           => target[p] = target[q] \/ Strayed(p) \/ Strayed(q)
    BY <1>1, <2>0, <2>1 DEF GrantInv
  <2>5. \A m \in Inode : \A w \in Authors(data[m]) : w \in Op /\ handle'[w] = m /\ Writes(w)
    BY <1>1, <2>1, <2>2 DEF GrantInv
  <2>6. \A q \in Op : \A w \in Authors(result[q]) : w \in Op /\ handle'[w] = handle'[q] /\ Writes(w)
    BY <1>1, <2>1, <2>2, AuthorsEmpty DEF GrantInv
  <2>7. \A q \in Op : result[q] # <<>> => handle'[q] # 0
    BY <2>1, <2>2 DEF GrantInv
  <2> QED BY <2>1, <2>2, <2>3, <2>4, <2>5, <2>6, <2>7 DEF GrantInv
<1>4. ASSUME NEW o \in Op, OpenWrite(o) PROVE GrantInv'
  <2>0. PICK s \in Place(target[o]), n \in Inode :
          /\ UNCHANGED <<links, caller, result>> /\ s \in Path /\ task[o] = "queued"
          /\ inode[s] # 0 => n = inode[s]
          /\ inode[s] = 0 => /\ \A p \in Path : inode[p] # n
                             /\ \A q \in Op : handle[q] # n
          /\ inode'[s] = n /\ \A p \in Path \ {s} : inode'[p] = inode[p]
          /\ data'[n] = <<>> /\ \A m \in Inode \ {n} : data'[m] = data[m]
          /\ handle'[o] = n /\ \A q \in Op \ {o} : handle'[q] = handle[q]
    BY <1>4, OpenWriteEffect
  <2>1. /\ UNCHANGED <<request, target, result>>
        /\ target[o] = s \/ Strayed(o)
        /\ \A q \in Op : Strayed(q)' = Strayed(q)
    BY <2>0, StraightPlace DEF caller, links, Strayed, Writes
  <2>2. handle[o] = 0 /\ result[o] = <<>> /\ \A q \in Op : Writes(q)' = Writes(q)
    BY <1>4, <2>1 DEF OpenWrite, OpenAt, Typed, Stages, Stage, Writes
  <2>3. \A q \in Op : handle[q] = n => target[q] = s \/ Strayed(q)
    BY <2>0 DEF GrantInv
  <2>4. \A p \in Path : inode[p] = n => p = s
    BY <1>1, <2>0 DEF Typed, TypeOK
  <2>5. \A q \in Op, p \in Path : inode'[p] # 0 /\ handle'[q] = inode'[p]
           => target[q] = p \/ Strayed(q)
    BY <2>0, <2>1, <2>3, <2>4 DEF GrantInv
  <2>6. \A p, q \in Op : handle'[p] # 0 /\ handle'[p] = handle'[q]
           => target[p] = target[q] \/ Strayed(p) \/ Strayed(q)
    BY <2>0, <2>1, <2>3 DEF GrantInv
  <2>7. \A m \in Inode : \A w \in Authors(data'[m]) : w \in Op /\ handle'[w] = m /\ Writes(w)
    <3>1. ASSUME NEW m \in Inode, NEW w \in Authors(data'[m])
          PROVE  w \in Op /\ handle'[w] = m /\ Writes(w)
      <4>1. m # n /\ data'[m] = data[m]
        BY <2>0, AuthorsEmpty
      <4>2. w \in Op /\ handle[w] = m /\ Writes(w)
        BY <4>1 DEF GrantInv
      <4> QED BY <1>1, <2>0, <2>2, <4>2
    <3> QED BY <3>1, Zenon
  <2>8. \A q \in Op : \A w \in Authors(result[q]) : w \in Op /\ handle'[w] = handle'[q] /\ Writes(w)
    <3> SUFFICES ASSUME NEW q \in Op, NEW w \in Authors(result[q])
                 PROVE  w \in Op /\ handle'[w] = handle'[q] /\ Writes(w)
      OBVIOUS
    <3>1. q # o /\ result[q] # <<>>
      BY <2>2, AuthorsEmpty
    <3>2. w \in Op /\ handle[w] = handle[q] /\ Writes(w) /\ handle[q] # 0
      BY <3>1 DEF GrantInv
    <3> QED BY <2>0, <2>2, <3>1, <3>2
  <2>9. \A q \in Op : result[q] # <<>> => handle'[q] # 0
    BY <2>0, <2>1, <2>2 DEF GrantInv
  <2> QED BY <2>1, <2>2, <2>5, <2>6, <2>7, <2>8, <2>9 DEF GrantInv
<1>5. ASSUME NEW o \in Op, WritePiece(o) PROVE GrantInv'
  <2> DEFINE n == handle[o]
             i == written[o] + 1
  <2>1. /\ UNCHANGED <<inode, request, target, existed, unfollowed, relinked, handle, result>>
        /\ Writes(o)
        /\ n \in Inode /\ data[n] \in Seq(Piece) /\ i \in Nat \ {0}
        /\ data'[n] = PutAt(data[n], i, <<o, i>>)
        /\ \A m \in Inode \ {n} : data'[m] = data[m]
    BY <1>5, WritePieceEffect DEF caller, links
  <2>2. \A q \in Op : Writes(q)' = Writes(q) /\ Strayed(q)' = Strayed(q)
    BY <2>1 DEF Writes, Strayed
  <2>3. \A w \in Authors(data'[n]) : w = o \/ w \in Authors(data[n])
    BY <2>1, AuthorsPut
  <2>4. \A m \in Inode : \A w \in Authors(data'[m]) : w \in Op /\ handle[w] = m /\ Writes(w)
    <3>1. ASSUME NEW m \in Inode, NEW w \in Authors(data'[m])
          PROVE  w \in Op /\ handle[w] = m /\ Writes(w)
      <4>1. CASE m = n
        BY <2>1, <2>3, <4>1 DEF GrantInv
      <4>2. CASE m # n
        BY <2>1, <4>2 DEF GrantInv
      <4> QED BY <4>1, <4>2
    <3> QED BY <3>1
  <2> QED BY <2>1, <2>2, <2>4 DEF GrantInv
<1>6. ASSUME NEW o \in Op, ReadPiece(o) PROVE GrantInv'
  <2> DEFINE s == data[handle[o]]
             i == Len(result[o]) + 1
  <2>1. /\ UNCHANGED <<inode, data, request, target, existed, unfollowed, relinked, handle>>
        /\ handle[o] \in Inode /\ s \in Seq(Piece) /\ i \in 1..Len(s) /\ s[i] \in Piece
        /\ result[o] \in Seq(Piece) /\ result'[o] = Append(result[o], s[i])
        /\ \A q \in Op \ {o} : result'[q] = result[q]
    BY <1>6, ReadPieceEffect DEF caller, links
  <2>2. \A q \in Op : Writes(q)' = Writes(q) /\ Strayed(q)' = Strayed(q)
    BY <2>1 DEF Writes, Strayed
  <2>3. \A w \in Authors(result'[o]) : w \in Authors(s) \/ w \in Authors(result[o])
    BY <2>1, AuthorsAppend, AuthorsAt
  <2>4. \A w \in Authors(result'[o]) : w \in Op /\ handle[w] = handle[o] /\ Writes(w)
    BY <2>1, <2>3 DEF GrantInv
  <2> QED BY <1>1, <2>1, <2>2, <2>4 DEF GrantInv
<1>7. ASSUME NEW o \in Op, WriteDone(o) \/ ReadDone(o) PROVE GrantInv'
  <2>1. UNCHANGED <<inode, data, request, target, existed, unfollowed, relinked, handle, result>>
    BY <1>7, DoneEffect DEF caller, links
  <2> QED BY <2>1 DEF GrantInv, Writes, Strayed
<1> QED BY <1>2, <1>3, <1>4, <1>5, <1>6, <1>7, StillSteps

(* AccessAsGranted for any operations, names, links and policies: both     *)
(* grants are for the path that was resolved, and the access opens what it *)
(* leads to later.  Whatever others do in between, a file is opened by,    *)
(* written by and read from those who were granted its path, or by those   *)
(* whose path was a link that was not followed, or was made one since      *)
(* (access-fs FsAccess::read_file and write_file, action.rs).              *)
THEOREM NoAccessWithoutGrant == Spec => []AccessAsGranted
<1>1. Typed /\ GrantInv => AccessAsGranted
  <2> SUFFICES ASSUME Typed, GrantInv PROVE AccessAsGranted
    OBVIOUS
  <2>1. ASSUME NEW w \in Op, handle[w] # 0 PROVE Permitted(w)
    BY <2>1 DEF Typed, Stages, Stage
  <2>2. ASSUME NEW p \in Path, inode[p] # 0, NEW w \in Authors(data[inode[p]])
        PROVE  Writes(w) /\ Permitted(w) /\ (target[w] = p \/ Strayed(w))
    <3>1. inode[p] \in Inode
      BY <2>2 DEF Typed, TypeOK
    <3>2. w \in Op /\ handle[w] = inode[p] /\ Writes(w)
      BY <2>2, <3>1 DEF GrantInv
    <3> QED BY <2>1, <2>2, <3>2 DEF GrantInv
  <2>3. ASSUME NEW p \in Path, inode[p] # 0, NEW o \in Op, handle[o] = inode[p]
        PROVE  Permitted(o) /\ (target[o] = p \/ Strayed(o))
    BY <2>1, <2>3 DEF GrantInv
  <2>4. ASSUME NEW o \in Op, result[o] # <<>>
        PROVE  /\ Permitted(o)
               /\ \A w \in Authors(result[o]) :
                    Permitted(w) /\ (target[w] = target[o] \/ Strayed(w) \/ Strayed(o))
    <3>1. handle[o] # 0
      BY <2>4 DEF GrantInv
    <3> QED BY <2>1, <3>1 DEF GrantInv
  <2> QED BY <2>2, <2>3, <2>4 DEF AccessAsGranted
<1> QED BY <1>1, TypeInit, TypedStep, StraightInit, StraightStep, GrantInit, GrantStep, PTL
        DEF Spec, Safety

-----------------------------------------------------------------------------
(* Overlaps.  Whoever has a file open with a writer is known to overlap.   *)
Overlapping ==
  \A o, q \in Op :
    /\ o # q /\ task[o] = "open" /\ task[q] = "open"
    /\ handle[o] = handle[q] /\ Writes(q)
    => o \in overlapped

(* A writer that is alone so far has put its first pieces there, and nobody *)
(* else's are left.                                                        *)
OwnPieces ==
  \A o \in Op : task[o] = "open" /\ Writes(o) /\ o \notin overlapped =>
    /\ Len(data[handle[o]]) = written[o]
    /\ \A i \in 1..written[o] : data[handle[o]][i] = <<o, i>>

(* A completed write that was alone is over when another one has begun.    *)
Superseded ==
  \A o, w \in Op :
    /\ task[o] = "open" /\ Writes(o)
    /\ task[w] = "done" /\ w \notin overlapped
    => w \notin Authors(data[handle[o]])

(* What was there at first is there as it was, or a write has begun.       *)
OldReplaced ==
  /\ \A o \in Op : task[o] = "open" /\ Writes(o) => Old[1] \notin ToSet(data[handle[o]])
  /\ \A n \in Inode : Old[1] \in ToSet(data[n]) => data[n] = Old

(* A reader that is alone so far has read the first pieces of what is there. *)
ReadSoFar ==
  \A o \in Op : task[o] = "open" /\ ~Writes(o) /\ o \notin overlapped =>
    /\ Len(result[o]) <= Len(data[handle[o]])
    /\ \A i \in 1..Len(result[o]) : result[o][i] = data[handle[o]][i]

(* Whoever wrote what was read alone is done with it. *)
ReadWhole ==
  \A o \in Op : task[o] = "done" /\ ~Writes(o) /\ o \notin overlapped =>
    /\ \A w \in Authors(result[o]) : task[w] \in {"done", "failed"} /\ Whole(w, result[o])
    /\ Old[1] \in ToSet(result[o]) => result[o] = Old

ContentInv ==
  Overlapping /\ OwnPieces /\ WritesIntact /\ Superseded /\ OldReplaced /\ ReadSoFar /\ ReadWhole

LEMMA ToSetEmpty == ToSet(<<>>) = {}
  BY DEF ToSet

LEMMA ContentInit == Init => ContentInv
<1>1. Authors(Old) = {}
  BY DEF Authors, Old
<1>2. ASSUME Init PROVE /\ \A o \in Op : task[o] = "none"
                        /\ \A n \in Inode : data[n] = Old \/ data[n] = <<>>
  BY <1>2 DEF Init
<1> QED BY <1>1, <1>2, AuthorsEmpty, ToSetEmpty
        DEF ContentInv, Overlapping, OwnPieces, WritesIntact, Whole, Superseded, OldReplaced,
            ReadSoFar, ReadWhole

LEMMA ContentStill == Typed /\ GrantInv /\ ContentInv /\ Still => ContentInv'
<1> SUFFICES ASSUME Typed, GrantInv, ContentInv, Still PROVE ContentInv'
  OBVIOUS
<1>1. /\ UNCHANGED <<data, request, handle, written, result, overlapped>>
      /\ \A o \in Op : /\ task'[o] = "open" => task[o] = "open"
                       /\ task'[o] = "done" <=> task[o] = "done"
                       /\ task[o] = "failed" => task'[o] = "failed"
  BY DEF Still
<1>2. \A o \in Op : Writes(o)' = Writes(o) /\ Content(o)' = Content(o)
  BY <1>1 DEF Writes, Content
<1>3. \A w \in Op, n \in Inode : Whole(w, data[n])' = Whole(w, data[n])
  BY <1>1, <1>2 DEF Whole
<1>4. \A w, o \in Op : Whole(w, result[o])' = Whole(w, result[o])
  BY <1>1, <1>2 DEF Whole
<1>5. Overlapping' /\ OwnPieces' /\ WritesIntact' /\ Superseded'
  BY <1>1, <1>2, <1>3 DEF ContentInv, Overlapping, OwnPieces, WritesIntact, Superseded
<1>6. OldReplaced' /\ ReadSoFar'
  BY <1>1, <1>2 DEF ContentInv, OldReplaced, ReadSoFar
<1>7. ReadWhole'
  <2> SUFFICES ASSUME NEW o \in Op, task[o] = "done", ~Writes(o), o \notin overlapped
               PROVE  /\ \A w \in Authors(result[o]) :
                           task'[w] \in {"done", "failed"} /\ Whole(w, result[o])'
                      /\ Old[1] \in ToSet(result[o]) => result[o] = Old
    BY <1>1, <1>2 DEF ReadWhole
  <2>1. ASSUME NEW w \in Authors(result[o])
        PROVE  task'[w] \in {"done", "failed"} /\ Whole(w, result[o])'
    <3>1. w \in Op
      BY DEF GrantInv
    <3>2. task[w] \in {"done", "failed"} /\ Whole(w, result[o])
      BY DEF ContentInv, ReadWhole
    <3> QED BY <1>1, <1>4, <3>1, <3>2
  <2> QED BY <2>1 DEF ContentInv, ReadWhole
<1> QED BY <1>5, <1>6, <1>7 DEF ContentInv

LEMMA ContentOpenRead ==
  ASSUME Typed, GrantInv, ContentInv, NEW o \in Op, OpenRead(o)
  PROVE  ContentInv'
<1>1. PICK n \in Inode :
      /\ UNCHANGED <<data, request, written, result>>
      /\ n # 0
      /\ task[o] = "queued" /\ task'[o] = "open" /\ ~Writes(o) /\ handle'[o] = n
      /\ \A q \in Op \ {o} : task'[q] = task[q] /\ handle'[q] = handle[q]
      /\ overlapped \subseteq overlapped'
      /\ \A q \in Op : task[q] = "open" /\ handle[q] = n /\ Writes(q) => o \in overlapped'
  BY OpenReadEffect DEF caller
<1>2. \A q \in Op : Writes(q)' = Writes(q) /\ Content(q)' = Content(q)
  BY <1>1 DEF Writes, Content
<1>3. result[o] = <<>>
  BY <1>1 DEF Typed, Stages, Stage
<1>4. Overlapping'
  BY <1>1, <1>2 DEF ContentInv, Overlapping
<1>5. OwnPieces' /\ Superseded'
  BY <1>1, <1>2 DEF ContentInv, OwnPieces, Superseded
<1>6. \A w \in Op :
       task'[w] = "done" /\ w \notin overlapped' => task[w] = "done" /\ w \notin overlapped
  BY <1>1
<1>7. WritesIntact'
  BY <1>1, <1>2, <1>6 DEF ContentInv, WritesIntact, Whole
<1>8. OldReplaced'
  BY <1>1, <1>2 DEF ContentInv, OldReplaced
<1>9. ReadSoFar'
  <2>1. data[n] \in Seq(Piece) /\ Len(data[n]) >= 0 /\ Len(<<>>) = 0
    BY <1>1 DEF Typed, TypeOK
  <2> SUFFICES ASSUME NEW q \in Op, task'[q] = "open", ~Writes(q), q \notin overlapped'
               PROVE  /\ Len(result[q]) <= Len(data[handle'[q]])
                      /\ \A i \in 1..Len(result[q]) : result[q][i] = data[handle'[q]][i]
    BY <1>1, <1>2 DEF ReadSoFar
  <2>2. CASE q = o
    BY <1>1, <1>3, <2>1, <2>2
  <2>3. CASE q # o
    BY <1>1, <2>3 DEF ContentInv, ReadSoFar
  <2> QED BY <2>2, <2>3
<1>10. ReadWhole'
  <2> SUFFICES ASSUME NEW q \in Op, task'[q] = "done", ~Writes(q), q \notin overlapped'
               PROVE  /\ \A w \in Authors(result[q]) :
                           task'[w] \in {"done", "failed"} /\ Whole(w, result[q])'
                      /\ Old[1] \in ToSet(result[q]) => result[q] = Old
    BY <1>1, <1>2 DEF ReadWhole
  <2>1. task[q] = "done" /\ q \notin overlapped
    BY <1>6
  <2>2. ASSUME NEW w \in Authors(result[q])
        PROVE  task'[w] \in {"done", "failed"} /\ Whole(w, result[q])'
    <3>1. w \in Op /\ task[w] \in {"done", "failed"} /\ Whole(w, result[q])
      BY <2>1 DEF GrantInv, ContentInv, ReadWhole
    <3> QED BY <1>1, <1>2, <1>6, <3>1 DEF Whole
  <2> QED BY <2>1, <2>2 DEF ContentInv, ReadWhole
<1> QED BY <1>4, <1>5, <1>7, <1>8, <1>9, <1>10 DEF ContentInv

LEMMA ContentOpenWrite ==
  ASSUME Typed, GrantInv, ContentInv, NEW o \in Op, OpenWrite(o)
  PROVE  ContentInv'
<1>1. PICK n \in Inode :
      /\ UNCHANGED <<request, written, result>>
      /\ data'[n] = <<>> /\ \A m \in Inode \ {n} : data'[m] = data[m]
      /\ task[o] = "queued" /\ task'[o] = "open" /\ Writes(o) /\ handle'[o] = n
      /\ \A q \in Op \ {o} : task'[q] = task[q] /\ handle'[q] = handle[q]
      /\ overlapped \subseteq overlapped'
      /\ \A q \in Op : task[q] = "open" /\ handle[q] = n => q \in overlapped'
      /\ \A q \in Op : task[q] = "open" /\ handle[q] = n /\ Writes(q) => o \in overlapped'
  BY OpenWriteEffect DEF caller
<1>2. \A q \in Op : Writes(q)' = Writes(q) /\ Content(q)' = Content(q)
  BY <1>1 DEF Writes, Content
<1>3. written[o] = 0 /\ Len(<<>>) = 0
  BY <1>1 DEF Typed, Stages, Stage
<1>4. \A q \in Op \ {o} : task'[q] = "open" => task[q] = "open" /\ handle[q] \in Inode
  BY <1>1 DEF Typed, TypeOK, Stages, Stage
<1>5. \A w \in Op :
       task'[w] = "done" /\ w \notin overlapped' => task[w] = "done" /\ w \notin overlapped
  BY <1>1
<1>6. Overlapping'
  BY <1>1, <1>2 DEF ContentInv, Overlapping
<1>7. OwnPieces'
  <2> SUFFICES ASSUME NEW q \in Op, task'[q] = "open", Writes(q), q \notin overlapped'
               PROVE  /\ Len(data'[handle'[q]]) = written[q]
                      /\ \A i \in 1..written[q] : data'[handle'[q]][i] = <<q, i>>
    BY <1>1, <1>2 DEF OwnPieces
  <2>1. CASE q = o
    BY <1>1, <1>3, <2>1
  <2>2. CASE q # o
    <3>1. handle'[q] = handle[q] /\ data'[handle[q]] = data[handle[q]] /\ task[q] = "open"
      BY <1>1, <1>4, <2>2
    <3>2. q \notin overlapped
      BY <1>1
    <3>3. /\ Len(data[handle[q]]) = written[q]
          /\ \A i \in 1..written[q] : data[handle[q]][i] = <<q, i>>
      BY <3>1, <3>2 DEF ContentInv, OwnPieces
    <3> QED BY <3>1, <3>3
  <2> QED BY <2>1, <2>2
<1>8. WritesIntact'
  <2> SUFFICES ASSUME NEW m \in Inode, NEW w \in Op, w \in Authors(data'[m]),
                      task'[w] = "done", w \notin overlapped'
               PROVE  data'[m] = Content(w)
    BY <1>2 DEF WritesIntact, Whole
  <2>1. m # n
    BY <1>1, AuthorsEmpty
  <2> QED BY <1>1, <1>5, <2>1 DEF ContentInv, WritesIntact, Whole
<1>9. Superseded'
  <2> SUFFICES ASSUME NEW q \in Op, NEW w \in Op, task'[q] = "open", Writes(q),
                      task'[w] = "done", w \notin overlapped', w \in Authors(data'[handle'[q]])
               PROVE  FALSE
    BY <1>2 DEF Superseded
  <2>1. handle'[q] # n /\ q # o
    BY <1>1, AuthorsEmpty
  <2> QED BY <1>1, <1>4, <1>5, <2>1 DEF ContentInv, Superseded
<1>10. OldReplaced'
  <2>1. ASSUME NEW q \in Op, task'[q] = "open", Writes(q)
        PROVE  Old[1] \notin ToSet(data'[handle'[q]])
    BY <1>1, <1>4, <2>1, ToSetEmpty DEF ContentInv, OldReplaced
  <2>2. ASSUME NEW m \in Inode, Old[1] \in ToSet(data'[m]) PROVE data'[m] = Old
    <3>1. m # n
      BY <1>1, <2>2, ToSetEmpty
    <3> QED BY <1>1, <2>2, <3>1 DEF ContentInv, OldReplaced
  <2> QED BY <1>2, <2>1, <2>2 DEF OldReplaced
<1>11. ReadSoFar'
  <2> SUFFICES ASSUME NEW q \in Op, task'[q] = "open", ~Writes(q), q \notin overlapped'
               PROVE  /\ Len(result[q]) <= Len(data'[handle'[q]])
                      /\ \A i \in 1..Len(result[q]) : result[q][i] = data'[handle'[q]][i]
    BY <1>1, <1>2 DEF ReadSoFar
  <2>1. q # o
    BY <1>1
  <2>2. handle'[q] = handle[q] /\ data'[handle[q]] = data[handle[q]] /\ task[q] = "open"
    BY <1>1, <1>4, <2>1
  <2> QED BY <1>1, <2>2 DEF ContentInv, ReadSoFar
<1>12. ReadWhole'
  <2> SUFFICES ASSUME NEW q \in Op, task'[q] = "done", ~Writes(q), q \notin overlapped'
               PROVE  /\ \A w \in Authors(result[q]) :
                           task'[w] \in {"done", "failed"} /\ Whole(w, result[q])'
                      /\ Old[1] \in ToSet(result[q]) => result[q] = Old
    BY <1>1, <1>2 DEF ReadWhole
  <2>1. task[q] = "done" /\ q \notin overlapped
    BY <1>5
  <2>2. ASSUME NEW w \in Authors(result[q])
        PROVE  task'[w] \in {"done", "failed"} /\ Whole(w, result[q])'
    <3>1. w \in Op /\ task[w] \in {"done", "failed"} /\ Whole(w, result[q])
      BY <2>1 DEF GrantInv, ContentInv, ReadWhole
    <3> QED BY <1>1, <1>2, <1>5, <3>1 DEF Whole
  <2> QED BY <2>1, <2>2 DEF ContentInv, ReadWhole
<1> QED BY <1>6, <1>7, <1>8, <1>9, <1>10, <1>11, <1>12 DEF ContentInv

LEMMA ContentWritePiece ==
  ASSUME Typed, GrantInv, ContentInv, NEW o \in Op, WritePiece(o)
  PROVE  ContentInv'
<1> DEFINE n == handle[o]
           i == written[o] + 1
           s == data[n]
           t == PutAt(s, i, <<o, i>>)
<1>1. /\ UNCHANGED <<request, task, handle, result, overlapped>>
      /\ task[o] = "open" /\ Writes(o)
      /\ n \in Inode /\ s \in Seq(Piece) /\ i \in Nat \ {0} /\ <<o, i>> \in Piece
      /\ data'[n] = t /\ \A m \in Inode \ {n} : data'[m] = data[m]
      /\ written'[o] = i /\ \A q \in Op \ {o} : written'[q] = written[q]
  BY WritePieceEffect DEF caller
<1>2. written[o] \in Nat /\ i = written[o] + 1
  BY DEF Typed
<1>3. \A q \in Op : Writes(q)' = Writes(q) /\ Content(q)' = Content(q)
  BY <1>1 DEF Writes, Content
<1>4. \A q \in Op \ {o} : task[q] = "open" /\ q \notin overlapped => handle[q] # n
  BY <1>1 DEF ContentInv, Overlapping
<1>5. \A q \in Op : task[q] = "open" => handle[q] \in Inode
  BY DEF Typed, TypeOK, Stages, Stage
<1>6. \A w \in Op : task[w] = "done" /\ w \notin overlapped => w \notin Authors(t)
  <2>1. \A w \in Authors(t) : w = o \/ w \in Authors(s)
    BY <1>1, AuthorsPut
  <2>2. \A w \in Op : task[w] = "done" /\ w \notin overlapped => w \notin Authors(s)
    BY <1>1 DEF ContentInv, Superseded
  <2> QED BY <1>1, <2>1, <2>2
<1> HIDE DEF n, i, s
<1>7. t \in Seq(Piece)
  BY <1>1, PutAtProperties
<1>8. t[i] = <<o, i>>
  BY <1>1, PutAtProperties
<1>9. \A j \in 1..Len(s) : j # i => t[j] = s[j]
  BY <1>1, PutAtProperties
<1>10. \A j \in 1..Len(t) : j # i /\ j > Len(s) => t[j] = Hole
  BY <1>1, PutAtProperties
<1>11. i > Len(s) => Len(t) = i
  BY <1>1, PutAtProperties
<1> HIDE DEF t
<1>12. Old[1] \notin ToSet(t)
  <2>1. Old[1] = <<NoOp, 1>>
    BY DEF Old
  <2>2. Old[1] \notin ToSet(s)
    BY <1>1 DEF ContentInv, OldReplaced, n, s
  <2> SUFFICES ASSUME NEW j \in 1..Len(t), t[j] = <<NoOp, 1>> PROVE FALSE
    BY <1>7, <2>1 DEF ToSet
  <2>3. j # i
    BY <1>8, FsAssumption
  <2>4. j \in 1..Len(s) /\ t[j] = s[j]
    BY <1>1, <1>7, <1>9, <1>10, <2>3 DEF Hole
  <2>5. s[j] \in ToSet(s)
    BY <1>1, <2>4 DEF ToSet
  <2> QED BY <2>1, <2>2, <2>4, <2>5
<1>13. Overlapping'
  BY <1>1, <1>3 DEF ContentInv, Overlapping
<1>14. OwnPieces'
  <2> SUFFICES ASSUME NEW q \in Op, task[q] = "open", Writes(q), q \notin overlapped
               PROVE  /\ Len(data'[handle[q]]) = written'[q]
                      /\ \A j \in 1..written'[q] : data'[handle[q]][j] = <<q, j>>
    BY <1>1, <1>3 DEF OwnPieces
  <2>1. CASE q = o
    <3>1. Len(s) = written[o] /\ \A j \in 1..written[o] : s[j] = <<o, j>>
      BY <2>1 DEF ContentInv, OwnPieces, n, s
    <3>2. Len(t) = i
      BY <1>2, <1>11, <3>1
    <3>3. \A j \in 1..i : t[j] = <<o, j>>
      <4>1. TAKE j \in 1..i
      <4>2. CASE j = i
        BY <1>8, <4>2
      <4>3. CASE j # i
        <5>1. j \in 1..written[o]
          BY <1>2, <4>3
        <5> QED BY <1>9, <3>1, <4>3, <5>1
      <4> QED BY <4>2, <4>3
    <3> QED BY <1>1, <2>1, <3>2, <3>3 DEF n
  <2>2. CASE q # o
    <3>1. data'[handle[q]] = data[handle[q]] /\ written'[q] = written[q]
      BY <1>1, <1>4, <1>5, <2>2
    <3> QED BY <3>1 DEF ContentInv, OwnPieces
  <2> QED BY <2>1, <2>2
<1>15. WritesIntact'
  <2> SUFFICES ASSUME NEW m \in Inode, NEW w \in Op, w \in Authors(data'[m]),
                      task[w] = "done", w \notin overlapped
               PROVE  data'[m] = Content(w)
    BY <1>1, <1>3 DEF WritesIntact, Whole
  <2>1. m # n
    BY <1>1, <1>6
  <2> QED BY <1>1, <2>1 DEF ContentInv, WritesIntact, Whole
<1>16. Superseded'
  <2> SUFFICES ASSUME NEW q \in Op, NEW w \in Op, task[q] = "open", Writes(q),
                      task[w] = "done", w \notin overlapped, w \in Authors(data'[handle[q]])
               PROVE  FALSE
    BY <1>1, <1>3 DEF Superseded
  <2>1. handle[q] # n
    BY <1>1, <1>6
  <2> QED BY <1>1, <1>5, <2>1 DEF ContentInv, Superseded
<1>17. OldReplaced'
  <2>1. ASSUME NEW q \in Op, task[q] = "open", Writes(q)
        PROVE  Old[1] \notin ToSet(data'[handle[q]])
    BY <1>1, <1>5, <1>12, <2>1 DEF ContentInv, OldReplaced
  <2>2. ASSUME NEW m \in Inode, Old[1] \in ToSet(data'[m]) PROVE data'[m] = Old
    <3>1. m # n
      BY <1>1, <1>12, <2>2
    <3> QED BY <1>1, <2>2, <3>1 DEF ContentInv, OldReplaced
  <2> QED BY <1>1, <1>3, <2>1, <2>2 DEF OldReplaced
<1>18. ReadSoFar'
  <2> SUFFICES ASSUME NEW q \in Op, task[q] = "open", ~Writes(q), q \notin overlapped
               PROVE  /\ Len(result[q]) <= Len(data'[handle[q]])
                      /\ \A j \in 1..Len(result[q]) : result[q][j] = data'[handle[q]][j]
    BY <1>1, <1>3 DEF ReadSoFar
  <2>1. data'[handle[q]] = data[handle[q]]
    BY <1>1, <1>4, <1>5
  <2> QED BY <2>1 DEF ContentInv, ReadSoFar
<1>19. ReadWhole'
  <2> SUFFICES ASSUME NEW q \in Op, task[q] = "done", ~Writes(q), q \notin overlapped
               PROVE  /\ \A w \in Authors(result[q]) :
                           task[w] \in {"done", "failed"} /\ Whole(w, result[q])'
                      /\ Old[1] \in ToSet(result[q]) => result[q] = Old
    BY <1>1, <1>3 DEF ReadWhole
  <2>1. ASSUME NEW w \in Authors(result[q])
        PROVE  task[w] \in {"done", "failed"} /\ Whole(w, result[q])'
    <3>1. w \in Op /\ task[w] \in {"done", "failed"} /\ Whole(w, result[q])
      BY DEF GrantInv, ContentInv, ReadWhole
    <3> QED BY <1>1, <1>3, <3>1 DEF Whole
  <2> QED BY <2>1 DEF ContentInv, ReadWhole
<1> QED BY <1>13, <1>14, <1>15, <1>16, <1>17, <1>18, <1>19 DEF ContentInv

LEMMA ContentReadPiece ==
  ASSUME Typed, GrantInv, ContentInv, NEW o \in Op, ReadPiece(o)
  PROVE  ContentInv'
<1> DEFINE s == data[handle[o]]
           r == result[o]
           i == Len(r) + 1
<1>1. /\ UNCHANGED <<data, request, task, handle, written, overlapped>>
      /\ task[o] = "open" /\ ~Writes(o)
      /\ handle[o] \in Inode /\ s \in Seq(Piece) /\ i \in 1..Len(s) /\ s[i] \in Piece
      /\ r \in Seq(Piece) /\ result'[o] = Append(r, s[i])
      /\ \A q \in Op \ {o} : result'[q] = result[q]
  BY ReadPieceEffect DEF caller
<1>2. \A q \in Op : Writes(q)' = Writes(q) /\ Content(q)' = Content(q)
  BY <1>1 DEF Writes, Content
<1>3. Overlapping' /\ OwnPieces' /\ Superseded' /\ OldReplaced'
  BY <1>1, <1>2 DEF ContentInv, Overlapping, OwnPieces, Superseded, OldReplaced
<1>4. WritesIntact'
  BY <1>1, <1>2 DEF ContentInv, WritesIntact, Whole
<1>5. ReadSoFar'
  <2> SUFFICES ASSUME NEW q \in Op, task[q] = "open", ~Writes(q), q \notin overlapped
               PROVE  /\ Len(result'[q]) <= Len(data[handle[q]])
                      /\ \A j \in 1..Len(result'[q]) : result'[q][j] = data[handle[q]][j]
    BY <1>1, <1>2 DEF ReadSoFar
  <2>1. CASE q = o
    <3>1. \A j \in 1..Len(r) : r[j] = s[j]
      BY <2>1 DEF ContentInv, ReadSoFar
    <3> HIDE DEF r, s
    <3>2. Len(Append(r, s[i])) = i /\ Append(r, s[i])[i] = s[i]
          /\ \A j \in 1..Len(r) : Append(r, s[i])[j] = r[j]
      BY <1>1, AppendProperties
    <3>3. \A j \in 1..i : Append(r, s[i])[j] = s[j]
      BY <1>1, <3>1, <3>2
    <3>4. i <= Len(s)
      BY <1>1
    <3> QED BY <1>1, <2>1, <3>2, <3>3, <3>4 DEF s
  <2>2. CASE q # o
    BY <1>1, <2>2 DEF ContentInv, ReadSoFar
  <2> QED BY <2>1, <2>2
<1>6. ReadWhole'
  <2> SUFFICES ASSUME NEW q \in Op, task[q] = "done", ~Writes(q), q \notin overlapped
               PROVE  /\ \A w \in Authors(result'[q]) :
                           task[w] \in {"done", "failed"} /\ Whole(w, result[q])'
                      /\ Old[1] \in ToSet(result'[q]) => result'[q] = Old
    BY <1>1, <1>2 DEF ReadWhole
  <2>1. result'[q] = result[q]
    BY <1>1
  <2>2. ASSUME NEW w \in Authors(result[q])
        PROVE  task[w] \in {"done", "failed"} /\ Whole(w, result[q])'
    <3>1. w \in Op /\ task[w] \in {"done", "failed"} /\ Whole(w, result[q])
      BY DEF GrantInv, ContentInv, ReadWhole
    <3> QED BY <1>1, <1>2, <2>1, <3>1 DEF Whole
  <2> QED BY <2>1, <2>2 DEF ContentInv, ReadWhole
<1> QED BY <1>3, <1>4, <1>5, <1>6 DEF ContentInv

LEMMA ContentDone ==
  ASSUME Typed, GrantInv, ContentInv, NEW o \in Op, WriteDone(o) \/ ReadDone(o)
  PROVE  ContentInv'
<1>1. /\ UNCHANGED <<data, request, handle, written, result, overlapped>>
      /\ task[o] = "open" /\ task'[o] = "done" /\ handle[o] \in Inode
      /\ \A q \in Op \ {o} : task'[q] = task[q]
      /\ Writes(o) => written[o] = request[o].size
      /\ ~Writes(o) => Len(result[o]) >= Len(data[handle[o]])
  BY DoneEffect DEF caller
<1>2. \A q \in Op : Writes(q)' = Writes(q) /\ Content(q)' = Content(q)
  BY <1>1 DEF Writes, Content
<1>3. \A q \in Op : task[q] = "open" => handle[q] \in Inode
  BY DEF Typed, TypeOK, Stages, Stage
<1>4. Overlapping' /\ OwnPieces' /\ OldReplaced' /\ ReadSoFar'
  <2>1. \A q \in Op : task'[q] = "open" => task[q] = "open"
    BY <1>1
  <2>2. Overlapping'
    BY <1>1, <1>2, <2>1 DEF ContentInv, Overlapping
  <2>3. OwnPieces'
    BY <1>1, <1>2, <2>1 DEF ContentInv, OwnPieces
  <2>4. OldReplaced'
    BY <1>1, <1>2, <2>1 DEF ContentInv, OldReplaced
  <2>5. ReadSoFar'
    BY <1>1, <1>2, <2>1 DEF ContentInv, ReadSoFar
  <2> QED BY <2>2, <2>3, <2>4, <2>5
<1>5. WritesIntact'
  <2> SUFFICES ASSUME NEW m \in Inode, NEW w \in Op, w \in Authors(data[m]),
                      task'[w] = "done", w \notin overlapped
               PROVE  data[m] = Content(w)
    BY <1>1, <1>2 DEF WritesIntact, Whole
  <2>1. CASE w = o
    <3>1. handle[o] = m /\ Writes(o)
      BY <2>1 DEF GrantInv
    <3>2. /\ Len(data[m]) = request[o].size
          /\ \A i \in 1..request[o].size : data[m][i] = <<o, i>>
      BY <1>1, <2>1, <3>1 DEF ContentInv, OwnPieces
    <3>3. data[m] \in Seq(Piece)
      BY DEF Typed, TypeOK
    <3>4. request[o].size \in Nat
      BY FsAssumption DEF Typed, TypeOK
    <3>5. /\ Content(o) \in Seq(Piece) /\ Len(Content(o)) = request[o].size
          /\ \A i \in 1..request[o].size : Content(o)[i] = <<o, i>>
      BY <3>4 DEF Content, Piece
    <3>6. \A i \in 1..Len(data[m]) : data[m][i] = Content(o)[i]
      BY <3>2, <3>5
    <3>7. Len(data[m]) = Len(Content(o))
      BY <3>2, <3>5
    <3>8. data[m] \in Seq(Piece) /\ Content(o) \in Seq(Piece)
      BY <3>3, <3>5
    <3>9. data[m] = Content(o)
      BY <3>6, <3>7, <3>8, SeqEqual, Zenon
    <3> QED BY <2>1, <3>9
  <2>2. CASE w # o
    BY <1>1, <2>2 DEF ContentInv, WritesIntact, Whole
  <2> QED BY <2>1, <2>2
<1>6. Superseded'
  <2> SUFFICES ASSUME NEW q \in Op, NEW w \in Op, task'[q] = "open", Writes(q),
                      task'[w] = "done", w \notin overlapped, w \in Authors(data[handle[q]])
               PROVE  FALSE
    BY <1>1, <1>2 DEF Superseded
  <2>1. q # o /\ task[q] = "open" /\ handle[q] \in Inode
    BY <1>1, <1>3
  <2>2. CASE w = o
    <3>1. handle[o] = handle[q]
      BY <2>1, <2>2 DEF GrantInv
    <3> QED BY <1>1, <2>1, <2>2, <3>1 DEF ContentInv, Overlapping
  <2>3. CASE w # o
    BY <1>1, <2>1, <2>3 DEF ContentInv, Superseded
  <2> QED BY <2>2, <2>3
<1>7. ReadWhole'
  <2> SUFFICES ASSUME NEW q \in Op, task'[q] = "done", ~Writes(q), q \notin overlapped
               PROVE  /\ \A w \in Authors(result[q]) :
                           task'[w] \in {"done", "failed"} /\ Whole(w, result[q])'
                      /\ Old[1] \in ToSet(result[q]) => result[q] = Old
    BY <1>1, <1>2 DEF ReadWhole
  <2>1. CASE q # o
    <3>1. task[q] = "done"
      BY <1>1, <2>1
    <3>2. ASSUME NEW w \in Authors(result[q])
          PROVE  task'[w] \in {"done", "failed"} /\ Whole(w, result[q])'
      <4>1. w \in Op /\ task[w] \in {"done", "failed"} /\ Whole(w, result[q])
        BY <3>1 DEF GrantInv, ContentInv, ReadWhole
      <4>2. w # o
        BY <1>1, <4>1
      <4> QED BY <1>1, <1>2, <4>1, <4>2 DEF Whole
    <3> QED BY <3>1, <3>2 DEF ContentInv, ReadWhole
  <2>2. CASE q = o
    <3> DEFINE s == data[handle[o]]
    <3>1. result[o] = s
      <4>1. /\ Len(result[o]) <= Len(s) /\ Len(result[o]) >= Len(s)
            /\ \A i \in 1..Len(result[o]) : result[o][i] = s[i]
        BY <1>1, <2>2 DEF ContentInv, ReadSoFar
      <4>2. result[o] \in Seq(Piece) /\ s \in Seq(Piece)
        BY <1>1 DEF Typed, TypeOK
      <4> HIDE DEF s
      <4>3. Len(result[o]) = Len(s)
        BY <4>1, <4>2
      <4> QED BY <4>1, <4>2, <4>3, SeqEqual
    <3>2. ASSUME NEW w \in Authors(s)
          PROVE  task'[w] \in {"done", "failed"} /\ Whole(w, result[o])'
      <4>1. w \in Op /\ handle[w] = handle[o] /\ Writes(w)
        BY <1>1 DEF GrantInv
      <4>2. w # o /\ task[w] # "open"
        BY <1>1, <2>2, <4>1 DEF ContentInv, Overlapping
      <4>3. task[w] \in {"done", "failed"}
        BY <1>1, <4>1, <4>2, InodesFit DEF Typed, TypeOK, Stages, Stage
      <4>4. Whole(w, s)
        BY <1>1, <4>1 DEF ContentInv, WritesIntact
      <4> QED BY <1>1, <1>2, <3>1, <4>1, <4>2, <4>3, <4>4 DEF Whole
    <3>3. Old[1] \in ToSet(s) => s = Old
      BY <1>1 DEF ContentInv, OldReplaced
    <3> QED BY <2>2, <3>1, <3>2, <3>3
  <2> QED BY <2>1, <2>2
<1> QED BY <1>4, <1>5, <1>6, <1>7 DEF ContentInv

LEMMA ContentStep == Typed /\ GrantInv /\ ContentInv /\ [Next]_vars => ContentInv'
  BY StillSteps, ContentStill, ContentOpenRead, ContentOpenWrite, ContentWritePiece,
     ContentReadPiece, ContentDone

LEMMA Contents == Spec => [](Typed /\ Straight /\ GrantInv /\ ContentInv)
  BY TypeInit, TypedStep, StraightInit, StraightStep, GrantInit, GrantStep, ContentInit,
     ContentStep, PTL DEF Spec, Safety

(* WritesIntact for any operations: the truncation, not a lock, is what    *)
(* makes a write that overlapped no other the whole content of its file    *)
(* (access-fs FsAccess::write_file, StdFsBackend over tokio::fs::write).   *)
THEOREM LoneWritesStay == Spec => []WritesIntact
<1>1. ContentInv => WritesIntact
  BY DEF ContentInv
<1> QED BY <1>1, Contents, PTL

(* ReadsIntact for any operations: a read no write overlapped shows the    *)
(* state some write left, or the file as it was at first (access-fs        *)
(* FsAccess::read_file, StdFsBackend over tokio::fs::read_to_string).      *)
THEOREM LoneReadsAreWhole == Spec => []ReadsIntact
<1>1. ContentInv => ReadsIntact
  <2> SUFFICES ASSUME ContentInv, NEW o \in Op, task[o] = "done", ~Writes(o), o \notin overlapped
               PROVE  /\ \A w \in Op : Whole(w, result[o])
                      /\ Old[1] \in ToSet(result[o]) => result[o] = Old
    BY DEF ReadsIntact
  <2>1. \A w \in Authors(result[o]) : Whole(w, result[o])
    BY DEF ContentInv, ReadWhole
  <2>2. \A w \in Op : w \notin Authors(result[o]) => Whole(w, result[o])
    BY DEF Whole
  <2> QED BY <2>1, <2>2 DEF ContentInv, ReadWhole
<1> QED BY <1>1, Contents, PTL
=============================================================================
