------------------------------ MODULE FsAccess ------------------------------
(***************************************************************************)
(* Workspace files (crates/access-fs): FsAccess::read_file and write_file. *)
(* An operation resolves its name to a path, is granted FsAction and then  *)
(* FsReadAction or FsWriteAction on that path, and hands the path to       *)
(* StdFsBackend.  Other operations and other programs act in between.      *)
(*                                                                         *)
(* tokio::fs runs the access on a thread of its own: it opens the file by  *)
(* path, goes through it piece by piece, and is not stopped by a caller    *)
(* that drops the future.  A file is known to those who hold it open by    *)
(* its inode.  A path is walked anew each time it is used, by the links    *)
(* that there are then.                                                    *)
(***************************************************************************)
EXTENDS Naturals, FiniteSets, SequencesExt

CONSTANTS
  Op,       \* calls to read_file and write_file
  NoOp,     \* the author of what was in the workspace before
  Path,     \* where something can be, as sequences of components
  Dir,      \* the directories, the workspace root among them
  Root,
  Initial,  \* the files there are at first
  Link,     \* the links there can be: <<where, whither>>
  Touched,  \* what other programs remove, and where they make links
  Request,  \* what operations may ask: [kind, name, size, caps]
  Policies, \* the policies that allow: [kind, form, operand]
  MaxHops,  \* bound on the links and ".." of a walk
  MaxInode  \* bound on the files ever created

Kind == {"read", "write"}
Needs == [read |-> "FsRead", write |-> "FsWrite"]
Inode == 1..MaxInode

(* The name of a request is candidate_path(root, path): absolute, but with *)
(* ".." and links in it.                                                   *)
ASSUME FsAssumption ==
  /\ NoOp \notin Op /\ IsFiniteSet(Op)
  /\ Path \subseteq Seq(STRING) \ {<<>>}
  /\ Dir \subseteq Path /\ Root \in Dir
  /\ Initial \subseteq Path \ Dir /\ IsFiniteSet(Initial)
  /\ Link \subseteq (Path \ Dir) \X (Seq(STRING) \ {<<>>})
  /\ \A l \in Link : Front(l[1]) \in Dir
  /\ \A p \in Path : ".." \notin ToSet(p)
  /\ Request \subseteq [kind : Kind, name : Seq(STRING) \ {<<>>}, size : Nat,
                        caps : SUBSET {"FsRead", "FsWrite"}]
  /\ Policies \subseteq [kind : Kind, form : {"exact", "prefix"}, operand : Path]
  /\ Touched \subseteq Path /\ MaxHops \in Nat
  /\ MaxInode = Cardinality(Initial) + Cardinality(Op)

VARIABLES
  gone,      \* the workspace root has been removed
  inode,     \* the inode at each path, 0 if none
  link,      \* where the link at each path leads, <<>> if there is none
  data,      \* the pieces in each inode: <<author, place>>
  request,   \* what each operation asks
  pc,        \* where each operation is
  existed,   \* what path.exists() answered a write
  target,    \* the path an operation is granted, once it has one
  task,      \* the access each operation has handed to the backend
  handle,    \* the inode a task has open
  written,   \* the pieces a writing task has written
  result,    \* the pieces a reading task has read
  overlapped, \* history: tasks that held a file open while another wrote it
  unfollowed, \* history: operations whose target was a link that was not followed
  relinked    \* history: operations whose target another program made a link

links == <<link, relinked>>
caller == <<request, pc, existed, target, unfollowed>>
backend == <<task, handle, written, result, overlapped>>
vars == <<gone, links, inode, data, caller, backend>>

Pending == {"probing", "resolving", "asking_parent", "asking", "executing"}
Final == {"ok", "error", "dropped", "panicked"}

Hole == <<NoOp, 0>>
Old == [i \in 1..3 |-> <<NoOp, i>>]

(* The files there are at first have different inodes, in any order. *)
InitialInode ==
  CHOOSE f \in [Initial -> 1..Cardinality(Initial)] :
    \A p, q \in Initial : f[p] = f[q] => p = q

Piece == (Op \cup {NoOp}) \X Nat

TypeOK ==
  /\ gone \in BOOLEAN
  /\ inode \in [Path -> Inode \cup {0}]
  /\ data \in [Inode -> Seq(Piece)]
  /\ request \in [Op -> Request]
  /\ pc \in [Op -> {"idle"} \cup Pending \cup Final]
  /\ existed \in [Op -> BOOLEAN]
  /\ target \in [Op -> Seq(STRING)]
  /\ task \in [Op -> {"none", "queued", "open", "done", "failed"}]
  /\ handle \in [Op -> Inode \cup {0}]
  /\ \A o \in Op : written[o] \in 0..request[o].size
  /\ result \in [Op -> Seq(Piece)]
  /\ overlapped \subseteq Op /\ unfollowed \subseteq Op /\ relinked \subseteq Op
  /\ link \in [Path -> Seq(STRING)]
  /\ \A p \in Path : link[p] # <<>> => p \notin Dir /\ inode[p] = 0
  /\ \A p, q \in Path : inode[p] # 0 /\ inode[p] = inode[q] => p = q

Init ==
  /\ gone = FALSE
  /\ inode = [p \in Path |-> IF p \in Initial THEN InitialInode[p] ELSE 0]
  /\ data = [n \in Inode |-> IF n <= Cardinality(Initial) THEN Old ELSE <<>>]
  /\ request \in [Op -> Request]
  /\ pc = [o \in Op |-> "idle"]
  /\ existed = [o \in Op |-> FALSE]
  /\ target = [o \in Op |-> <<>>]
  /\ task = [o \in Op |-> "none"]
  /\ handle = [o \in Op |-> 0]
  /\ written = [o \in Op |-> 0]
  /\ result = [o \in Op |-> <<>>]
  /\ overlapped = {} /\ unfollowed = {} /\ relinked = {}
  /\ \E made \in SUBSET {l \in Link : l[1] \notin Initial} :
       /\ \A l, m \in made : l[1] = m[1] => l = m
       /\ link = [p \in Path |-> IF \E l \in made : l[1] = p
                               THEN (CHOOSE l \in made : l[1] = p)[2] ELSE <<>>]

-----------------------------------------------------------------------------
(* The file system *)

(* Path::starts_with compares whole components. *)
UnderRoot(p) == IsPrefix(Root, p)

DirExists(p) == p \in Dir /\ ~(gone /\ UnderRoot(p))
Exists(p) == DirExists(p) \/ inode[p] # 0

Special(q, i) ==
  LET p == SubSeq(q, 1, i) IN q[i] = ".." \/ (p \in Path /\ link[p] # <<>>)

Plain(q) == \A i \in 1..Len(q) : ~Special(q, i)

(* One link or ".." less.  A ".." after what is no directory leads nowhere. *)
Hop ==
  [q \in Seq(STRING) |->
     IF Plain(q) THEN q
     ELSE LET i == Min({j \in 1..Len(q) : Special(q, j)})
              p == SubSeq(q, 1, i)
              rest == SubSeq(q, i + 1, Len(q))
          IN  IF q[i] # ".." THEN link[p] \o rest
              ELSE IF DirExists(Front(p)) THEN Front(Front(p)) \o rest ELSE q]

(* Where the system gets to from a path *)
Reached(q) ==
  LET walk[n \in 0..MaxHops] == IF n = 0 THEN q ELSE Hop[walk[n - 1]]
  IN  walk[MaxHops]

(* The place a path leads to, if it leads to one *)
Place(q) == {p \in {Reached(q)} : p \in Path /\ Plain(p)}

(* Another program removes a file or a link, or the workspace with all     *)
(* that is in it; whoever has a file open keeps its inode.                 *)
RemoveFile(p) ==
  /\ p \in Touched
  /\ inode[p] # 0 \/ link[p] # <<>>
  /\ inode' = [inode EXCEPT ![p] = 0]
  /\ link' = [link EXCEPT ![p] = <<>>]
  /\ UNCHANGED <<gone, relinked, data, caller, backend>>

RemoveRoot ==
  /\ Root \in Touched /\ ~gone
  /\ gone' = TRUE
  /\ inode' = [p \in Path |-> IF UnderRoot(p) THEN 0 ELSE inode[p]]
  /\ link' = [p \in Path |-> IF UnderRoot(p) THEN <<>> ELSE link[p]]
  /\ UNCHANGED <<relinked, data, caller, backend>>

(* Another program makes a link where nothing is.                          *)
MakeLink(p, whither) ==
  /\ p \in Touched
  /\ inode[p] = 0 /\ link[p] = <<>> /\ DirExists(Front(p))
  /\ link' = [link EXCEPT ![p] = whither]
  /\ relinked' = relinked \cup {o \in Op : IsPrefix(p, target[o])}
  /\ UNCHANGED <<gone, inode, data, caller, backend>>

-----------------------------------------------------------------------------
(* The facade *)

Writes(o) == request[o].kind = "write"
Goto(o, label) == pc' = [pc EXCEPT ![o] = label]

(* FsAccess::new takes the root of the context to be canonical still, and  *)
(* panics when it is not there.                                            *)
Start(o) ==
  /\ pc[o] = "idle"
  /\ Goto(o, IF ~DirExists(Root) THEN "panicked"
             ELSE IF Writes(o) THEN "probing" ELSE "resolving")
  /\ UNCHANGED <<gone, links, inode, data, request, existed, target, unfollowed, backend>>

(* CanonicalPath::existing: where a name leads, if something is there. *)
Existing(name) == {p \in Place(name) : Exists(p)}

(* existing_or_parent asks whether the target exists, following links. *)
Probe(o) ==
  /\ pc[o] = "probing"
  /\ Goto(o, "resolving")
  /\ existed' = [existed EXCEPT ![o] = Existing(request[o].name) # {}]
  /\ UNCHANGED <<gone, links, inode, data, request, target, unfollowed, backend>>

(* What existing_or_parent makes of a name that was not there: where the   *)
(* parent leads, and the last component as it is, even if it is a link.    *)
InParent(name) ==
  IF Last(name) = ".." THEN {}
  ELSE {Append(p, Last(name)) : p \in Existing(Front(name))}

Resolved(o) ==
  IF Writes(o) /\ ~existed[o] THEN InParent(request[o].name) ELSE Existing(request[o].name)

(* resolve_under_authorization, resolve_write_under_authorization *)
ResolveTo(o, paths) ==
  /\ pc[o] = "resolving"
  /\ \/ /\ Goto(o, "asking_parent")
        /\ \E p \in paths :
             /\ UnderRoot(p)
             /\ target' = [target EXCEPT ![o] = p]
             /\ unfollowed' = IF Plain(p) THEN unfollowed ELSE unfollowed \cup {o}
     \/ /\ Goto(o, "error")
        /\ \A p \in paths : ~UnderRoot(p)
        /\ UNCHANGED <<target, unfollowed>>
  /\ UNCHANGED <<gone, links, inode, data, request, existed, backend>>

(* Slip: the last component is kept also where it was there. *)
ResolveInParent(o) == ResolveTo(o, InParent(request[o].name))

Resolve(o) == ResolveTo(o, Resolved(o))

Refused(o) ==
  /\ pc[o] \in {"asking_parent", "asking"}
  /\ Goto(o, "error")
  /\ UNCHANGED <<gone, links, inode, data, request, existed, target, unfollowed, backend>>

(* AllowWorkspaceFsPolicy.  No capability is needed yet. *)
GrantParent(o) ==
  /\ pc[o] = "asking_parent"
  /\ UnderRoot(target[o])
  /\ Goto(o, "asking")
  /\ UNCHANGED <<gone, links, inode, data, request, existed, target, unfollowed, backend>>

(* The exact, prefix and workspace policies allow or abstain; a workspace  *)
(* policy is the one whose prefix is the root.                             *)
Covers(policy, kind, p) ==
  /\ policy.kind = kind
  /\ IF policy.form = "exact" THEN p = policy.operand ELSE IsPrefix(policy.operand, p)

Covered(kind, p) == \E policy \in Policies : Covers(policy, kind, p)

Held(o) == Needs[request[o].kind] \in request[o].caps

(* The second grant, and the call of the backend with what it granted. *)
GrantAction(o) ==
  /\ pc[o] = "asking"
  /\ Held(o)
  /\ Covered(request[o].kind, target[o])
  /\ Goto(o, "executing")
  /\ task' = [task EXCEPT ![o] = "queued"]
  /\ UNCHANGED <<gone, links, inode, data, request, existed, target, unfollowed,
                 handle, written, result, overlapped>>

(* Slip: only a success is passed on. *)
FinishDone(o) ==
  /\ pc[o] = "executing"
  /\ task[o] = "done"
  /\ Goto(o, "ok")
  /\ UNCHANGED <<gone, links, inode, data, request, existed, target, unfollowed, backend>>

Finish(o) ==
  /\ pc[o] = "executing"
  /\ task[o] \in {"done", "failed"}
  /\ Goto(o, IF task[o] = "done" THEN "ok" ELSE "error")
  /\ UNCHANGED <<gone, links, inode, data, request, existed, target, unfollowed, backend>>

(* The caller drops the future at an await; a task it has started goes on. *)
Drop(o) ==
  /\ pc[o] \in {"asking_parent", "asking", "executing"}
  /\ Goto(o, "dropped")
  /\ UNCHANGED <<gone, links, inode, data, request, existed, target, unfollowed, backend>>

-----------------------------------------------------------------------------
(* The backend: StdFsBackend over tokio::fs *)

Busy(n) == {q \in Op : task[q] = "open" /\ handle[q] = n}
Writers(n) == {q \in Busy(n) : Writes(q)}

EndTask(o, how) ==
  /\ task' = [task EXCEPT ![o] = how]
  /\ UNCHANGED <<handle, written, result, overlapped>>

(* The access fails: there is no such file or directory, the target is a   *)
(* directory, what was read is no text, the device fails.                  *)
TaskFails(o) ==
  /\ task[o] \in {"queued", "open"}
  /\ EndTask(o, "failed")
  /\ UNCHANGED <<gone, links, inode, data, caller>>

(* Opening walks the path again, which is granted, not open. *)
OpenRead(o) ==
  /\ task[o] = "queued" /\ ~Writes(o)
  /\ task' = [task EXCEPT ![o] = "open"]
  /\ \E p \in Place(target[o]) : LET n == inode[p] IN
     /\ n # 0
     /\ handle' = [handle EXCEPT ![o] = n]
     /\ overlapped' = IF Writers(n) = {} THEN overlapped ELSE overlapped \cup {o}
  /\ UNCHANGED <<gone, links, inode, data, caller, written, result>>

Opened(p) ==
  IF inode[p] # 0 THEN inode[p]
  ELSE CHOOSE n \in Inode : /\ data[n] = <<>>
                            /\ \A q \in Path : inode[q] # n
                            /\ \A q \in Op : handle[q] # n

OpenAt(o, p, n, content) ==
  /\ task[o] = "queued" /\ Writes(o)
  /\ p \notin Dir /\ DirExists(Front(p))
  /\ inode' = [inode EXCEPT ![p] = n]
  /\ data' = [data EXCEPT ![n] = content]
  /\ handle' = [handle EXCEPT ![o] = n]
  /\ overlapped' = overlapped \cup Busy(n) \cup (IF Writers(n) = {} THEN {} ELSE {o})
  /\ task' = [task EXCEPT ![o] = "open"]
  /\ UNCHANGED <<gone, links, caller, written, result>>

(* Slip: a file that is there is opened without being truncated. *)
OpenWriteKeeping(o) ==
  \E p \in Place(target[o]) : LET n == Opened(p) IN OpenAt(o, p, n, data[n])

(* tokio::fs::write creates the file or truncates it. *)
OpenWrite(o) == \E p \in Place(target[o]) : OpenAt(o, p, Opened(p), <<>>)

(* A piece goes where the task is in the file, whatever others do to it.   *)
PutAt(s, i, piece) ==
  [j \in 1..(IF i > Len(s) THEN i ELSE Len(s)) |->
     IF j = i THEN piece ELSE IF j <= Len(s) THEN s[j] ELSE Hole]

(* Slips: a piece goes to the end of the file; one piece too many. *)
WriteAppending(o) ==
  /\ task[o] = "open" /\ Writes(o)
  /\ written[o] < request[o].size
  /\ data' = [data EXCEPT ![handle[o]] = Append(@, <<o, written[o] + 1>>)]
  /\ written' = [written EXCEPT ![o] = @ + 1]
  /\ UNCHANGED <<gone, links, inode, caller, task, handle, result, overlapped>>

WritePastEnd(o) ==
  /\ task[o] = "open" /\ Writes(o)
  /\ written[o] <= request[o].size
  /\ data' = [data EXCEPT ![handle[o]] = PutAt(@, written[o] + 1, <<o, written[o] + 1>>)]
  /\ written' = [written EXCEPT ![o] = @ + 1]
  /\ UNCHANGED <<gone, links, inode, caller, task, handle, result, overlapped>>

WritePiece(o) ==
  /\ task[o] = "open" /\ Writes(o)
  /\ written[o] < request[o].size
  /\ data' = [data EXCEPT ![handle[o]] = PutAt(@, written[o] + 1, <<o, written[o] + 1>>)]
  /\ written' = [written EXCEPT ![o] = @ + 1]
  /\ UNCHANGED <<gone, links, inode, caller, task, handle, result, overlapped>>

WriteDone(o) ==
  /\ task[o] = "open" /\ Writes(o)
  /\ written[o] = request[o].size
  /\ EndTask(o, "done")
  /\ UNCHANGED <<gone, links, inode, data, caller>>

(* read_to_string reads on until there is no more. *)
ReadPiece(o) ==
  /\ task[o] = "open" /\ ~Writes(o)
  /\ LET s == data[handle[o]]
         i == Len(result[o]) + 1
     IN  i <= Len(s) /\ result' = [result EXCEPT ![o] = Append(@, s[i])]
  /\ UNCHANGED <<gone, links, inode, data, caller, task, handle, written, overlapped>>

(* Slip: a task may stop after the first piece. *)
ReadDoneEarly(o) ==
  /\ task[o] = "open" /\ ~Writes(o)
  /\ result[o] # <<>> \/ data[handle[o]] = <<>>
  /\ EndTask(o, "done")
  /\ UNCHANGED <<gone, links, inode, data, caller>>

ReadDone(o) ==
  /\ task[o] = "open" /\ ~Writes(o)
  /\ Len(result[o]) >= Len(data[handle[o]])
  /\ EndTask(o, "done")
  /\ UNCHANGED <<gone, links, inode, data, caller>>

-----------------------------------------------------------------------------
Advance(o) ==
  Probe(o) \/ Resolve(o) \/ Refused(o) \/ GrantParent(o) \/ GrantAction(o) \/ Finish(o)

Work(o) ==
  \/ TaskFails(o)
  \/ OpenRead(o) \/ ReadPiece(o) \/ ReadDone(o)
  \/ OpenWrite(o) \/ WritePiece(o) \/ WriteDone(o)

Next ==
  \/ \E o \in Op : Start(o) \/ Advance(o) \/ Drop(o) \/ Work(o)
  \/ \E p \in Path : RemoveFile(p)
  \/ RemoveRoot
  \/ \E l \in Link : MakeLink(l[1], l[2])

Safety == Init /\ [][Next]_vars

(* The executor polls the calls, policies answer, the blocking pool has a  *)
(* thread for every task.                                                  *)
Spec == Safety /\ \A o \in Op : WF_vars(Advance(o)) /\ WF_vars(Work(o))

-----------------------------------------------------------------------------
(* Properties *)

Authors(s) == {s[i][1] : i \in DOMAIN s} \ {NoOp}
Permitted(o) == UnderRoot(target[o]) /\ Held(o) /\ Covered(request[o].kind, target[o])

(* The grant is of a path, and the access may be elsewhere: where another  *)
(* program made the path a link since, and where a write was granted the   *)
(* path of a link that did not lead to anything when it was probed.        *)
Strayed(o) == o \in relinked \/ (o \in unfollowed /\ Writes(o) /\ ~existed[o])

(* Whatever names lead where and whatever happens between the grants and   *)
(* the access: what is in a file was written, what is open is used and     *)
(* what was read was left by operations that were granted the path, but    *)
(* for those that strayed; and these were granted another in the root.     *)
AccessAsGranted ==
  /\ \A p \in Path : inode[p] # 0 =>
       /\ \A w \in Authors(data[inode[p]]) :
            Writes(w) /\ Permitted(w) /\ (target[w] = p \/ Strayed(w))
       /\ \A o \in Op : handle[o] = inode[p] =>
            Permitted(o) /\ (target[o] = p \/ Strayed(o))
  /\ \A o \in Op : result[o] # <<>> =>
       /\ Permitted(o)
       /\ \A w \in Authors(result[o]) :
            Permitted(w) /\ (target[w] = target[o] \/ Strayed(w) \/ Strayed(o))

Content(o) == [i \in 1..request[o].size |-> <<o, i>>]
Whole(w, s) == w \in Authors(s) /\ task[w] = "done" /\ w \notin overlapped => s = Content(w)

(* A completed write that overlapped no other write of its file is there   *)
(* whole, and without a rest of what was there before, or it is gone.      *)
WritesIntact == \A n \in Inode : \A w \in Op : Whole(w, data[n])

(* A read that no write overlapped shows the state some write left: whole  *)
(* where that write is, and all of what was there before where none was.   *)
ReadsIntact ==
  \A o \in Op : task[o] = "done" /\ ~Writes(o) /\ o \notin overlapped =>
    /\ \A w \in Op : Whole(w, result[o])
    /\ Old[1] \in ToSet(result[o]) => result[o] = Old

(* Overlapping operations may mix, but no piece ever moves: what stands at *)
(* a place was written for that place.                                     *)
PiecesKeepTheirPlace ==
  \A s \in {data[n] : n \in Inode} \cup {result[o] : o \in Op} :
    \A i \in DOMAIN s : s[i] # Hole => s[i][2] = i

(* Every operation is answered or dropped, and the access it started ends, *)
(* also when nobody waits for it any more.                                 *)
OperationsEnd ==
  \A o \in Op : pc[o] \in Pending ~> pc[o] \in Final /\ task[o] \notin {"queued", "open"}

(* What the expect of FsAccess::new claims ("tool context workspace root   *)
(* is canonical"): the root resolved when the context was made still does. *)
RootStaysCanonical == \A o \in Op : pc[o] # "panicked"
=============================================================================
