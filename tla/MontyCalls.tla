----------------------------- MODULE MontyCalls -----------------------------
(***************************************************************************)
(* What the code of a Monty run can do and what becomes of the values it   *)
(* handles (crates/tool-monty): MontyTool::drive serves name lookups,      *)
(* calls of exposed tools and OS calls; MontyOsTool and the file tools of  *)
(* crates/tool-builtin parse the payload and access the workspace.  Runs   *)
(* of one session follow each other (MontySession has those that overlap)  *)
(* and a run finds the values the previous ones kept.                      *)
(*                                                                         *)
(* The code is arbitrary: it holds literals and results, and calls what it *)
(* likes with them.  An access is refused, or it happens, or a write fails *)
(* half way; what a run was writing when it was dropped goes on without    *)
(* it, and mixes with other writes (FsAccess has how).  The conversions    *)
(* between JSON, which tools speak, and the objects of the interpreter are *)
(* parameters, which MontyValues has; in both a value is its kind and its  *)
(* content.                                                                *)
(***************************************************************************)
EXTENDS Integers, SequencesExt, FiniteSets

CONSTANTS
  ToJson(_),   \* monty_to_json, of an object
  ToFields(_), \* monty_kwargs_to_json, of a set of pairs
  ToMonty(_),  \* json_to_monty
  Exposed,   \* MontyTool.exposed_tools: a function from names to JSON
  OsTool,    \* MontyTool.os_tool
  Program,   \* App.tools: what is registered at each tool path
  Name,      \* names the code may use
  Literal,   \* objects the code can make up
  OsFunction,\* the OS calls the interpreter may emit
  Class,     \* OutputClassification, by classification_rank
  Answer,    \* what tools of the host's own may answer
  Text,      \* contents of files
  Chars,     \* the number of characters of each
  Cut,       \* what may be left of each by a write that fails
  File,      \* path arguments that lead to a file the policies let through
  MaxHeld, MaxRuns \* bounds on the values of a session and on the runs

Public == 0
WorkspaceLocal == 1

ASSUME CallsAssumption ==
  /\ Class \subseteq 0..2 /\ {Public, WorkspaceLocal} \subseteq Class
  /\ \A p \in DOMAIN Program : Program[p] \in {"read_file", "write_file", "monty_os", "custom"}
  /\ DOMAIN Exposed \subseteq Name
  /\ Chars \in [Text -> Nat]
  /\ Cut \in [Text -> SUBSET Text] /\ \A t \in Text : t \notin Cut[t]
  /\ MaxHeld \in Nat /\ MaxRuns \in Nat

Error == <<"error">>

(* An iterator of conversions collected: the first error is the result. *)
Collected(items, kind) == IF Error \in ToSet(items) THEN Error ELSE <<kind, items>>

VARIABLES
  files,     \* the text of each file
  session,   \* the values the saved REPL holds
  pc,        \* "idle" between runs, "driving" in one
  held,      \* the values the REPL of the run holds
  class,     \* the classification drive has accumulated
  runs,      \* runs so far, a bound of the model only
  detached,  \* the files being written for runs that were dropped
  told,      \* history: what the last step answered to the code
  sent,      \* history: the text in the payload, if a file changed
  savedClass,    \* history: the highest classification of a run that was saved
  reportedClass, \* history: the highest classification of a run that was reported
  unreported     \* history: a run was saved and its value did not convert

history == <<savedClass, reportedClass, unreported>>
run == <<session, pc, held, class, runs>>
vars == <<files, run, detached, told, sent, history>>

(* A value, the JSON it came from, and the classification of the outcome   *)
(* it came with.                                                           *)
Value(obj, from, c) == [obj |-> obj, from |-> from, class |-> c]

Init ==
  /\ files \in [File -> Text]
  /\ session = {}
  /\ pc = "idle"
  /\ held = {}
  /\ class = Public
  /\ runs = 0
  /\ detached = {}
  /\ told = Error /\ sent = Error
  /\ savedClass = Public
  /\ reportedClass = Public
  /\ unreported = FALSE

-----------------------------------------------------------------------------
(* The tools: each yields the outcomes it may have besides the refusal.    *)

Outcome(json, c, fs) == [json |-> json, class |-> c, files |-> fs]
Failure == Outcome(Error, Public, files)

Field(payload, k) ==
  IF payload[1] = "object" /\ k \in DOMAIN payload[2] THEN payload[2][k] ELSE Error
IsStr(json) == json[1] = "str"

(* The facade, as FsAccess has it: a write that fails has truncated the    *)
(* file, and may have written some of the text.                            *)
Read(path) == IF path \in File THEN {files[path]} ELSE {}

Written(path, text, json) ==
  IF path \notin File \/ text \notin Text THEN {}
  ELSE {Outcome(json, Public, [files EXCEPT ![path] = text])} \cup
       {Outcome(Error, Public, [files EXCEPT ![path] = t]) : t \in Cut[text]}

(* ReadFileTool *)
ReadFile(payload) ==
  LET path == Field(payload, "path") IN
  IF ~IsStr(path) THEN {}
  ELSE {Outcome(<<"object", [content |-> <<"str", text>>]>>, WorkspaceLocal, files) :
          text \in Read(path[2])}

(* WriteFileTool *)
WriteFile(payload) ==
  LET path == Field(payload, "path")
      content == Field(payload, "content")
  IN  IF ~IsStr(path) \/ ~IsStr(content) THEN {}
      ELSE Written(path[2], content[2], <<"object", [ok |-> <<"bool", TRUE>>]>>)

(* MontyOsTool::parse_input *)
OsInputParses(payload) ==
  /\ IsStr(Field(payload, "function"))
  /\ Field(payload, "args")[1] = "array"
  /\ Field(payload, "kwargs")[1] = "object"

(* os_arg_path, os_arg_str *)
OsArg(payload, i) ==
  LET args == Field(payload, "args")[2] IN IF i \in DOMAIN args THEN args[i] ELSE Error

NoKwargs(payload) == DOMAIN Field(payload, "kwargs")[2] = {}

OsReadText(payload) ==
  IF ~NoKwargs(payload) \/ ~IsStr(OsArg(payload, 1)) THEN {}
  ELSE {Outcome(<<"str", text>>, WorkspaceLocal, files) : text \in Read(OsArg(payload, 1)[2])}

(* Slip: the arguments are checked after the write. *)
OsWriteTextUnchecked(payload) ==
  IF ~IsStr(OsArg(payload, 1)) \/ ~IsStr(OsArg(payload, 2)) THEN {}
  ELSE LET text == OsArg(payload, 2)[2]
       IN  Written(OsArg(payload, 1)[2], text,
                   IF NoKwargs(payload) THEN <<"int", Chars[text]>> ELSE Error)

OsWriteText(payload) ==
  IF ~NoKwargs(payload) \/ ~IsStr(OsArg(payload, 1)) \/ ~IsStr(OsArg(payload, 2)) THEN {}
  ELSE LET text == OsArg(payload, 2)[2]
       IN  Written(OsArg(payload, 1)[2], text, <<"int", Chars[text]>>)

MontyOs(payload) ==
  IF ~OsInputParses(payload) THEN {}
  ELSE CASE Field(payload, "function")[2] = "Path.read_text" -> OsReadText(payload)
         [] Field(payload, "function")[2] = "Path.write_text" -> OsWriteText(payload)
         [] OTHER -> {}

(* A tool of the host's own. *)
Custom == {Outcome(json, c, files) : json \in Answer, c \in Class}

Done(program, payload) ==
  CASE program = "read_file" -> ReadFile(payload)
    [] program = "write_file" -> WriteFile(payload)
    [] program = "monty_os" -> MontyOs(payload)
    [] program = "custom" -> Custom

(* decode_tool_path, and invoke_tool *)
Invoked(path, payload) ==
  {Failure} \cup (IF IsStr(path) /\ path[2] \in DOMAIN Program
                  THEN Done(Program[path[2]], payload) ELSE {})

-----------------------------------------------------------------------------
(* The payload of a call *)

(* monty_list_to_json *)
ListToJson(values) == Collected([i \in DOMAIN values |-> ToJson(values[i])], "array")

(* Slip: keyword arguments alone are the payload too. *)
ToolPayloadByKeywords(args, kwargs) ==
  LET list == ListToJson(args)
      fields == ToFields(kwargs)
  IN  IF list = Error \/ fields = Error THEN Error
      ELSE IF args = <<>> THEN fields
      ELSE IF kwargs = {} /\ Len(args) = 1 /\ list[2][1][1] = "object" THEN list[2][1]
      ELSE <<"object", [args |-> list, kwargs |-> fields]>>

(* Slip: a dict is the payload, and keyword arguments beside it are lost. *)
ToolPayloadDroppingKwargs(args, kwargs) ==
  LET list == ListToJson(args)
      fields == ToFields(kwargs)
  IN  IF list = Error \/ fields = Error THEN Error
      ELSE IF Len(args) = 1 /\ list[2][1][1] = "object" THEN list[2][1]
      ELSE <<"object", [args |-> list, kwargs |-> fields]>>

(* monty_tool_payload: a dict alone is the payload itself. *)
ToolPayload(args, kwargs) ==
  LET list == ListToJson(args)
      fields == ToFields(kwargs)
  IN  IF list = Error \/ fields = Error THEN Error
      ELSE IF kwargs = {} /\ Len(args) = 1 /\ list[2][1][1] = "object" THEN list[2][1]
      ELSE <<"object", [args |-> list, kwargs |-> fields]>>

-----------------------------------------------------------------------------
(* drive *)

Object == Literal \cup {v.obj : v \in held}
Positional == {<<>>} \cup {<<x>> : x \in Object} \cup {<<x, y>> : x, y \in Object}
Keyword == {{}} \cup {{<< <<"str", "path">>, x >>} : x \in Object}

(* Slip: only the last outcome counts. *)
MergeLatest(c) == c

(* merge_classification *)
Merge(c) == IF c > class THEN c ELSE class

(* The text a tool is to write. *)
TextOf(program, payload) ==
  IF program = "monty_os" THEN OsArg(payload, 2) ELSE Field(payload, "content")

(* The result is handed to the code, an error as an exception.             *)
Resume(path, payload, outcome) ==
  /\ files' = outcome.files
  /\ told' = outcome.json
  /\ sent' = IF outcome.files = files THEN Error ELSE TextOf(Program[path[2]], payload)
  /\ IF outcome.json = Error
     THEN UNCHANGED <<held, class>>
     ELSE /\ class' = Merge(outcome.class)
          /\ held' = held \cup
               {Value(ToMonty(outcome.json), outcome.json, outcome.class)}
  /\ UNCHANGED <<session, pc, runs, detached, history>>

(* The run is dropped at the await of a call.  What the call was writing   *)
(* goes on; any state of it may be found from then on.                     *)
Detach(outcome) ==
  /\ pc' = "idle"
  /\ held' = {} /\ class' = Public
  /\ detached' = detached \cup {p \in File : outcome.files[p] # files[p]}
  /\ told' = Error /\ sent' = Error
  /\ UNCHANGED <<files, session, runs, history>>

GoOn(p) ==
  /\ p \in detached
  /\ \E t \in Text : files' = [files EXCEPT ![p] = t]
  /\ detached' \in {detached, detached \ {p}}
  /\ told' = Error /\ sent' = Error
  /\ UNCHANGED <<run, history>>

Driving == pc = "driving" /\ Cardinality(held) < MaxHeld

NameLookup(n) ==
  /\ Driving
  /\ n \in DOMAIN Exposed
  /\ held' = held \cup {Value(<<"function", n>>, Error, Public)}
  /\ told' = Error /\ sent' = Error
  /\ UNCHANGED <<files, session, pc, class, runs, detached, history>>

(* A name that is not exposed, a method, and arguments that do not convert *)
(* reach the code as exceptions and change nothing.                        *)
Payloads == {ToolPayload(args, kwargs) : args \in Positional, kwargs \in Keyword} \ {Error}

FunctionCall(payload) ==
  /\ Driving
  /\ \E n \in DOMAIN Exposed : \E outcome \in Invoked(Exposed[n], payload) :
       Resume(Exposed[n], payload, outcome) \/ Detach(outcome)

(* An OS call has the payload MontyOsTool parses; if its arguments do not  *)
(* convert the run ends.                                                   *)
OsPayload(function, args, kwargs) ==
  LET list == ListToJson(args)
      fields == ToFields(kwargs)
  IN  IF list = Error \/ fields = Error THEN Error
      ELSE <<"object", [function |-> <<"str", function>>, args |-> list, kwargs |-> fields]>>

OsPayloads ==
  {OsPayload(f, args, kwargs) : f \in OsFunction, args \in Positional, kwargs \in Keyword}
    \ {Error}

OsCall(payload) ==
  /\ Driving
  /\ \E outcome \in Invoked(OsTool, payload) :
       Resume(OsTool, payload, outcome) \/ Detach(outcome)

-----------------------------------------------------------------------------
(* execute *)

Begin ==
  /\ pc = "idle"
  /\ runs < MaxRuns
  /\ pc' = "driving"
  /\ held' = session
  /\ class' = Public
  /\ runs' = runs + 1
  /\ UNCHANGED <<files, session, detached, told, sent, history>>

(* The code raises, runs out of its limits, uses a future or makes an OS   *)
(* call that does not convert; or the save is refused.                     *)
Abandon ==
  /\ pc = "driving"
  /\ pc' = "idle"
  /\ held' = {}
  /\ class' = Public
  /\ told' = Error /\ sent' = Error
  /\ UNCHANGED <<files, session, runs, detached, history>>

Max2(a, b) == IF a > b THEN a ELSE b

(* The session is saved before the value is converted: a value that does   *)
(* not convert fails the run all the same.                                 *)
Complete(obj) ==
  /\ pc = "driving"
  /\ session' = held
  /\ savedClass' = Max2(savedClass, class)
  /\ IF ToJson(obj) = Error
     THEN unreported' = TRUE /\ UNCHANGED reportedClass
     ELSE reportedClass' = Max2(reportedClass, class) /\ UNCHANGED unreported
  /\ pc' = "idle"
  /\ held' = {}
  /\ class' = Public
  /\ told' = Error /\ sent' = Error
  /\ UNCHANGED <<files, runs, detached>>

Next ==
  \/ Begin \/ Abandon
  \/ \E n \in Name : NameLookup(n)
  \/ \E payload \in Payloads : FunctionCall(payload)
  \/ \E payload \in OsPayloads : OsCall(payload)
  \/ \E obj \in Object : Complete(obj)
  \/ \E p \in File : GoOn(p)

Spec == Init /\ [][Next]_vars

-----------------------------------------------------------------------------
(* Properties *)

(* What a tool can tell of a call from its payload.                        *)
CallOf(payload) ==
  IF payload[1] = "object" /\ DOMAIN payload[2] = {"args", "kwargs"}
  THEN [args |-> payload[2].args, kwargs |-> payload[2].kwargs]
  ELSE [args |-> <<"array", <<payload>>>>, kwargs |-> ToFields({})]

(* It is how the tool was called, but for one dict that looks like the     *)
(* arguments of another call.                                              *)
LooksLikeCall(args, kwargs) ==
  /\ kwargs = {} /\ Len(args) = 1
  /\ ToJson(args[1])[1] = "object"
  /\ DOMAIN ToJson(args[1])[2] = {"args", "kwargs"}

PayloadsTellCallsApart ==
  \A a \in Positional, k \in Keyword :
    LET payload == ToolPayload(a, k) IN
    payload # Error /\ ~LooksLikeCall(a, k) =>
      CallOf(payload) = [args |-> ListToJson(a), kwargs |-> ToFields(k)]

(* The file tools are reached by a call with one dict only: neither a path *)
(* by position nor one by keyword parses.                                  *)
FileToolsTakeOneDict ==
  \A a \in Positional, k \in Keyword :
    LET payload == ToolPayload(a, k) IN
    payload # Error /\ ReadFile(payload) \cup WriteFile(payload) # {} => k = {} /\ Len(a) = 1

(* But for what dropped runs still write, a file changes only to the text  *)
(* of the call that is answered: to all of it when the code is told of a   *)
(* success, and to less than that when it is told of an error.  What does  *)
(* not parse or does not convert changes nothing.                          *)
WritesReported ==
  [][\A p \in File \ detached : files'[p] # files[p] =>
       /\ IsStr(sent')
       /\ \/ /\ files'[p] = sent'[2]
             /\ told' \in {<<"object", [ok |-> <<"bool", TRUE>>]>>, <<"int", Chars[files'[p]]>>}
          \/ files'[p] \in Cut[sent'[2]] /\ told' = Error]_vars

(* Whatever a session holds, a run that was saved was as sensitive; and    *)
(* some outcome said so, unless the value of a run did not convert.        *)
SessionExplained ==
  \A v \in session :
    /\ v.class <= savedClass
    /\ v.class <= reportedClass \/ unreported
=============================================================================
