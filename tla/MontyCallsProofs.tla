-------------------------- MODULE MontyCallsProofs --------------------------
(***************************************************************************)
(* Proofs about MontyCalls, for any code, any tools it is given and any    *)
(* conversions of values.                                                  *)
(***************************************************************************)
EXTENDS MontyCalls, TLAPS

(* What the outcome of a tool may be: a class the host has, and files that *)
(* are texts still.                                                        *)
Sound(outcome) == outcome.class \in Class /\ outcome.files \in [File -> Text]

(* A write shows in the answer, which is how WritesReported knows of it.   *)
Shown(text, outcome, p) ==
  /\ IsStr(text)
  /\ \/ /\ outcome.files[p] = text[2]
        /\ outcome.json \in
             {<<"object", [ok |-> <<"bool", TRUE>>]>>, <<"int", Chars[outcome.files[p]]>>}
     \/ outcome.files[p] \in Cut[text[2]] /\ outcome.json = Error

ShowsWrite(path, payload, outcome) ==
  \A p \in File : outcome.files[p] # files[p] =>
    Shown(TextOf(Program[path[2]], payload), outcome, p)

LEMMA OneWrite ==
  ASSUME files \in [File -> Text], NEW path, NEW text, NEW json,
         NEW outcome \in Written(path, text, json)
  PROVE  /\ path \in File /\ text \in Text
         /\ outcome.class = Public /\ outcome.files \in [File -> Text]
         /\ \A p \in File : outcome.files[p] # files[p] => p = path
         /\ \/ outcome.json = json /\ outcome.files[path] = text
            \/ outcome.json = Error /\ outcome.files[path] \in Cut[text]
<1>1. path \in File /\ text \in Text
  BY DEF Written
<1>2. Cut[text] \subseteq Text
  BY <1>1, CallsAssumption
<1>3. PICK t \in Text :
        /\ \/ t = text /\ outcome = Outcome(json, Public, [files EXCEPT ![path] = t])
           \/ t \in Cut[text] /\ outcome = Outcome(Error, Public, [files EXCEPT ![path] = t])
  BY <1>1, <1>2 DEF Written
<1> DEFINE fs == [files EXCEPT ![path] = t]
<1>4. fs \in [File -> Text] /\ fs[path] = t /\ \A p \in File : fs[p] # files[p] => p = path
  BY <1>1
<1> HIDE DEF fs
<1>5. outcome.files = fs /\ outcome.class = Public
  <2>1. outcome = Outcome(json, Public, fs) \/ outcome = Outcome(Error, Public, fs)
    BY <1>3 DEF fs
  <2>2. ASSUME NEW j, outcome = Outcome(j, Public, fs)
        PROVE  outcome.files = fs /\ outcome.class = Public
    BY <2>2 DEF Outcome
  <2> QED BY <2>1, <2>2
<1>6. (t = text /\ outcome.json = json) \/ (t \in Cut[text] /\ outcome.json = Error)
  BY <1>3 DEF Outcome
<1> QED BY <1>1, <1>4, <1>5, <1>6

LEMMA ToolOutcome ==
  ASSUME files \in [File -> Text], NEW path, NEW payload, NEW outcome \in Invoked(path, payload)
  PROVE  Sound(outcome) /\ ShowsWrite(path, payload, outcome)
<1> USE DEF Outcome
<1>c. Public \in Class /\ WorkspaceLocal \in Class
  BY CallsAssumption
<1>1. CASE outcome = Failure
  BY <1>1, <1>c DEF Failure, Sound, ShowsWrite
<1>2. CASE outcome # Failure
  <2>1. path[2] \in DOMAIN Program /\ outcome \in Done(Program[path[2]], payload)
    BY <1>2 DEF Invoked
  <2> DEFINE program == Program[path[2]]
  <2>2. program \in {"read_file", "write_file", "monty_os", "custom"}
    BY <2>1, CallsAssumption
  <2> HIDE DEF program
  <2>3. ASSUME program = "read_file" PROVE Sound(outcome) /\ ShowsWrite(path, payload, outcome)
    <3>1. outcome \in ReadFile(payload)
      BY <2>1, <2>3 DEF Done, program
    <3>2. outcome.class = WorkspaceLocal /\ outcome.files = files
      BY <3>1 DEF ReadFile
    <3> QED BY <1>c, <3>2 DEF Sound, ShowsWrite
  <2>4. ASSUME program = "write_file" PROVE Sound(outcome) /\ ShowsWrite(path, payload, outcome)
    <3>1. outcome \in WriteFile(payload)
      BY <2>1, <2>4 DEF Done, program
    <3> DEFINE q == Field(payload, "path")[2]
               text == Field(payload, "content")
               ok == <<"object", [ok |-> <<"bool", TRUE>>]>>
    <3>2. IsStr(text) /\ outcome \in Written(q, text[2], ok)
      BY <3>1 DEF WriteFile
    <3> HIDE DEF q, ok
    <3>3. TextOf(Program[path[2]], payload) = text
      BY <2>4 DEF TextOf, program
    <3> HIDE DEF text
    <3>4. /\ outcome.class = Public /\ outcome.files \in [File -> Text]
          /\ \A p \in File : outcome.files[p] # files[p] => p = q
          /\ \/ outcome.json = ok /\ outcome.files[q] = text[2]
             \/ outcome.json = Error /\ outcome.files[q] \in Cut[text[2]]
      BY <3>2, OneWrite
    <3>5. \A p \in File : outcome.files[p] # files[p] => Shown(text, outcome, p)
      BY <3>2, <3>4 DEF Shown, ok
    <3> QED BY <1>c, <3>3, <3>4, <3>5 DEF Sound, ShowsWrite
  <2>5. ASSUME program = "monty_os" PROVE Sound(outcome) /\ ShowsWrite(path, payload, outcome)
    <3>1. outcome \in OsReadText(payload) \cup OsWriteText(payload)
      BY <2>1, <2>5 DEF Done, MontyOs, program
    <3>2. CASE outcome \in OsReadText(payload)
      <4>1. outcome.class = WorkspaceLocal /\ outcome.files = files
        BY <3>2 DEF OsReadText
      <4> QED BY <1>c, <4>1 DEF Sound, ShowsWrite
    <3>3. CASE outcome \in OsWriteText(payload)
      <4> DEFINE q == OsArg(payload, 1)[2]
                 text == OsArg(payload, 2)
                 n == <<"int", Chars[text[2]]>>
      <4>1. IsStr(text) /\ outcome \in Written(q, text[2], n)
        BY <3>3 DEF OsWriteText
      <4> HIDE DEF q, n
      <4>2. TextOf(Program[path[2]], payload) = text
        BY <2>5 DEF TextOf, program
      <4> HIDE DEF text
      <4>3. /\ outcome.class = Public /\ outcome.files \in [File -> Text]
            /\ \A p \in File : outcome.files[p] # files[p] => p = q
            /\ \/ outcome.json = n /\ outcome.files[q] = text[2]
               \/ outcome.json = Error /\ outcome.files[q] \in Cut[text[2]]
        BY <4>1, OneWrite
      <4>4. \A p \in File : outcome.files[p] # files[p] => Shown(text, outcome, p)
        BY <4>1, <4>3 DEF Shown, n
      <4> QED BY <1>c, <4>2, <4>3, <4>4 DEF Sound, ShowsWrite
    <3> QED BY <3>1, <3>2, <3>3
  <2>6. ASSUME program = "custom" PROVE Sound(outcome) /\ ShowsWrite(path, payload, outcome)
    <3>1. outcome \in Custom
      BY <2>1, <2>6 DEF Done, program
    <3>2. outcome.class \in Class /\ outcome.files = files
      BY <3>1 DEF Custom
    <3> QED BY <3>2 DEF Sound, ShowsWrite
  <2> QED BY <2>2, <2>3, <2>4, <2>5, <2>6
<1> QED BY <1>1, <1>2

-----------------------------------------------------------------------------
(* Every call of a tool, by a name or by the OS *)
ToolCall ==
  \E path, payload : \E outcome \in Invoked(path, payload) : Resume(path, payload, outcome)

Dropped == \E path, payload : \E outcome \in Invoked(path, payload) : Detach(outcome)

(* A step calls a tool, or is one of the others. *)
LEMMA NextKinds ==
  ASSUME Next
  PROVE  \/ ToolCall \/ Dropped \/ Begin \/ Abandon
         \/ \E n \in Name : NameLookup(n)
         \/ \E obj \in Object : Complete(obj)
         \/ \E p \in File : GoOn(p)
  BY DEF Next, ToolCall, Dropped, FunctionCall, OsCall

(* A value is explained once a run as sensitive as it was saved.  A run    *)
(* starts as public with the values of its session, so a value it holds is *)
(* explained already, or no more sensitive than the run by now.            *)
Explained(v) == v.class <= savedClass /\ (v.class <= reportedClass \/ unreported)

CallsInv ==
  /\ files \in [File -> Text]
  /\ class \in Class /\ savedClass \in Class /\ reportedClass \in Class
  /\ unreported \in BOOLEAN
  /\ \A v \in held : v.class \in Class /\ (v.class <= class \/ Explained(v))
  /\ \A v \in session : v.class \in Class /\ Explained(v)

LEMMA ClassIsNat == Class \subseteq Nat /\ Public \in Class /\ Public = 0
BY CallsAssumption DEF Public

LEMMA InitCallsInv == Init => CallsInv
BY ClassIsNat DEF Init, CallsInv

LEMMA NextCallsInv == CallsInv /\ [Next]_vars => CallsInv'
<1> SUFFICES ASSUME CallsInv, [Next]_vars PROVE CallsInv'
  OBVIOUS
<1> USE ClassIsNat
<1>1. CASE UNCHANGED vars
  BY <1>1 DEF CallsInv, Explained, vars, run, history
<1>2. ASSUME ToolCall PROVE CallsInv'
  <2>1. PICK path, payload : \E outcome \in Invoked(path, payload) : Resume(path, payload, outcome)
    BY <1>2 DEF ToolCall
  <2>2. PICK outcome \in Invoked(path, payload) : Resume(path, payload, outcome)
    BY <2>1
  <2>3. Sound(outcome)
    BY <2>2, ToolOutcome DEF CallsInv
  <2>4. UNCHANGED <<session, history>> /\ files' = outcome.files
    BY <2>2 DEF Resume
  <2>5. CASE outcome.json = Error
    BY <2>2, <2>3, <2>4, <2>5 DEF CallsInv, Explained, Sound, Resume, history
  <2>6. CASE outcome.json # Error
    <3> DEFINE w == Value(ToMonty(outcome.json), outcome.json, outcome.class)
    <3>1. class' = Merge(outcome.class) /\ held' = held \cup {w}
      BY <2>2, <2>6 DEF Resume
    <3>2. w.class = outcome.class
      BY DEF Value
    <3> HIDE DEF w
    <3>3. class' \in Class /\ class <= class' /\ outcome.class <= class'
      BY <2>3, <3>1 DEF Merge, Sound, CallsInv
    <3>4. ASSUME NEW v \in held' PROVE v.class \in Class /\ (v.class <= class' \/ Explained(v)')
      <4>1. CASE v = w
        BY <2>3, <3>2, <3>3, <4>1 DEF Sound
      <4>2. CASE v \in held
        <5>1. v.class \in Class /\ (v.class <= class \/ Explained(v))
          BY <4>2 DEF CallsInv
        <5>2. Explained(v)' <=> Explained(v)
          BY <2>4 DEF Explained, history
        <5> DEFINE c == v.class
        <5>3. c \in Nat /\ class \in Nat /\ class' \in Nat /\ class <= class'
          BY <3>3, <5>1 DEF CallsInv
        <5> HIDE DEF c
        <5>4. c <= class => c <= class'
          BY <5>3
        <5> QED BY <5>1, <5>2, <5>4 DEF c
      <4> QED BY <3>1, <4>1, <4>2
    <3> QED BY <2>3, <2>4, <3>3, <3>4 DEF CallsInv, Explained, Sound, history
  <2> QED BY <2>5, <2>6
<1>3. ASSUME Begin PROVE CallsInv'
  BY <1>3 DEF Begin, CallsInv, Explained, history
<1>4. ASSUME Abandon PROVE CallsInv'
  BY <1>4 DEF Abandon, CallsInv, Explained, history
<1>5. ASSUME NEW n \in Name, NameLookup(n) PROVE CallsInv'
  <2> DEFINE w == Value(<<"function", n>>, Error, Public)
  <2>1. held' = held \cup {w} /\ UNCHANGED <<files, session, class, history>>
    BY <1>5 DEF NameLookup
  <2>2. w.class = 0
    BY DEF Value
  <2> HIDE DEF w
  <2>3. ASSUME NEW v \in held' PROVE v.class \in Class /\ (v.class <= class' \/ Explained(v)')
    <3>1. CASE v = w
      <4>1. v.class = 0 /\ 0 \in Class
        BY <2>2, <3>1
      <4>2. class' \in Nat
        BY <2>1 DEF CallsInv
      <4> QED BY <4>1, <4>2
    <3>2. CASE v \in held
      BY <2>1, <3>2 DEF CallsInv, Explained, history
    <3> QED BY <2>1, <3>1, <3>2
  <2> QED BY <2>1, <2>3 DEF CallsInv, Explained, history
<1>6. ASSUME NEW obj \in Object, Complete(obj) PROVE CallsInv'
  <2>1. /\ session' = held /\ held' = {} /\ class' = Public /\ UNCHANGED files
        /\ savedClass' = Max2(savedClass, class)
        /\ \/ unreported' = TRUE /\ UNCHANGED reportedClass
           \/ reportedClass' = Max2(reportedClass, class) /\ UNCHANGED unreported
    BY <1>6 DEF Complete
  <2>2. /\ savedClass' \in Class /\ class <= savedClass' /\ savedClass <= savedClass'
        /\ reportedClass' \in Class /\ reportedClass <= reportedClass'
        /\ class <= reportedClass' \/ unreported'
        /\ unreported' \in BOOLEAN
        /\ unreported => unreported'
    <3>1. class \in Class /\ savedClass \in Class /\ reportedClass \in Class
      BY DEF CallsInv
    <3>2. savedClass' \in Class /\ class <= savedClass' /\ savedClass <= savedClass'
      BY <2>1, <3>1 DEF Max2
    <3>3. CASE unreported' = TRUE /\ UNCHANGED reportedClass
      BY <3>1, <3>2, <3>3
    <3>4. CASE reportedClass' = Max2(reportedClass, class) /\ UNCHANGED unreported
      <4>1. /\ reportedClass' \in Class /\ reportedClass <= reportedClass'
            /\ class <= reportedClass'
        BY <3>1, <3>4 DEF Max2
      <4>2. unreported' \in BOOLEAN /\ unreported' = unreported
        BY <3>4 DEF CallsInv
      <4> QED BY <3>2, <4>1, <4>2
    <3> QED BY <2>1, <3>3, <3>4
  <2>3. ASSUME NEW v \in session' PROVE v.class \in Class /\ Explained(v)'
    <3>1. v.class \in Class /\ (v.class <= class \/ Explained(v))
      BY <2>1 DEF CallsInv
    <3> DEFINE c == v.class
    <3>2. /\ c \in Nat /\ class \in Nat /\ savedClass \in Nat /\ reportedClass \in Nat
          /\ savedClass' \in Nat /\ reportedClass' \in Nat
      BY <2>2, <3>1 DEF CallsInv
    <3> HIDE DEF c
    <3>3. CASE c <= class
      <4>1. c <= savedClass'
        BY <2>2, <3>2, <3>3
      <4>2. c <= reportedClass' \/ unreported'
        BY <2>2, <3>2, <3>3
      <4> QED BY <3>1, <4>1, <4>2 DEF Explained, c
    <3>4. CASE Explained(v)
      <4>1. c <= savedClass'
        BY <2>2, <3>2, <3>4 DEF Explained, c
      <4>2. c <= reportedClass' \/ unreported'
        BY <2>2, <3>2, <3>4 DEF Explained, c
      <4> QED BY <3>1, <4>1, <4>2 DEF Explained, c
    <3> QED BY <3>1, <3>3, <3>4 DEF c
  <2> QED BY <2>1, <2>2, <2>3 DEF CallsInv, Explained
<1>7. ASSUME Dropped PROVE CallsInv'
  <2>1. held' = {} /\ class' = Public /\ UNCHANGED <<files, session, history>>
    BY <1>7 DEF Dropped, Detach
  <2> QED BY <2>1 DEF CallsInv, Explained, history
<1>8. ASSUME NEW p \in File, GoOn(p) PROVE CallsInv'
  <2>1. files' \in [File -> Text] /\ UNCHANGED <<session, held, class, history>>
    BY <1>8 DEF GoOn, run, CallsInv
  <2> QED BY <2>1 DEF CallsInv, Explained, history
<1> QED BY <1>1, <1>2, <1>3, <1>4, <1>5, <1>6, <1>7, <1>8, NextKinds

LEMMA CallsInvHolds == Spec => []CallsInv
<1> QED BY InitCallsInv, NextCallsInv, PTL DEF Spec

(* Runs start as public and a session keeps no class (tool-monty execute   *)
(* and drive): for any code, tools and values, everything a session holds  *)
(* came with a saved run at least as sensitive, and the caller of one was  *)
(* told so, unless the value of a saved run did not convert.               *)
THEOREM SessionsExplained == Spec => []SessionExplained
<1>1. CallsInv => SessionExplained
  BY DEF CallsInv, Explained, SessionExplained
<1> QED BY <1>1, CallsInvHolds, PTL

(* However the code reaches a tool that writes, and whatever it passes:    *)
(* but for what dropped runs still write, a file changes only in a step    *)
(* that answers a call with that text, to the whole of it on a success and *)
(* to less on an error.  The file tools and MontyOsTool check all their    *)
(* arguments before they write, so what they refuse changed nothing.       *)
THEOREM NoSilentWrite == Spec => WritesReported
<1> DEFINE Told(p) ==
             files'[p] # files[p] =>
               /\ IsStr(sent')
               /\ \/ /\ files'[p] = sent'[2]
                     /\ told' \in {<<"object", [ok |-> <<"bool", TRUE>>]>>,
                                  <<"int", Chars[files'[p]]>>}
                  \/ files'[p] \in Cut[sent'[2]] /\ told' = Error
<1>1. ASSUME CallsInv, Next, NEW p \in File \ detached PROVE Told(p)
  <2>1. CASE ToolCall
    <3>1. PICK path, payload : \E outcome \in Invoked(path, payload) : Resume(path, payload, outcome)
      BY <2>1 DEF ToolCall
    <3>2. PICK outcome \in Invoked(path, payload) : Resume(path, payload, outcome)
      BY <3>1
    <3> DEFINE text == TextOf(Program[path[2]], payload)
    <3>3. outcome.files[p] # files[p] => Shown(text, outcome, p)
      BY <1>1, <3>2, ToolOutcome DEF CallsInv, ShowsWrite
    <3>4. /\ files' = outcome.files /\ told' = outcome.json
          /\ outcome.files # files => sent' = text
      BY <3>2 DEF Resume
    <3> HIDE DEF text
    <3> QED BY <3>3, <3>4 DEF Shown
  <2>2. CASE UNCHANGED files
    BY <2>2
  <2>3. ASSUME NEW q \in File, GoOn(q) PROVE Told(p)
    <3>1. q \in detached /\ \E t \in Text : files' = [files EXCEPT ![q] = t]
      BY <2>3 DEF GoOn
    <3>2. files'[p] = files[p]
      BY <1>1, <3>1 DEF CallsInv
    <3> QED BY <3>2
  <2>4. ToolCall \/ UNCHANGED files \/ \E q \in File : GoOn(q)
    BY <1>1, NextKinds DEF Dropped, Detach, Begin, Abandon, NameLookup, Complete
  <2> QED BY <2>1, <2>2, <2>3, <2>4
<1>2. CallsInv /\ [Next]_vars => [\A p \in File \ detached : Told(p)]_vars
  BY <1>1
<1> QED BY <1>2, CallsInvHolds, PTL DEF Spec, WritesReported

-----------------------------------------------------------------------------
(* Payloads *)

LEMMA ListOfOne ==
  ASSUME NEW x, ListToJson(<<x>>) # Error
  PROVE  ListToJson(<<x>>) = <<"array", <<ToJson(x)>>>>
<1>1. [i \in DOMAIN <<x>> |-> ToJson(<<x>>[i])] = <<ToJson(x)>>
  OBVIOUS
<1> QED BY <1>1 DEF ListToJson, Collected

(* monty_tool_payload, of any arguments: the one of a single argument is   *)
(* that argument; every other names both parts of the call.                *)
LEMMA PayloadShape ==
  ASSUME NEW args, args = <<>> \/ (\E x : args = <<x>>) \/ (\E x, y : args = <<x, y>>),
         NEW kwargs, ToolPayload(args, kwargs) # Error
  PROVE  \/ \E x : /\ args = <<x>> /\ kwargs = {}
                   /\ ListToJson(args) = <<"array", <<ToJson(x)>>>>
                   /\ ToolPayload(args, kwargs) = ToJson(x)
                   /\ ToJson(x)[1] = "object"
         \/ ToolPayload(args, kwargs) =
              <<"object", [args |-> ListToJson(args), kwargs |-> ToFields(kwargs)]>>
<1> DEFINE list == ListToJson(args)
<1>1. list # Error /\ ToFields(kwargs) # Error
  BY DEF ToolPayload
<1>2. CASE kwargs = {} /\ Len(args) = 1 /\ list[2][1][1] = "object"
  <2>1. PICK x : args = <<x>>
    BY <1>2
  <2>2. list = <<"array", <<ToJson(x)>>>>
    BY <1>1, <2>1, ListOfOne
  <2>3. ToolPayload(args, kwargs) = list[2][1]
    BY <1>1, <1>2 DEF ToolPayload
  <2> HIDE DEF list
  <2>4. list[2][1] = ToJson(x)
    BY <2>2
  <2> QED BY <1>2, <2>1, <2>2, <2>3, <2>4 DEF list
<1>3. CASE ~(kwargs = {} /\ Len(args) = 1 /\ list[2][1][1] = "object")
  BY <1>1, <1>3 DEF ToolPayload
<1> QED BY <1>2, <1>3

LEMMA PositionalArguments ==
  ASSUME NEW args \in Positional
  PROVE  args = <<>> \/ (\E x : args = <<x>>) \/ (\E x, y : args = <<x, y>>)
  BY DEF Positional

(* Whatever conversions do, a tool reads off its payload how the code      *)
(* called it, but for a single dict with the keys of such a payload.       *)
THEOREM PayloadShowsTheCall == Spec => []PayloadsTellCallsApart
<1>1. PayloadsTellCallsApart
  <2> SUFFICES ASSUME NEW a \in Positional, NEW k \in Keyword,
                      ToolPayload(a, k) # Error, ~LooksLikeCall(a, k)
               PROVE  CallOf(ToolPayload(a, k)) =
                        [args |-> ListToJson(a), kwargs |-> ToFields(k)]
    BY DEF PayloadsTellCallsApart
  <2> DEFINE payload == ToolPayload(a, k)
             list == ListToJson(a)
             both == [args |-> list, kwargs |-> ToFields(k)]
  <2>1. CASE payload = <<"object", both>>
    <3>1. payload[1] = "object" /\ DOMAIN payload[2] = {"args", "kwargs"}
      BY <2>1
    <3>2. payload[2].args = list /\ payload[2].kwargs = ToFields(k)
      BY <2>1
    <3> HIDE DEF payload, list
    <3> QED BY <3>1, <3>2 DEF CallOf, payload, list
  <2>2. CASE payload # <<"object", both>>
    <3>1. PICK x : /\ a = <<x>> /\ k = {} /\ list = <<"array", <<ToJson(x)>>>>
                   /\ payload = ToJson(x) /\ payload[1] = "object"
      BY <2>2, PayloadShape, PositionalArguments
    <3>2. DOMAIN payload[2] # {"args", "kwargs"}
      BY <3>1 DEF LooksLikeCall
    <3> HIDE DEF payload, list
    <3>3. CallOf(payload) = [args |-> <<"array", <<payload>>>>, kwargs |-> ToFields({})]
      BY <3>2 DEF CallOf
    <3> QED BY <3>1, <3>3 DEF payload, list
  <2> QED BY <2>1, <2>2
<1> QED BY <1>1, PTL

(* read_file and write_file take an object with a path; exposed to code,   *)
(* they get one only from a call with a single dict.                       *)
THEOREM FilesByOneDict == Spec => []FileToolsTakeOneDict
<1>1. FileToolsTakeOneDict
  <2> SUFFICES ASSUME NEW a \in Positional, NEW k \in Keyword,
                      ToolPayload(a, k) # Error,
                      ReadFile(ToolPayload(a, k)) \cup WriteFile(ToolPayload(a, k)) # {}
               PROVE  k = {} /\ Len(a) = 1
    BY DEF FileToolsTakeOneDict
  <2> DEFINE payload == ToolPayload(a, k)
             both == [args |-> ListToJson(a), kwargs |-> ToFields(k)]
  <2>1. payload # <<"object", both>>
    <3> SUFFICES ASSUME payload = <<"object", both>> PROVE FALSE
      OBVIOUS
    <3>1. DOMAIN payload[2] = {"args", "kwargs"}
      OBVIOUS
    <3>2. Field(payload, "path") = Error
      <4> HIDE DEF payload
      <4> QED BY <3>1 DEF Field
    <3>3. ~IsStr(Field(payload, "path"))
      BY <3>2 DEF IsStr, Error
    <3> HIDE DEF payload
    <3>4. ReadFile(payload) = {} /\ WriteFile(payload) = {}
      BY <3>3 DEF ReadFile, WriteFile
    <3> QED BY <3>4 DEF payload
  <2> QED BY <2>1, PayloadShape, PositionalArguments
<1> QED BY <1>1, PTL
=============================================================================
