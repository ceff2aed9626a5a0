------------------------- MODULE PrinterAdminProofs -------------------------
(***************************************************************************)
(* Proofs about PrinterAdmin, for any set of names, any number of calls    *)
(* and any number of changes by other clients: a call that reports failure *)
(* has done nothing, and a printer that is added alone is provisioned, as  *)
(* the default if and only if it is the only one.                          *)
(*                                                                         *)
(* The properties speak of calls that have returned.  AdminInv says what   *)
(* holds on the way there: which call is at which request, that nothing    *)
(* has changed before the first one, and how far an added printer is.      *)
(***************************************************************************)
EXTENDS PrinterAdmin, TLAPS

\* What each request of a call is part of.
StepsInv ==
    /\ call.step \in {"add", "enable", "accept"} => call.op = "add"
    /\ call.step = "default" => call.op \in {"add", "default"}
    /\ call.step = "delete" => call.op = "remove"
    /\ call.step \in {"setCopies", "setShared", "setInfo", "askClass",
                      "setOption", "setClassOption"} =>
           call.op \in {"copies", "shared", "info", "option", "pageSize"}
    /\ call.step \in {"setEnabled", "refresh", "setAccepting"} =>
           call.op \in {"enabled", "accepting", "pageSize"}
    /\ call.step # "returned" => call.name \in Name /\ call.returned

\* The steps of the setters of Printer, which are called for a row; rows do not
\* change while a call is under way.
SetterSteps == {"setEnabled", "refresh", "setAccepting", "setCopies",
                "setShared", "setInfo", "askClass", "setOption",
                "setClassOption"}
ListedInv ==
    call.step \in SetterSteps => row[call.name] # Absent

\* A failure is reported by the first request or not at all.
FailureInv ==
    /\ call.step \in {"add", "delete"} => ~call.changed
    /\ FailureChangedNothing

\* How far a printer is that was added with nobody interfering.
AddedInv ==
    call.op = "add" /\ call.clean =>
        /\ call.name \in Name
        /\ call.step # "add" => queue[call.name] # Absent
        /\ call.step \in {"accept", "default", "returned"} =>
               queue[call.name].enabled
        /\ call.step \in {"default", "returned"} =>
               queue[call.name].accepting
        /\ call.step = "returned" /\ call.asDefault => dflt = call.name

\* The list is empty while asDefault holds, and CUPS has nothing but what the
\* call added.
OnlyInv ==
    call.op = "add" /\ call.clean /\ call.inStep /\ call.asDefault =>
        \A n \in Name : queue[n] # Absent =>
            n = call.name /\ call.step # "add"

Control == StepsInv /\ ListedInv /\ FailureInv /\ AddedInv /\ OnlyInv
AdminInv == TypeOK /\ Control

-----------------------------------------------------------------------------
(* Types.                                                                  *)

LEMMA BareIsSettings == Bare \in Settings
BY AdminAssumption DEF Bare, Settings, Copies

\* The settings a request may leave a printer with.
LEMMA SettingsChange ==
    ASSUME NEW s \in Settings, NEW value \in BOOLEAN, NEW copies \in Copies
    PROVE  /\ [s EXCEPT !.enabled = value] \in Settings
           /\ [s EXCEPT !.accepting = value] \in Settings
           /\ [s EXCEPT !.shared = value] \in Settings
           /\ [s EXCEPT !.copies = copies] \in Settings
BY DEF Settings

\* A printer another client made.
LEMMA OpenIsSettings == [Bare EXCEPT !.enabled = TRUE, !.accepting = TRUE] \in Settings
BY BareIsSettings DEF Settings

LEMMA ModifiedIsSettings ==
    ASSUME TypeOK, NEW n \in Name
    PROVE  Modified(n) \in Settings
BY BareIsSettings DEF TypeOK, Modified

LEMMA TypeInit == Init => TypeOK
<1> SUFFICES ASSUME Init PROVE TypeOK
  OBVIOUS
<1>1. call \in Call
  BY AdminAssumption DEF Init, Call, Step, Answer, Copies
<1>2. queue \in [Name -> Settings \cup {Absent}]
  BY OpenIsSettings DEF Init
<1>3. dflt \in Name \cup {NoName}
  BY DEF Init, Present
<1>4. calls \in 0..MaxCalls /\ others \in 0..MaxOthers
  BY AdminAssumption DEF Init
<1> QED
  BY <1>1, <1>2, <1>3, <1>4 DEF Init, TypeOK, Message

\* What a call is when it begins.
LEMMA BeginTypes ==
    ASSUME TypeOK,
           NEW op \in {"none", "add", "remove", "default", "enabled",
                       "accepting", "copies", "shared", "info", "option",
                       "pageSize"},
           NEW n \in Name \cup {BadName}, NEW step \in Step,
           NEW value \in BOOLEAN, NEW copies \in Copies,
           Begin(op, n, step, value, copies)
    PROVE  TypeOK'
<1>0. InStep \in BOOLEAN /\ NoneListed \in BOOLEAN
  BY DEF InStep, NoneListed
<1>1. call' \in Call
  BY <1>0 DEF Begin, Call, Answer
<1>2. calls' \in 0..MaxCalls
  BY AdminAssumption DEF Begin, TypeOK
<1> QED
  BY <1>1, <1>2 DEF Begin, TypeOK

LEMMA ObjectTypes ==
    ASSUME TypeOK,
           NEW op \in {"add", "remove", "default"},
           NEW n \in Name \cup {BadName}, NEW complaint \in Message,
           Object(op, n, complaint)
    PROVE  TypeOK'
<1>1. call' \in Call
  BY AdminAssumption DEF Object, Call, Step, Answer, Copies
<1>2. calls' \in 0..MaxCalls
  BY AdminAssumption DEF Object, TypeOK
<1> QED
  BY <1>1, <1>2 DEF Object, TypeOK, Message

LEMMA CallTypes ==
    ASSUME TypeOK, CallNext
    PROVE  TypeOK'
<1> USE DEF Step
<1>0. 1 \in Copies
  BY AdminAssumption DEF Copies
<1>1. ASSUME NEW n \in Name \cup {BadName},
             NEW text \in {GoodText, BadText}, AddPrinter(n, text)
      PROVE  TypeOK'
  BY <1>0, <1>1, BeginTypes, ObjectTypes DEF AddPrinter, Message
<1>2. ASSUME NEW n \in Name \cup {BadName}, RemovePrinter(n)
      PROVE  TypeOK'
  <2>1. status \in Message
    BY DEF TypeOK
  <2> QED
    BY <1>0, <1>2, <2>1, BeginTypes, ObjectTypes DEF RemovePrinter
<1>3. ASSUME NEW n \in Name \cup {BadName}, SetDefaultPrinterName(n)
      PROVE  TypeOK'
  <2>1. status \in Message
    BY DEF TypeOK
  <2> QED
    BY <1>0, <1>3, <2>1, BeginTypes, ObjectTypes DEF SetDefaultPrinterName
<1>4. ASSUME NEW n \in Name, NEW value \in BOOLEAN,
             SetEnabled(n, value) \/ SetAcceptJobs(n, value)
                \/ SetShared(n, value)
      PROVE  TypeOK'
  BY <1>0, <1>4, BeginTypes DEF SetEnabled, SetAcceptJobs, SetShared
<1>5. ASSUME NEW n \in Name, NEW copies \in Copies, SetCopies(n, copies)
      PROVE  TypeOK'
  BY <1>5, BeginTypes DEF SetCopies
<1>6. ASSUME NEW n \in Name,
             SetDescription(n)
                \/ \E op \in {"option", "pageSize"} : SetDefaultOption(n, op)
      PROVE  TypeOK'
  BY <1>0, <1>6, BeginTypes DEF SetDescription, SetDefaultOption
<1> QED
  BY <1>1, <1>2, <1>3, <1>4, <1>5, <1>6 DEF CallNext

\* CUPS's part of TypeOK, and what it is after a request.
ServerOK == queue \in [Name -> Settings \cup {Absent}] /\ dflt \in Name \cup {NoName}

LEMMA AddModifyTypes ==
    ASSUME TypeOK, NEW n \in Name, NEW s \in Settings, AddModify(n, s)
    PROVE  ServerOK'
BY DEF AddModify, TypeOK, ServerOK

LEMMA ChangeTypes ==
    ASSUME TypeOK, NEW n \in Name, NEW value \in BOOLEAN,
           \/ Change(n, [queue[n] EXCEPT !.enabled = value])
           \/ Change(n, [queue[n] EXCEPT !.accepting = value])
    PROVE  ServerOK'
<1>1. queue[n] \in Settings
  BY DEF TypeOK, Change
<1>2. /\ [queue[n] EXCEPT !.enabled = value] \in Settings
      /\ [queue[n] EXCEPT !.accepting = value] \in Settings
  BY <1>1 DEF Settings
<1> QED
  BY <1>2, AddModifyTypes DEF Change

LEMMA RefuseTypes == TypeOK /\ Refuse => ServerOK'
BY DEF Refuse, TypeOK, ServerOK

LEMMA ProceedTypes ==
    ASSUME TypeOK, NEW step \in Step, NEW answer \in Answer,
           Proceed(step, answer), ServerOK'
    PROVE  TypeOK'
<1>1. call' \in Call
  BY DEF Proceed, TypeOK, Call
<1> QED
  BY <1>1 DEF Proceed, TypeOK, ServerOK

LEMMA FinishTypes ==
    ASSUME TypeOK, NEW answer \in Answer, Finish(answer), ServerOK'
    PROVE  TypeOK'
<1>1. call' \in Call
  <2>1. "returned" \in Step
    BY DEF Step
  <2>2. CASE Reply(answer) = NoMessage
    BY <2>1, <2>2 DEF Finish, TypeOK, Call
  <2>3. CASE Reply(answer) # NoMessage
    BY <2>1, <2>3 DEF Finish, TypeOK, Call
  <2> QED
    BY <2>2, <2>3
<1>2. message' \in Message
  BY DEF Finish, TypeOK, Reply, Message
<1> QED
  BY <1>1, <1>2 DEF Finish, TypeOK, ServerOK

\* RequestAdd goes on as Proceed does, and keeps what CUPS answered.
LEMMA RequestAddTypes ==
    ASSUME TypeOK, StepsInv, NEW answer \in Answer, RequestAdd(answer)
    PROVE  TypeOK'
<1>1. call.name \in Name
  BY DEF StepsInv, RequestAdd
<1>2. ServerOK'
  BY <1>1, AddModifyTypes, RefuseTypes, ModifiedIsSettings DEF RequestAdd
<1>3. CASE Reply(answer) = NoMessage
  <2> "enable" \in Step
    BY DEF Step
  <2>0. call' = [call EXCEPT !.step = "enable", !.answer = answer,
                             !.clean = @ /\ answer = "ok",
                             !.changed = @ \/ answer # "refused"]
    BY <1>3 DEF RequestAdd
  <2>1. call' \in Call
    BY <2>0 DEF TypeOK, Call
  <2> QED
    BY <1>2, <1>3, <2>1 DEF RequestAdd, TypeOK, ServerOK
<1>4. CASE Reply(answer) # NoMessage
  BY <1>2, <1>4, FinishTypes DEF RequestAdd
<1> QED
  BY <1>3, <1>4

LEMMA RequestDefaultTypes ==
    ASSUME TypeOK, StepsInv, NEW answer \in Answer, RequestDefault(answer)
    PROVE  TypeOK'
<1>1. call.name \in Name
  BY DEF StepsInv, RequestDefault
<1>2. ServerOK'
  BY <1>1, RefuseTypes DEF RequestDefault, SetDefault, TypeOK, ServerOK
<1>3. call' \in Call
  <2>1. "returned" \in Step
    BY DEF Step
  <2>2. call' = [call EXCEPT !.step = "returned",
                             !.clean = @ /\ answer = "ok",
                             !.changed = @ \/ answer # "refused"]
    BY DEF RequestDefault
  <2> QED
    BY <2>1, <2>2 DEF TypeOK, Call
<1>4. message' \in Message
  BY DEF RequestDefault, TypeOK, Reply, Message
<1> QED
  BY <1>2, <1>3, <1>4 DEF RequestDefault, TypeOK, ServerOK

LEMMA RequestDeleteTypes ==
    ASSUME TypeOK, StepsInv, NEW answer \in Answer, RequestDelete(answer)
    PROVE  TypeOK'
<1>1. ServerOK'
  BY RefuseTypes DEF RequestDelete, Delete, TypeOK, ServerOK
<1> QED
  BY <1>1, FinishTypes DEF RequestDelete

\* The requests that switch a printer on or off, or its jobs.
LEMMA SwitchTypes ==
    ASSUME TypeOK, StepsInv, NEW answer \in Answer,
           \/ RequestEnable(answer) \/ RequestAccept(answer)
           \/ RequestSetEnabled(answer) \/ RequestSetAccepting(answer)
    PROVE  TypeOK'
<1>1. call.name \in Name
  BY DEF StepsInv, RequestEnable, RequestAccept, RequestSetEnabled,
         RequestSetAccepting
<1>2. call.value \in BOOLEAN
  BY DEF TypeOK, Call
<1>3. ServerOK'
  BY <1>1, <1>2, ChangeTypes, RefuseTypes
     DEF RequestEnable, RequestAccept, RequestSetEnabled, RequestSetAccepting
<1> QED
  BY <1>3, ProceedTypes
     DEF RequestEnable, RequestAccept, RequestSetEnabled, RequestSetAccepting,
         Step

\* The requests that may make the printer they are about.
LEMMA SettingTypes ==
    ASSUME TypeOK, StepsInv, NEW answer \in Answer,
           \/ RequestSetCopies(answer) \/ RequestSetShared(answer)
           \/ RequestSetInfo(answer) \/ RequestSetOption(answer)
    PROVE  TypeOK'
<1>1. call.name \in Name
  BY DEF StepsInv, RequestSetCopies, RequestSetShared, RequestSetInfo,
         RequestSetOption
<1>2. call.value \in BOOLEAN /\ call.copies \in Copies
  BY DEF TypeOK, Call
<1>3. Modified(call.name) \in Settings
  BY <1>1, ModifiedIsSettings
<1>4. /\ [Modified(call.name) EXCEPT !.copies = call.copies] \in Settings
      /\ [Modified(call.name) EXCEPT !.shared = call.value] \in Settings
  BY <1>2, <1>3, SettingsChange
<1>5. ServerOK'
  BY <1>1, <1>3, <1>4, AddModifyTypes, RefuseTypes, BareIsSettings
     DEF RequestSetCopies, RequestSetShared, RequestSetInfo, RequestSetOption,
         AddModifyClass
<1> QED
  BY <1>5, ProceedTypes
     DEF RequestSetCopies, RequestSetShared, RequestSetInfo, RequestSetOption,
         Step

LEMMA OtherTypes ==
    ASSUME TypeOK, Other
    PROVE  TypeOK'
<1>1. call' \in Call
  BY DEF Other, TypeOK, Call
<1>2. others' \in 0..MaxOthers
  BY AdminAssumption DEF Other, TypeOK
<1>3. PICK n \in Name :
          \/ Delete(n)
          \/ SetDefault(n)
          \/ queue[n] = Absent /\ AddModify(n, [Bare EXCEPT !.enabled = TRUE,
                                                            !.accepting = TRUE])
          \/ \E enabled \in BOOLEAN :
                Change(n, [queue[n] EXCEPT !.enabled = enabled])
  BY DEF Other
<1>4. ServerOK'
  <2>1. CASE Delete(n)
    BY <2>1 DEF Delete, TypeOK, ServerOK
  <2>2. CASE SetDefault(n)
    BY <2>2 DEF SetDefault, TypeOK, ServerOK
  <2>3. CASE AddModify(n, [Bare EXCEPT !.enabled = TRUE, !.accepting = TRUE])
    BY <2>3, OpenIsSettings, AddModifyTypes
  <2>4. CASE \E enabled \in BOOLEAN :
                Change(n, [queue[n] EXCEPT !.enabled = enabled])
    BY <2>4, ChangeTypes
  <2> QED
    BY <1>3, <2>1, <2>2, <2>3, <2>4
<1> QED
  BY <1>1, <1>2, <1>4 DEF Other, TypeOK, ServerOK

LEMMA TypeNext ==
    ASSUME TypeOK, StepsInv, ListedInv, [Next]_vars
    PROVE  TypeOK'
<1>1. CASE CallNext
  BY <1>1, CallTypes
<1>2. CASE RequestNext
  <2>1. PICK answer \in Answer :
            \/ RequestAdd(answer) \/ RequestEnable(answer)
            \/ RequestAccept(answer) \/ RequestDefault(answer)
            \/ RequestDelete(answer)
            \/ RequestSetEnabled(answer) \/ RequestSetAccepting(answer)
            \/ RequestSetCopies(answer) \/ RequestSetShared(answer)
            \/ RequestSetInfo(answer)
            \/ AskClass(answer) \/ RequestSetOption(answer)
    BY <1>2 DEF RequestNext
  <2>2. CASE AskClass(answer)
    <3>1. call' \in Call
      <4>1. PICK next \in {"setOption", "setClassOption"} :
                call' = [call EXCEPT !.step = next,
                                     !.clean = @ /\ answer = "ok"]
        BY <2>2 DEF AskClass
      <4>2. next \in Step
        BY DEF Step
      <4> QED
        BY <4>1, <4>2 DEF TypeOK, Call
    <3> QED
      BY <2>2, <3>1 DEF AskClass, TypeOK
  <2> QED
    BY <2>1, <2>2, RequestAddTypes, RequestDefaultTypes, RequestDeleteTypes,
       SwitchTypes, SettingTypes
<1>3. CASE Refresh
  <2>1. call' \in Call
    <3>1. "returned" \in Step
      BY DEF Step
    <3> QED
      BY <1>3, <3>1 DEF Refresh, TypeOK, Call
  <2>2. row' \in [Name -> Settings \cup {Absent}]
    <3> DEFINE n == call.name
               e == IF queue[n] = Absent THEN FALSE ELSE queue[n].enabled
    <3>1. n \in Name /\ row[n] \in Settings
      BY <1>3 DEF Refresh, StepsInv, ListedInv, SetterSteps, TypeOK
    <3>2. e \in BOOLEAN
      BY <3>1 DEF TypeOK, Settings
    <3>3. [row[n] EXCEPT !.enabled = e] \in Settings
      <4> HIDE DEF e
      <4> QED
        BY <3>1, <3>2, SettingsChange, BareIsSettings DEF Settings
    <3>4. row' = [row EXCEPT ![n] = [row[n] EXCEPT !.enabled = e]]
      BY <1>3 DEF Refresh, TypeOK
    <3> HIDE DEF e
    <3> QED
      BY <3>1, <3>3, <3>4 DEF TypeOK
  <2> QED
    BY <1>3, <2>1, <2>2 DEF Refresh, TypeOK
<1>4. CASE Other
  BY <1>4, OtherTypes
<1>5. CASE \E n \in Name : RowFollows(n)
  BY <1>5 DEF RowFollows, TypeOK
<1>6. CASE UNCHANGED vars
  BY <1>6 DEF vars, TypeOK
<1> QED
  BY <1>1, <1>2, <1>3, <1>4, <1>5, <1>6 DEF Next

-----------------------------------------------------------------------------
(* What calls have done.                                                   *)

LEMMA ControlInit == Init => Control
BY DEF Init, Control, StepsInv, ListedInv, SetterSteps, FailureInv,
       FailureChangedNothing, Returned, AddedInv, OnlyInv

\* A call for a row.
LEMMA SetterBegins ==
    ASSUME AdminInv, NEW n \in Listed, NEW value, NEW copies,
           \/ Begin("enabled", n, "setEnabled", value, copies)
           \/ Begin("accepting", n, "setAccepting", value, copies)
           \/ Begin("copies", n, "setCopies", value, copies)
           \/ Begin("copies", n, "setShared", value, copies)
           \/ Begin("shared", n, "setShared", value, copies)
           \/ Begin("info", n, "setInfo", value, copies)
           \/ Begin("option", n, "askClass", value, copies)
           \/ Begin("pageSize", n, "askClass", value, copies)
    PROVE  Control'
BY DEF Begin, Listed, Control, StepsInv, ListedInv, SetterSteps, FailureInv,
       FailureChangedNothing, Returned, AddedInv, OnlyInv

\* Any other call.
LEMMA CallBegins ==
    ASSUME AdminInv, NEW n \in Name,
           \/ Begin("add", n, "add", TRUE, 1)
           \/ Begin("remove", n, "delete", TRUE, 1)
           \/ Begin("default", n, "default", TRUE, 1)
    PROVE  Control'
<1>1. call.step # "add" /\ call'.step # "returned" /\ call'.name = n
  BY DEF Begin
<1>2. StepsInv' /\ ListedInv' /\ FailureInv'
  BY DEF Begin, StepsInv, ListedInv, SetterSteps, FailureInv,
         FailureChangedNothing, Returned
<1>3. AddedInv'
  BY DEF Begin, AddedInv
<1>4. OnlyInv'
  <2> SUFFICES ASSUME call'.op = "add", call'.inStep, call'.asDefault
               PROVE  \A m \in Name : queue'[m] = Absent
    BY DEF OnlyInv
  <2>0. InStep \in BOOLEAN /\ NoneListed \in BOOLEAN
    BY DEF InStep, NoneListed
  <2>1. queue' = queue /\ NoneListed /\ InStep
    BY <2>0 DEF Begin
  <2> QED
    BY <2>1 DEF NoneListed, InStep, Present
<1> QED
  BY <1>2, <1>3, <1>4 DEF Control

LEMMA CallObjected ==
    ASSUME AdminInv, NEW op, NEW n, NEW complaint, Object(op, n, complaint)
    PROVE  Control'
BY DEF Object, Control, StepsInv, ListedInv, SetterSteps, FailureInv,
       FailureChangedNothing, Returned, AddedInv, OnlyInv

LEMMA CallControl ==
    ASSUME AdminInv, CallNext
    PROVE  Control'
<1>1. ASSUME NEW n \in Name \cup {BadName},
             NEW text \in {GoodText, BadText}, AddPrinter(n, text)
      PROVE  Control'
  BY <1>1, CallBegins, CallObjected DEF AddPrinter
<1>2. ASSUME NEW n \in Name \cup {BadName},
             RemovePrinter(n) \/ SetDefaultPrinterName(n)
      PROVE  Control'
  BY <1>2, CallBegins, CallObjected DEF RemovePrinter, SetDefaultPrinterName
<1>3. ASSUME NEW n \in Name, NEW value \in BOOLEAN,
             SetEnabled(n, value) \/ SetAcceptJobs(n, value)
                \/ SetShared(n, value)
      PROVE  Control'
  BY <1>3, SetterBegins DEF SetEnabled, SetAcceptJobs, SetShared
<1>4. ASSUME NEW n \in Name, NEW copies \in Copies, SetCopies(n, copies)
      PROVE  Control'
  BY <1>4, SetterBegins DEF SetCopies
<1>5. ASSUME NEW n \in Name,
             SetDescription(n)
                \/ \E op \in {"option", "pageSize"} : SetDefaultOption(n, op)
      PROVE  Control'
  BY <1>5, SetterBegins DEF SetDescription, SetDefaultOption
<1> QED
  BY <1>1, <1>2, <1>3, <1>4, <1>5 DEF CallNext

\* The requests of setters concern no property of adding and removing.
LEMMA SetterControl ==
    ASSUME AdminInv, NEW answer \in Answer,
           \/ RequestSetEnabled(answer) \/ RequestSetAccepting(answer)
           \/ RequestSetCopies(answer) \/ RequestSetShared(answer)
           \/ RequestSetInfo(answer) \/ AskClass(answer)
           \/ RequestSetOption(answer) \/ Refresh
    PROVE  Control'
<1>1. call \in Call
  BY DEF AdminInv, TypeOK
<1>2. /\ call.op \notin {"none", "add", "remove", "default"}
      /\ call.step \in SetterSteps
  BY DEF AdminInv, Control, StepsInv, SetterSteps, RequestSetEnabled,
         RequestSetAccepting, RequestSetCopies, RequestSetShared,
         RequestSetInfo, AskClass, RequestSetOption, Refresh
<1>3. /\ call'.op = call.op /\ call'.name = call.name
      /\ call'.returned = call.returned
  BY <1>1 DEF Call, Proceed, RequestSetEnabled,
         RequestSetAccepting, RequestSetCopies, RequestSetShared,
         RequestSetInfo, AskClass, RequestSetOption, Refresh
<1>4. FailureInv' /\ AddedInv' /\ OnlyInv'
  <2>1. call'.step \notin {"add", "delete"}
    BY <1>1 DEF Call, Proceed, RequestSetEnabled,
         RequestSetAccepting, RequestSetCopies, RequestSetShared,
         RequestSetInfo, AskClass, RequestSetOption, Refresh
  <2> QED
    BY <1>2, <1>3, <2>1 DEF FailureInv, FailureChangedNothing, Returned,
         AddedInv, OnlyInv
<1>5. StepsInv'
  BY <1>1, <1>3 DEF AdminInv, Control, StepsInv, Call, Proceed,
         RequestSetEnabled, RequestSetAccepting, RequestSetCopies,
         RequestSetShared, RequestSetInfo, AskClass, RequestSetOption, Refresh
<1>6. ListedInv'
  <2>1. row[call.name] # Absent
    BY <1>2 DEF AdminInv, Control, ListedInv
  <2>2. CASE Refresh
    BY <1>1, <2>2 DEF Refresh, ListedInv, SetterSteps, Call
  <2>3. CASE ~Refresh
    <3>1. row' = row
      BY <2>3 DEF Proceed, RequestSetEnabled,
         RequestSetAccepting, RequestSetCopies, RequestSetShared,
         RequestSetInfo, AskClass, RequestSetOption
    <3> QED
      BY <1>3, <2>1, <3>1 DEF ListedInv
  <2> QED
    BY <2>2, <2>3
<1> QED
  BY <1>4, <1>5, <1>6 DEF Control

\* A printer another client deletes, switches or adds: the call under way is
\* not clean any more.
LEMMA OtherControl ==
    ASSUME AdminInv, Other
    PROVE  Control'
<1>1. /\ call'.op = call.op /\ call'.name = call.name /\ call'.step = call.step
      /\ call'.returned = call.returned /\ call'.changed = call.changed
      /\ call'.answer = call.answer /\ ~call'.clean /\ row' = row
  BY DEF Other, AdminInv, TypeOK, Call
<1> QED
  BY <1>1 DEF AdminInv, Control, StepsInv, ListedInv, FailureInv,
         FailureChangedNothing, Returned, AddedInv, OnlyInv

LEMMA RowControl ==
    ASSUME AdminInv, NEW n \in Name, RowFollows(n)
    PROVE  Control'
BY DEF RowFollows, AdminInv, Control, StepsInv, ListedInv, SetterSteps,
       FailureInv, FailureChangedNothing, Returned, AddedInv, OnlyInv

LEMMA DeleteControl ==
    ASSUME AdminInv, NEW answer \in Answer, RequestDelete(answer)
    PROVE  Control'
<1>1. call \in Call /\ call.op = "remove" /\ ~call.changed /\ call.returned
  BY DEF RequestDelete, AdminInv, TypeOK, Control, StepsInv, FailureInv
<1>2. /\ call'.op = "remove" /\ call'.step = "returned"
      /\ call'.answer = answer
      /\ call'.returned = (Reply(answer) = NoMessage)
      /\ call'.changed = (answer # "refused")
  BY <1>1 DEF RequestDelete, Finish, Call
<1>3. StepsInv' /\ ListedInv' /\ AddedInv' /\ OnlyInv'
  BY <1>2 DEF StepsInv, ListedInv, SetterSteps, AddedInv, OnlyInv
<1>4. FailureInv'
  BY <1>2 DEF FailureInv, FailureChangedNothing, Returned, Reply, Answer
<1> QED
  BY <1>3, <1>4 DEF Control

\* The first request of addPrinter: it goes on to the next one or reports.
LEMMA AddControl ==
    ASSUME AdminInv, NEW answer \in Answer, RequestAdd(answer)
    PROVE  Control'
<1>1. /\ call \in Call /\ call.op = "add" /\ call.step = "add"
      /\ ~call.changed /\ call.returned /\ call.name \in Name
      /\ queue \in [Name -> Settings \cup {Absent}]
  BY DEF RequestAdd, AdminInv, TypeOK, Control, StepsInv, FailureInv
<1>2. /\ call'.op = "add" /\ call'.name = call.name
      /\ call'.answer = answer
      /\ call'.clean = (call.clean /\ answer = "ok")
      /\ call'.changed = (answer # "refused")
      /\ call'.asDefault = call.asDefault /\ call'.inStep = call.inStep
  <2>1. CASE Reply(answer) = NoMessage
    BY <1>1, <2>1 DEF RequestAdd, Call
  <2>2. CASE Reply(answer) # NoMessage
    BY <1>1, <2>2 DEF RequestAdd, Finish, Call
  <2> QED
    BY <2>1, <2>2
<1>3. /\ call'.step = IF Reply(answer) = NoMessage THEN "enable" ELSE "returned"
      /\ call'.returned = (Reply(answer) = NoMessage)
  <2>1. CASE Reply(answer) = NoMessage
    BY <1>1, <2>1 DEF RequestAdd, Call
  <2>2. CASE Reply(answer) # NoMessage
    BY <1>1, <2>2 DEF RequestAdd, Finish, Call
  <2> QED
    BY <2>1, <2>2
<1>4. StepsInv' /\ ListedInv'
  BY <1>1, <1>2, <1>3 DEF StepsInv, ListedInv, SetterSteps
<1>5. FailureInv'
  BY <1>2, <1>3 DEF FailureInv, FailureChangedNothing, Returned, Reply, Answer
<1>6. answer = "ok" => /\ queue' = [queue EXCEPT ![call.name] =
                                        Modified(call.name)]
                       /\ call'.step = "enable"
  BY <1>3 DEF RequestAdd, AddModify, Reply
<1>7. Modified(call.name) # Absent
  BY <1>1, ModifiedIsSettings, AbsentAssumption DEF AdminInv
<1>8. AddedInv'
  BY <1>1, <1>2, <1>6, <1>7 DEF AddedInv
<1>9. OnlyInv'
  BY <1>1, <1>2, <1>6 DEF AdminInv, Control, OnlyInv
<1> QED
  BY <1>4, <1>5, <1>8, <1>9 DEF Control

\* The requests of provisionPrinter that are not the last.
LEMMA ProvisionControl ==
    ASSUME AdminInv, NEW answer \in Answer,
           RequestEnable(answer) \/ RequestAccept(answer)
    PROVE  Control'
<1>1. /\ call \in Call /\ call.op = "add" /\ call.step \in {"enable", "accept"}
      /\ call.returned /\ call.name \in Name
      /\ queue \in [Name -> Settings \cup {Absent}]
  BY DEF RequestEnable, RequestAccept, AdminInv, TypeOK, Control, StepsInv
<1>2. /\ call'.op = "add" /\ call'.name = call.name /\ call'.returned
      /\ call'.clean = (call.clean /\ answer = "ok")
      /\ call'.asDefault = call.asDefault /\ call'.inStep = call.inStep
      /\ call'.step = IF call.step = "enable" THEN "accept"
                      ELSE IF call.asDefault THEN "default" ELSE "returned"
  BY <1>1 DEF RequestEnable, RequestAccept, Proceed, Call
<1>3. StepsInv' /\ ListedInv' /\ FailureInv'
  BY <1>1, <1>2 DEF StepsInv, ListedInv, SetterSteps, FailureInv,
                    FailureChangedNothing, Returned
<1>4. ASSUME answer = "ok"
      PROVE  /\ queue[call.name] \in Settings
             /\ queue' = [queue EXCEPT ![call.name] =
                    IF call.step = "enable"
                    THEN [queue[call.name] EXCEPT !.enabled = TRUE]
                    ELSE [queue[call.name] EXCEPT !.accepting = TRUE]]
  BY <1>1, <1>4 DEF RequestEnable, RequestAccept, Change, AddModify
<1>5. AddedInv'
  <2> SUFFICES ASSUME call'.clean
               PROVE  /\ queue'[call.name] # Absent
                      /\ queue'[call.name].enabled
                      /\ call.step = "accept" => queue'[call.name].accepting
                      /\ call'.step = "returned" => ~call'.asDefault
    BY <1>1, <1>2 DEF AddedInv
  <2>1. answer = "ok" /\ call.clean
    BY <1>2
  <2>2. call.step = "accept" => queue[call.name].enabled
    BY <1>1, <2>1 DEF AdminInv, Control, AddedInv
  <2>3. queue'[call.name] \in Settings
    <3>1. /\ [queue[call.name] EXCEPT !.enabled = TRUE] \in Settings
          /\ [queue[call.name] EXCEPT !.accepting = TRUE] \in Settings
      BY <1>4, <2>1 DEF Settings
    <3> QED
      BY <1>1, <1>4, <2>1, <3>1
  <2>4. /\ queue'[call.name].enabled
        /\ call.step = "accept" => queue'[call.name].accepting
    BY <1>1, <1>4, <2>1, <2>2 DEF Settings
  <2> QED
    BY <1>2, <2>3, <2>4, AbsentAssumption
<1>6. OnlyInv'
  <2> SUFFICES ASSUME call'.clean, call'.inStep, call'.asDefault,
                      NEW n \in Name, queue'[n] # Absent
               PROVE  n = call.name
    BY <1>1, <1>2 DEF OnlyInv
  <2>1. n = call.name \/ queue'[n] = queue[n]
    BY <1>1, <1>2, <1>4
  <2> QED
    BY <1>1, <1>2, <2>1 DEF AdminInv, Control, OnlyInv
<1> QED
  BY <1>3, <1>5, <1>6 DEF Control

\* The default printer is set last, or in a call of its own.
LEMMA DefaultControl ==
    ASSUME AdminInv, NEW answer \in Answer, RequestDefault(answer)
    PROVE  Control'
<1>1. /\ call \in Call /\ call.op \in {"add", "default"} /\ call.returned
      /\ call.step = "default" /\ call.name \in Name
  BY DEF RequestDefault, AdminInv, TypeOK, Control, StepsInv
<1>2. /\ call'.op = call.op /\ call'.name = call.name /\ call'.returned
      /\ call'.clean = (call.clean /\ answer = "ok")
      /\ call'.asDefault = call.asDefault /\ call'.inStep = call.inStep
      /\ call'.step = "returned" /\ queue' = queue
  BY <1>1 DEF RequestDefault, Call, Refuse, SetDefault
<1>3. StepsInv' /\ ListedInv' /\ FailureInv'
  BY <1>1, <1>2 DEF StepsInv, ListedInv, SetterSteps, FailureInv,
                    FailureChangedNothing, Returned
<1>4. answer = "ok" => dflt' = call.name
  BY DEF RequestDefault, SetDefault
<1>5. AddedInv' /\ OnlyInv'
  BY <1>1, <1>2, <1>4 DEF AdminInv, Control, AddedInv, OnlyInv
<1> QED
  BY <1>3, <1>5 DEF Control

LEMMA AdminNext ==
    ASSUME AdminInv, [Next]_vars
    PROVE  AdminInv'
<1>1. TypeOK'
  BY TypeNext DEF AdminInv, Control
<1>2. Control'
  <2>1. CASE CallNext
    BY <2>1, CallControl
  <2>2. CASE RequestNext
    BY <2>2, AddControl, ProvisionControl, DefaultControl, DeleteControl,
       SetterControl DEF RequestNext
  <2>3. CASE Refresh
    BY <2>3, SetterControl DEF Answer
  <2>4. CASE Other
    BY <2>4, OtherControl
  <2>5. CASE \E n \in Name : RowFollows(n)
    BY <2>5, RowControl
  <2>6. CASE UNCHANGED vars
    BY <2>6 DEF vars, AdminInv, Control, StepsInv, ListedInv, FailureInv,
                FailureChangedNothing, Returned, AddedInv, OnlyInv
  <2> QED
    BY <2>1, <2>2, <2>3, <2>4, <2>5, <2>6 DEF Next
<1> QED
  BY <1>1, <1>2 DEF AdminInv

LEMMA AdminAlways == Spec => []AdminInv
<1>1. Init => AdminInv
  BY TypeInit, ControlInit DEF AdminInv
<1>2. AdminInv /\ [Next]_vars => AdminInv'
  BY AdminNext
<1> QED
  BY <1>1, <1>2, PTL DEF Spec

-----------------------------------------------------------------------------
(* The properties.                                                         *)

\* CUPS, the printers listed, the messages of IppClient and the call under way
\* always are of their types, whatever CUPS refuses and others do.
THEOREM AdminTypes == Spec => []TypeOK
<1>1. AdminInv => TypeOK
  BY DEF AdminInv
<1> QED
  BY <1>1, AdminAlways, PTL

\* addPrinter and removePrinter report a failure only if CUPS was left as it
\* was, or the answer was lost, whatever complaint m_internalStatus still holds.
THEOREM FailedCallsChangeNothing == Spec => []FailureChangedNothing
<1>1. AdminInv => FailureChangedNothing
  BY DEF AdminInv, Control, FailureInv
<1> QED
  BY <1>1, AdminAlways, PTL

\* provisionPrinter leaves a printer on and accepting jobs, and the default if
\* it was added to an empty list, when every request is answered and nobody
\* else acts.
THEOREM AddedPrinterWorks == Spec => []AddedIsProvisioned
<1>1. AdminInv => AddedIsProvisioned
  BY DEF AdminInv, Control, StepsInv, AddedInv, AddedIsProvisioned, Returned,
         Present, TypeOK
<1> QED
  BY <1>1, AdminAlways, PTL

\* With the list in step and nobody else acting, addPrinter makes a printer the
\* default only if it is the only one.
THEOREM DefaultIsOnly == Spec => []DefaultOfOnly
<1>1. AdminInv => DefaultOfOnly
  <2> SUFFICES ASSUME AdminInv, Returned("add"), call.clean, call.inStep,
                      call.asDefault
               PROVE  Present = {call.name}
    BY DEF DefaultOfOnly
  <2>1. \A n \in Name : queue[n] # Absent => n = call.name
    BY DEF AdminInv, Control, OnlyInv, Returned
  <2>2. call.name \in Name /\ queue[call.name] # Absent
    BY DEF AdminInv, Control, AddedInv, Returned
  <2> QED
    BY <2>1, <2>2 DEF Present
<1> QED
  BY <1>1, AdminAlways, PTL

\* Every way a step of this program can make a printer appear.
LEMMA RevivedStep ==
    ASSUME AdminInv, [Next]_vars, NEW n \in Name,
           queue[n] = Absent, queue'[n] # Absent, others' = others
    PROVE  \/ call.op = "add"
           \/ /\ row[n] # Absent
              /\ call.op \in {"copies", "shared", "info", "option", "pageSize"}
<1> USE DEF Refuse
<1>0. queue' # queue
  OBVIOUS
<1>1. CASE CallNext
  BY <1>0, <1>1 DEF CallNext, AddPrinter, RemovePrinter, SetDefaultPrinterName,
     SetEnabled, SetAcceptJobs, SetShared, SetCopies, SetDescription,
     SetDefaultOption, Begin, Object
<1>2. CASE RequestNext
  <2>0. PICK answer \in Answer :
            \/ RequestAdd(answer) \/ RequestEnable(answer)
            \/ RequestAccept(answer) \/ RequestDefault(answer)
            \/ RequestDelete(answer)
            \/ RequestSetEnabled(answer) \/ RequestSetAccepting(answer)
            \/ RequestSetCopies(answer) \/ RequestSetShared(answer)
            \/ RequestSetInfo(answer)
            \/ AskClass(answer) \/ RequestSetOption(answer)
    BY <1>2 DEF RequestNext
  <2>1. CASE RequestAdd(answer) \/ RequestEnable(answer)
                \/ RequestAccept(answer)
    BY <2>1 DEF RequestAdd, RequestEnable, RequestAccept, AdminInv, Control,
                StepsInv
  <2>2. CASE RequestDefault(answer) \/ RequestDelete(answer)
                \/ AskClass(answer)
    BY <2>2, <1>0 DEF RequestDefault, RequestDelete, AskClass, SetDefault,
       Delete, AdminInv, TypeOK
  <2>3. CASE RequestSetEnabled(answer) \/ RequestSetAccepting(answer)
    BY <2>3 DEF RequestSetEnabled, RequestSetAccepting, Change, AddModify,
       AdminInv, TypeOK
  <2>4. CASE \/ RequestSetCopies(answer) \/ RequestSetShared(answer)
             \/ RequestSetInfo(answer) \/ RequestSetOption(answer)
    <3>1. /\ call.op \in {"copies", "shared", "info", "option", "pageSize"}
          /\ row[call.name] # Absent
      BY <2>4 DEF RequestSetCopies, RequestSetShared, RequestSetInfo,
         RequestSetOption, AdminInv, Control, StepsInv, ListedInv, SetterSteps
    <3>2. n = call.name
      BY <2>4, <1>0 DEF RequestSetCopies, RequestSetShared, RequestSetInfo,
         RequestSetOption, AddModify, AddModifyClass, AdminInv, TypeOK
    <3> QED
      BY <3>1, <3>2
  <2> QED
    BY <2>0, <2>1, <2>2, <2>3, <2>4
<1>3. CASE Other
  BY <1>3 DEF Other, AdminInv, TypeOK
<1>4. CASE Refresh \/ \E m \in Name : RowFollows(m)
  BY <1>0, <1>4 DEF Refresh, RowFollows
<1>5. CASE UNCHANGED vars
  BY <1>0, <1>5 DEF vars
<1> QED
  BY <1>1, <1>2, <1>3, <1>4, <1>5 DEF Next

\* A printer that is gone, and whose deletion the list has taken in, comes back
\* only by being added, here or by another client.
THEOREM GoneStaysGone == Spec => RevivedOnlyListed
<1>1. AdminInv /\ [Next]_vars =>
        [\A n \in Name :
            /\ queue[n] = Absent /\ queue'[n] # Absent
            /\ others' = others
            => \/ call.op = "add"
               \/ /\ row[n] # Absent
                  /\ call.op \in {"copies", "shared", "info", "option",
                                  "pageSize"}]_vars
  BY RevivedStep
<1> QED
  BY <1>1, AdminAlways, PTL DEF Spec, RevivedOnlyListed

=============================================================================
