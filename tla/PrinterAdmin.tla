---------------------------- MODULE PrinterAdmin ----------------------------
(***************************************************************************)
(* Administration of CUPS: adding, removing and provisioning printers      *)
(* (printers/printers.cpp) and the settings of a listed printer            *)
(* (printer/printer.cpp), all of them sequences of requests that the one   *)
(* IppClient of the program makes (cups/ippclient.cpp) while its main      *)
(* thread waits.  CUPS may refuse a request, or carry it out and the       *)
(* answer be lost; other clients of CUPS act between two requests.  The    *)
(* rows only follow when the event loop runs again: how they do is the     *)
(* subject of PrinterSync, here it is the single action RowFollows.        *)
(*                                                                         *)
(* What a request says went wrong is reported in two ways: IppClient's     *)
(* functions return FALSE, and PrinterCupsBackend turns that into the text *)
(* getLastError has, which is empty if IppClient itself never objected to  *)
(* an argument.  The text counts: an empty one means success.              *)
(***************************************************************************)
EXTENDS Naturals, FiniteSets

CONSTANTS
    Name,           \* names a printer may have
    BadName,        \* a name that is not valid, as that of the PDF printer
    GoodText,       \* a description, location, device or driver that is valid
    BadText,        \* one with a character that cannot be printed
    NoName,         \* no default printer
    NoMessage,      \* the null string
    Absent,         \* no printer of this name
    MaxCopies,      \* bound: copies a printer makes by default
    MaxCalls,       \* bound: calls the program makes
    MaxOthers       \* bound: changes other clients make

ASSUME AdminAssumption ==
    /\ BadName \notin Name /\ NoName \notin Name
    /\ NoMessage \notin {BadName, BadText}
    /\ GoodText # BadText
    /\ MaxCopies \in Nat \ {0} /\ MaxCalls \in Nat /\ MaxOthers \in Nat

VARIABLES
    queue,          \* CUPS: the printers it has, and their settings
    dflt,           \* CUPS: the default printer
    row,            \* m_model: the printers listed, and the settings they show
    status,         \* m_internalStatus: the argument it complains of
    message,        \* m_lastMessage
    call,           \* the call the main thread is in, or has returned from
    calls,          \* how many calls were made
    others          \* how many changes other clients made

vars == <<queue, dflt, row, status, message, call, calls, others>>

Copies == 1..MaxCopies
Settings == [enabled : BOOLEAN, accepting : BOOLEAN, shared : BOOLEAN,
             copies : Copies]
ASSUME AbsentAssumption == Absent \notin Settings

Message == {NoMessage, BadName, BadText}

\* Where a call is: the request it makes next, "refresh", or "returned".
Step == {"add", "enable", "accept", "default", "delete", "setEnabled",
         "refresh", "setAccepting", "setCopies", "setShared", "setInfo",
         "askClass", "setOption", "setClassOption", "returned"}
Answer == {"ok", "refused", "lost"}

\* value, copies and asDefault are arguments and local variables.  What follows
\* is history: how CUPS answered the request the call is for, whether the
\* caller was told that it succeeded, whether all went well and nobody else
\* acted, whether CUPS did anything, and whether the printers listed were those
\* of CUPS when it started.
Call == [op : {"none", "add", "remove", "default", "enabled", "accepting",
               "copies", "shared", "info", "option", "pageSize"},
         name : Name \cup {BadName, NoName}, step : Step,
         value : BOOLEAN, copies : Copies, asDefault : BOOLEAN,
         answer : Answer \cup {"unasked"}, returned : BOOLEAN, clean : BOOLEAN,
         changed : BOOLEAN, inStep : BOOLEAN]

TypeOK ==
    /\ queue \in [Name -> Settings \cup {Absent}]
    /\ dflt \in Name \cup {NoName}
    /\ row \in [Name -> Settings \cup {Absent}]
    /\ status \in Message
    /\ message \in Message
    /\ call \in Call
    /\ calls \in 0..MaxCalls
    /\ others \in 0..MaxOthers

Present == {n \in Name : queue[n] # Absent}
Listed == {n \in Name : row[n] # Absent}
NoneListed == Listed = {}
InStep == Listed = Present

-----------------------------------------------------------------------------
(* CUPS: what it does with a request that it does not refuse.              *)

\* A printer CUPS has just made takes no jobs and prints none.
Bare == [enabled |-> FALSE, accepting |-> FALSE, shared |-> FALSE,
         copies |-> 1]

\* CUPS-Add-Modify-Printer makes the printer if it does not exist.
Modified(n) == IF queue[n] = Absent THEN Bare ELSE queue[n]

AddModify(n, settings) ==
    /\ queue' = [queue EXCEPT ![n] = settings]
    /\ UNCHANGED dflt

\* CUPS-Add-Modify-Class makes the class, but not beside a printer.
AddModifyClass(n) ==
    /\ queue[n] = Absent
    /\ AddModify(n, Bare)

Change(n, settings) ==
    /\ queue[n] # Absent
    /\ AddModify(n, settings)

Delete(n) ==
    /\ queue[n] # Absent
    /\ queue' = [queue EXCEPT ![n] = Absent]
    /\ dflt' = IF dflt = n THEN NoName ELSE dflt

SetDefault(n) ==
    /\ queue[n] # Absent
    /\ dflt' = n
    /\ UNCHANGED queue

Refuse == UNCHANGED <<queue, dflt>>

-----------------------------------------------------------------------------
(* IppClient and PrinterCupsBackend.                                       *)

\* What the wrappers of PrinterCupsBackend return.
Reply(answer) == IF answer = "ok" THEN NoMessage ELSE status

\* sendRequest's part of a call that goes on, and how the call goes on after it.
Proceed(step, answer) ==
    /\ call' = [call EXCEPT !.step = step,
                            !.clean = @ /\ answer = "ok",
                            !.changed = @ \/ answer # "refused"]
    /\ UNCHANGED <<row, status, message, calls, others>>

\* As Proceed, for the last request of a call, which leaves a reply for the
\* caller: Printers keeps it and returns FALSE unless it is empty.
Finish(answer) ==
    /\ message' = IF Reply(answer) # NoMessage THEN Reply(answer) ELSE message
    /\ call' = [call EXCEPT !.step = "returned",
                            !.answer = answer,
                            !.returned = Reply(answer) = NoMessage,
                            !.clean = @ /\ answer = "ok",
                            !.changed = @ \/ answer # "refused"]
    /\ UNCHANGED <<row, status, calls, others>>

-----------------------------------------------------------------------------
(* The calls.  Begin and Object are how every one of them starts.          *)

\* Mutant: one printer that is listed does not count.
BeginAmongOne(op, n, step, value, copies) ==
    /\ call.step = "returned" /\ calls < MaxCalls
    /\ calls' = calls + 1
    /\ call' = [op |-> op, name |-> n, step |-> step,
                value |-> value, copies |-> copies,
                asDefault |-> (op = "add" /\ Cardinality(Listed) <= 1),
                answer |-> "ok", returned |-> TRUE, clean |-> TRUE,
                changed |-> FALSE, inStep |-> InStep]
    /\ UNCHANGED <<queue, dflt, row, status, message, others>>

Begin(op, n, step, value, copies) ==
    /\ call.step = "returned" /\ calls < MaxCalls
    /\ calls' = calls + 1
    /\ call' = [op |-> op, name |-> n, step |-> step,
                value |-> value, copies |-> copies,
                asDefault |-> (op = "add" /\ NoneListed),
                answer |-> "ok", returned |-> TRUE, clean |-> TRUE,
                changed |-> FALSE, inStep |-> InStep]
    /\ UNCHANGED <<queue, dflt, row, status, message, others>>

\* A call that IppClient makes no request for.  complaint is what it has said
\* about an argument, now or before.
Object(op, n, complaint) ==
    /\ call.step = "returned" /\ calls < MaxCalls
    /\ calls' = calls + 1
    /\ status' = complaint
    /\ message' = IF complaint # NoMessage THEN complaint ELSE message
    /\ call' = [op |-> op, name |-> n, step |-> "returned",
                value |-> FALSE, copies |-> 1, asDefault |-> FALSE,
                answer |-> "unasked", returned |-> complaint = NoMessage,
                clean |-> FALSE, changed |-> FALSE, inStep |-> FALSE]
    /\ UNCHANGED <<queue, dflt, row, others>>

\* Printers::addPrinter, addPrinterWithPpdFile.
AddPrinter(n, text) ==
    \/ /\ n = BadName
       /\ Object("add", n, BadName)
    \/ /\ n # BadName /\ text = BadText
       /\ Object("add", n, BadText)
    \/ /\ n # BadName /\ text # BadText
       /\ Begin("add", n, "add", TRUE, 1)

\* sendNewSimpleRequest returns FALSE for a bad name and says nothing of it.
RemovePrinter(n) ==
    IF n = BadName THEN Object("remove", n, status)
                   ELSE Begin("remove", n, "delete", TRUE, 1)

SetDefaultPrinterName(n) ==
    IF n = BadName THEN Object("default", n, status)
                   ELSE Begin("default", n, "default", TRUE, 1)

\* PrinterModel::setData hands on what is chosen for a row; the setters of
\* Printer do nothing if the row shows it already.
SetEnabled(n, value) ==
    /\ n \in Listed /\ row[n].enabled # value
    /\ Begin("enabled", n, "setEnabled", value, 1)

SetAcceptJobs(n, value) ==
    /\ n \in Listed /\ row[n].accepting # value
    /\ Begin("accepting", n, "setAccepting", value, 1)

SetShared(n, value) ==
    /\ n \in Listed /\ row[n].shared # value
    /\ Begin("shared", n, "setShared", value, 1)

\* The case of CopiesRole has no break: it goes on with SharedRole, for which
\* every number of copies but zero is TRUE.
SetCopies(n, copies) ==
    /\ n \in Listed
    /\ \/ /\ row[n].copies # copies
          /\ Begin("copies", n, "setCopies", TRUE, copies)
       \/ /\ row[n].copies = copies /\ ~row[n].shared
          /\ Begin("copies", n, "setShared", TRUE, copies)

SetDescription(n) ==
    /\ n \in Listed
    /\ Begin("info", n, "setInfo", TRUE, 1)

\* The default color model, duplex mode and quality; and the page size.
SetDefaultOption(n, op) ==
    /\ n \in Listed
    /\ Begin(op, n, "askClass", TRUE, 1)

-----------------------------------------------------------------------------
(* The requests of a call, in order.                                       *)

\* Printers looks at the reply only: an empty one is as good as success.
RequestAdd(answer) ==
    /\ call.step = "add"
    /\ IF answer = "refused" THEN Refuse
                             ELSE AddModify(call.name, Modified(call.name))
    /\ IF Reply(answer) = NoMessage
       THEN /\ call' = [call EXCEPT !.step = "enable", !.answer = answer,
                                    !.clean = @ /\ answer = "ok",
                                    !.changed = @ \/ answer # "refused"]
            /\ UNCHANGED <<row, status, message, calls, others>>
       ELSE Finish(answer)

\* Mutant: a printer is provisioned without making it accept jobs.
RequestEnableOnly(answer) ==
    /\ call.step = "enable"
    /\ IF answer = "refused" THEN Refuse
       ELSE Change(call.name, [queue[call.name] EXCEPT !.enabled = TRUE])
    /\ Proceed(IF call.asDefault THEN "default" ELSE "returned", answer)

\* provisionPrinter: what CUPS answers to the next two is not looked at.
RequestEnable(answer) ==
    /\ call.step = "enable"
    /\ IF answer = "refused" THEN Refuse
       ELSE Change(call.name, [queue[call.name] EXCEPT !.enabled = TRUE])
    /\ Proceed("accept", answer)

\* Mutant: the reply to the last request becomes the result of addPrinter.
RequestAcceptReported(answer) ==
    /\ call.step = "accept"
    /\ IF answer = "refused" THEN Refuse
       ELSE Change(call.name, [queue[call.name] EXCEPT !.accepting = TRUE])
    /\ IF call.asDefault THEN Proceed("default", answer) ELSE Finish(answer)

RequestAccept(answer) ==
    /\ call.step = "accept"
    /\ IF answer = "refused" THEN Refuse
       ELSE Change(call.name, [queue[call.name] EXCEPT !.accepting = TRUE])
    /\ Proceed(IF call.asDefault THEN "default" ELSE "returned", answer)

\* setDefaultPrinterName, of its own or at the end of provisionPrinter, when
\* addPrinter returns TRUE whatever became of it.
RequestDefault(answer) ==
    /\ call.step = "default"
    /\ IF answer = "refused" THEN Refuse ELSE SetDefault(call.name)
    /\ message' = IF Reply(answer) # NoMessage THEN Reply(answer) ELSE message
    /\ call' = [call EXCEPT !.step = "returned",
                            !.clean = @ /\ answer = "ok",
                            !.changed = @ \/ answer # "refused"]
    /\ UNCHANGED <<row, status, calls, others>>

RequestDelete(answer) ==
    /\ call.step = "delete"
    /\ IF answer = "refused" THEN Refuse ELSE Delete(call.name)
    /\ Finish(answer)

\* Mutant: the state is set by CUPS-Add-Modify-Printer.
RequestSetEnabledModifies(answer) ==
    /\ call.step = "setEnabled"
    /\ IF answer = "refused" THEN Refuse
       ELSE AddModify(call.name,
                      [Modified(call.name) EXCEPT !.enabled = call.value])
    /\ Proceed("refresh", answer)

RequestSetEnabled(answer) ==
    /\ call.step = "setEnabled"
    /\ IF answer = "refused" THEN Refuse
       ELSE Change(call.name, [queue[call.name] EXCEPT !.enabled = call.value])
    /\ Proceed("refresh", answer)

\* m_backend->refresh(), from which enabled() is taken.  A printer that is
\* gone has no state, which reads as an error.
Refresh ==
    /\ call.step = "refresh"
    /\ row' = [row EXCEPT ![call.name] = [@ EXCEPT
                  !.enabled = IF queue[call.name] = Absent THEN FALSE
                              ELSE queue[call.name].enabled]]
    /\ call' = [call EXCEPT !.step = "returned"]
    /\ UNCHANGED <<queue, dflt, status, message, calls, others>>

RequestSetAccepting(answer) ==
    /\ call.step = "setAccepting"
    /\ IF answer = "refused" THEN Refuse
       ELSE Change(call.name,
                   [queue[call.name] EXCEPT !.accepting = call.value])
    /\ Proceed("returned", answer)

RequestSetCopies(answer) ==
    /\ call.step = "setCopies"
    /\ IF answer = "refused" THEN Refuse
       ELSE AddModify(call.name,
                      [Modified(call.name) EXCEPT !.copies = call.copies])
    /\ Proceed(IF row[call.name].shared THEN "returned" ELSE "setShared",
               answer)

RequestSetShared(answer) ==
    /\ call.step = "setShared"
    /\ IF answer = "refused" THEN Refuse
       ELSE AddModify(call.name,
                      [Modified(call.name) EXCEPT !.shared = call.value])
    /\ Proceed("returned", answer)

\* printerClassSetInfo; what the description says is left out.
RequestSetInfo(answer) ==
    /\ call.step = "setInfo"
    /\ IF answer = "refused" THEN Refuse
                             ELSE AddModify(call.name, Modified(call.name))
    /\ Proceed("returned", answer)

\* printerIsClass takes a printer for a class when it gets no answer.
AskClass(answer) ==
    /\ call.step = "askClass"
    /\ answer = "ok" => call.name \in Present
    /\ call' = [call EXCEPT !.step = IF answer = "ok" THEN "setOption"
                                     ELSE "setClassOption",
                            !.clean = @ /\ answer = "ok"]
    /\ UNCHANGED <<queue, dflt, row, status, message, calls, others>>

\* printerClassSetOption; what is chosen for the option is left out.
RequestSetOption(answer) ==
    /\ \/ /\ call.step = "setOption"
          /\ IF answer = "refused" THEN Refuse
             ELSE AddModify(call.name, Modified(call.name))
       \/ /\ call.step = "setClassOption"
          /\ IF answer = "refused" THEN Refuse ELSE AddModifyClass(call.name)
    /\ Proceed(IF call.op = "pageSize" THEN "refresh" ELSE "returned", answer)

-----------------------------------------------------------------------------
(* Everybody else.                                                         *)

Other ==
    /\ others < MaxOthers /\ others' = others + 1
    /\ \E n \in Name :
          \/ Delete(n)
          \/ SetDefault(n)
          \/ queue[n] = Absent /\ AddModify(n, [Bare EXCEPT !.enabled = TRUE,
                                                            !.accepting = TRUE])
          \/ \E enabled \in BOOLEAN :
                Change(n, [queue[n] EXCEPT !.enabled = enabled])
    /\ call' = [call EXCEPT !.clean = FALSE]
    /\ UNCHANGED <<row, status, message, calls>>

\* Signals and loads bring a row in step with CUPS.  No call is under way:
\* calls do not return to the event loop.
RowFollows(n) ==
    /\ call.step = "returned"
    /\ row[n] # queue[n]
    /\ row' = [row EXCEPT ![n] = queue[n]]
    /\ UNCHANGED <<queue, dflt, status, message, call, calls, others>>

Init ==
    /\ queue \in [Name -> {Absent, [Bare EXCEPT !.enabled = TRUE,
                                                !.accepting = TRUE]}]
    /\ dflt \in Present \cup {NoName}
    /\ row = queue
    /\ status = NoMessage /\ message = NoMessage
    /\ call = [op |-> "none", name |-> NoName, step |-> "returned",
               value |-> FALSE, copies |-> 1, asDefault |-> FALSE,
               answer |-> "ok", returned |-> TRUE, clean |-> FALSE,
               changed |-> FALSE, inStep |-> FALSE]
    /\ calls = 0 /\ others = 0

CallNext ==
    \/ \E n \in Name \cup {BadName} :
          \/ \E text \in {GoodText, BadText} : AddPrinter(n, text)
          \/ RemovePrinter(n)
          \/ SetDefaultPrinterName(n)
    \/ \E n \in Name :
          \/ \E value \in BOOLEAN : \/ SetEnabled(n, value)
                                    \/ SetAcceptJobs(n, value)
                                    \/ SetShared(n, value)
          \/ \E copies \in Copies : SetCopies(n, copies)
          \/ SetDescription(n)
          \/ \E op \in {"option", "pageSize"} : SetDefaultOption(n, op)

RequestNext ==
    \E answer \in Answer :
        \/ RequestAdd(answer) \/ RequestEnable(answer)
        \/ RequestAccept(answer) \/ RequestDefault(answer)
        \/ RequestDelete(answer)
        \/ RequestSetEnabled(answer) \/ RequestSetAccepting(answer)
        \/ RequestSetCopies(answer) \/ RequestSetShared(answer)
        \/ RequestSetInfo(answer)
        \/ AskClass(answer) \/ RequestSetOption(answer)

Next == CallNext \/ RequestNext \/ Refresh \/ Other
        \/ \E n \in Name : RowFollows(n)

Spec == Init /\ [][Next]_vars

-----------------------------------------------------------------------------
(* Properties.                                                             *)

Returned(op) == call.op = op /\ call.step = "returned"

\* What addPrinter and removePrinter tell their caller is what became of the
\* request: one that CUPS refuses is reported, as isReplyOk's "we'll use the
\* cups status" has it.  CUPS's status is not used: getLastError only knows the
\* objections of IppClient itself, so this does not hold.
RefusalReported ==
    \A op \in {"add", "remove"} :
        Returned(op) /\ call.answer = "refused" => ~call.returned

\* A call that reports a failure has left CUPS as it was, unless the answer to
\* its first request was lost: nothing addPrinter does after that request can
\* turn its result into a failure, also with an old complaint in m_internalStatus.
FailureChangedNothing ==
    \A op \in {"add", "remove"} :
        Returned(op) /\ ~call.returned /\ call.answer # "lost" => ~call.changed

\* A printer that was added with every request answered, and nobody else acting,
\* prints, accepts jobs, and is the default if none was listed before.
AddedIsProvisioned ==
    Returned("add") /\ call.clean =>
        /\ call.name \in Present
        /\ queue[call.name].enabled /\ queue[call.name].accepting
        /\ call.asDefault => dflt = call.name

\* If the list agreed with CUPS and nobody else acted, a printer that was made
\* the default by being added is the only one.
DefaultOfOnly ==
    Returned("add") /\ call.clean /\ call.inStep /\ call.asDefault =>
        Present = {call.name}

\* A printer that was deleted can only come back without being added while its
\* deletion has not reached the list: through a setter that is carried out as
\* CUPS-Add-Modify-Printer, never by switching it or its jobs on or off.
RevivedOnlyListed ==
    [][\A n \in Name :
          /\ queue[n] = Absent /\ queue'[n] # Absent
          /\ others' = others
          => \/ call.op = "add"
             \/ /\ row[n] # Absent
                /\ call.op \in {"copies", "shared", "info", "option",
                                "pageSize"}]_vars
=============================================================================
