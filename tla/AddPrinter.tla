----------------------------- MODULE AddPrinter -----------------------------
(***************************************************************************)
(* The page a printer is added on: opening it (Example/Printers.qml) asks  *)
(* for the drivers if there are none and searches for devices.  From then  *)
(* on DriverModel and DeviceModel work side by side, each with threads of  *)
(* its own, while the user filters the drivers and searches again.         *)
(***************************************************************************)
EXTENDS DriverModel, DeviceModel

vars == <<driverVars, deviceVars>>

TypeOK == DriverTypeOK /\ DeviceTypeOK

Init == DriverInit /\ DeviceInit

\* Component.onCompleted and the first look at Printers.devices, which calls
\* load() each time it is read.
OpenPage == PrepareToAddPrinter /\ Load

\* Printers::setDriverFilter()
FilterDrivers == SetFilter /\ UNCHANGED deviceVars

\* Printers::searchForDevices()
SearchForDevices == Load /\ UNCHANGED driverVars

DriversInBackground == DriverBackground /\ UNCHANGED deviceVars
DevicesInBackground == DeviceBackground /\ UNCHANGED driverVars

Next ==
    \/ OpenPage
    \/ FilterDrivers
    \/ SearchForDevices
    \/ DriversInBackground
    \/ DevicesInBackground

\* Threads run and end, and the main thread takes the signals that wait.
Fairness ==
    /\ WF_vars(SearchDone /\ UNCHANGED deviceVars)
    /\ WF_vars(SearchReported /\ UNCHANGED deviceVars)
    /\ WF_vars(SearcherEnds /\ UNCHANGED driverVars)
    /\ WF_vars(TakeSignal /\ UNCHANGED driverVars)

Spec == Init /\ [][Next]_vars /\ Fairness
=============================================================================
