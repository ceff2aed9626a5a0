----------------------------- MODULE DeviceModel ----------------------------
(***************************************************************************)
(* The devices a printer can be added for (models/devicemodel.cpp).  A     *)
(* DeviceSearcher asks CUPS for them in a thread of its own and reports    *)
(* each; its signals are queued for the main thread in their order.        *)
(***************************************************************************)
EXTENDS Naturals, Sequences, SequencesExt

CONSTANTS
    Device,         \* devices, equal when all their fields are
    Wanted,         \* those whose uri has something after its scheme
    Finished,       \* the signal that ends a search
    MaxFound        \* bound: signals of a search that wait

ASSUME DeviceAssumption ==
    /\ Wanted \subseteq Device
    /\ Finished \notin Device
    /\ MaxFound \in Nat \ {0}

VARIABLES
    devices,        \* m_devices
    isSearching,    \* m_isSearching
    searchers,      \* how many threads search
    signals,        \* the signals queued for the main thread
    reported        \* history: the devices reported since load()

deviceVars == <<devices, isSearching, searchers, signals, reported>>

DeviceTypeOK ==
    /\ devices \in Seq(Wanted)
    /\ isSearching \in BOOLEAN
    /\ searchers \in Nat
    /\ signals \in Seq(Device \cup {Finished})
    /\ reported \in SUBSET Device

DeviceInit ==
    /\ devices = <<>>
    /\ isSearching = FALSE
    /\ searchers = 0
    /\ signals = <<>>
    /\ reported = {}

\* Mutant: a search that is under way does not keep another from starting.
LoadAgain ==
    /\ searchers < 2
    /\ devices' = <<>>
    /\ searchers' = searchers + 1
    /\ isSearching' = TRUE
    /\ reported' = {}
    /\ UNCHANGED signals

\* load(), with clear() and PrinterCupsBackend::searchForDevices(); ignored
\* while a search is under way.
Load ==
    IF isSearching
    THEN UNCHANGED deviceVars
    ELSE /\ devices' = <<>>
         /\ searchers' = searchers + 1
         /\ isSearching' = TRUE
         /\ reported' = {}
         /\ UNCHANGED signals

\* DeviceSearcher: CUPS calls back with a device, as often as it likes.
SearcherFinds(device) ==
    /\ searchers > 0
    /\ Len(signals) < MaxFound
    /\ signals' = Append(signals, device)
    /\ reported' = reported \cup {device}
    /\ UNCHANGED <<devices, isSearching, searchers>>

\* Mutant: a failed search is reported as such only.
SearcherEndsUnlessFailed ==
    /\ searchers > 0
    /\ searchers' = searchers - 1
    /\ \/ signals' = Append(signals, Finished)
       \/ UNCHANGED signals
    /\ UNCHANGED <<devices, isSearching, reported>>

\* DeviceSearcher::load() ends, whether CUPS could be asked or not.
SearcherEnds ==
    /\ searchers > 0
    /\ searchers' = searchers - 1
    /\ signals' = Append(signals, Finished)
    /\ UNCHANGED <<devices, isSearching, reported>>

\* deviceLoaded()
DeviceLoaded(device) ==
    devices' = IF device \in Wanted /\ ~Contains(devices, device)
               THEN Append(devices, device)
               ELSE devices

\* The main thread takes a signal: deviceLoaded() or deviceSearchFinished().
TakeSignal ==
    /\ signals # <<>>
    /\ signals' = Tail(signals)
    /\ IF Head(signals) = Finished
       THEN isSearching' = FALSE /\ UNCHANGED devices
       ELSE DeviceLoaded(Head(signals)) /\ UNCHANGED isSearching
    /\ UNCHANGED <<searchers, reported>>

DeviceBackground ==
    \/ \E device \in Device : SearcherFinds(device)
    \/ SearcherEnds
    \/ TakeSignal

-----------------------------------------------------------------------------
\* What is listed was reported by the search under way or the last one, each
\* device once, and when the search is over nothing that it reported is
\* missing: a search is never mixed up with the one before it.
DevicesOfSearch ==
    /\ ToSet(devices) \subseteq reported \cap Wanted
    /\ IsInjective(devices)
    /\ ~isSearching => ToSet(devices) = reported \cap Wanted

\* A search that was started is over some time, also when CUPS fails.
DeviceSearchEnds == isSearching ~> ~isSearching
=============================================================================
