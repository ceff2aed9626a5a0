--------------------------- MODULE AddPrinterProofs -------------------------
(* Proofs about AddPrinter: the drivers shown fit the filter, and devices  *)
(* are those of one search.                                                *)
EXTENDS AddPrinter, TLAPS

-----------------------------------------------------------------------------
(* Drivers *)

\* What setFilter relies on unless a search was overtaken: a search under way
\* has what fits the filter, and no load has come since it began.
SearchFits ==
    Searching /\ ~overtaken =>
        /\ ~search.canceled /\ ~reloaded
        /\ search.results = Filtered(original, filter)

DriverInv == DriverTypeOK /\ FilterShown /\ SearchFits

\* The smaller list is enough: what is shown fits the filter, or is all there
\* is, and the new filter is a continuation of it.
LEMMA SmallerList ==
    ASSUME DriverTypeOK, NEW p \in Pattern,
           ~Narrows(p) \/ drivers \in {original, Filtered(original, filter)}
    PROVE  Filtered(Searched(p), p) = Filtered(original, p)
<1>1. CASE Narrows(p) /\ drivers = Filtered(original, filter)
  <2>1. filter \in Pattern BY <1>1 DEF DriverTypeOK, Narrows
  <2>2. Matched[p] \subseteq Matched[filter]
    BY <1>1, <2>1, DriverAssumption DEF Narrows
  <2>3. drivers = original \cap Matched[filter] BY <1>1 DEF Filtered, Narrows
  <2>4. Searched(p) = drivers BY <1>1 DEF Searched
  <2>5. p # NoFilter BY DriverAssumption
  <2> QED BY <2>2, <2>3, <2>4, <2>5 DEF Filtered
<1>2. CASE ~Narrows(p) \/ drivers = original
  BY <1>2 DEF Searched
<1> QED BY <1>1, <1>2

LEMMA ClearFilterKeeps ==
    ASSUME DriverInv, SetFilter, ClearFilter
    PROVE  DriverInv'
<1>1. Canceled \in Future
  BY DEF DriverInv, DriverTypeOK, Canceled, Future
<1>2. Canceled.step = search.step
  BY DEF DriverInv, DriverTypeOK, Canceled, Future
<1>3. DriverTypeOK'
  <2>1. typed' \in 0..MaxTyped
    BY DriverAssumption DEF DriverInv, DriverTypeOK, SetFilter
  <2>2. reloaded' \in BOOLEAN /\ overtaken' \in BOOLEAN
    BY Zenon DEF ClearFilter, Searching
  <2> QED
    BY <1>1, <2>1, <2>2
    DEF DriverInv, DriverTypeOK, SetFilter, ClearFilter, SetModel
<1>4. FilterShown' /\ SearchFits'
  BY <1>2
  DEF FilterShown, SearchFits, Searching, SetFilter, ClearFilter, SetModel,
      Filtered
<1> QED BY <1>3, <1>4 DEF DriverInv

LEMMA SetPatternKeeps ==
    ASSUME DriverInv, SetFilter, NEW p \in Pattern, SetPattern(p)
    PROVE  DriverInv'
<1>1. Filtered(Searched(p), p) \in SUBSET Driver
  BY DEF DriverInv, DriverTypeOK, Searched, Filtered
<1>2. DriverTypeOK'
  <2>1. overtaken' \in BOOLEAN
    BY Zenon DEF SetPattern
  <2>2. /\ search' \in Future /\ typed' \in 0..MaxTyped
        /\ reloaded' = FALSE /\ begun' = TRUE /\ filter' = p
        /\ UNCHANGED <<original, drivers, loaders>>
    BY <1>1, DriverAssumption
    DEF DriverInv, DriverTypeOK, SetFilter, SetPattern, SetFuture, Future
  <2> QED
    BY <2>1, <2>2 DEF DriverInv, DriverTypeOK
<1>3. FilterShown' /\ SearchFits'
  <2>1. /\ search'.step = "running" /\ ~search'.canceled /\ ~reloaded'
        /\ search'.results = Filtered(Searched(p), p)
        /\ original' = original /\ filter' = p
    BY DEF SetFilter, SetPattern, SetFuture
  <2>2. SUFFICES ASSUME ~overtaken'
                 PROVE  search'.results = Filtered(original, p)
    BY <2>1 DEF FilterShown, SearchFits, Searching, Filtered
  <2>3. ~Narrows(p) \/ drivers \in {original, Filtered(original, filter)}
    BY <2>2 DEF SetPattern, DriverInv, FilterShown
  <2> QED BY <2>1, <2>3, SmallerList DEF DriverInv
<1> QED BY <1>2, <1>3 DEF DriverInv

LEMMA BackgroundKeeps ==
    ASSUME DriverInv, DriverBackground
    PROVE  DriverInv'
<1>1. CASE SearchDone
  <2>1. /\ search' \in Future
        /\ search'.step = "finished"
        /\ search'.canceled = search.canceled
        /\ search'.results = search.results
    BY <1>1 DEF SearchDone, DriverInv, DriverTypeOK, Future
  <2>2. DriverTypeOK'
    BY <1>1, <2>1 DEF SearchDone, DriverInv, DriverTypeOK
  <2>3. FilterShown' /\ SearchFits'
    BY <1>1, <2>1
    DEF SearchDone, DriverInv, FilterShown, SearchFits, Searching, Filtered
  <2> QED BY <2>2, <2>3 DEF DriverInv
<1>2. CASE SearchReported
  BY <1>2 DEF SearchReported, FilterFinished, SetModel, NoFuture, DriverInv,
              DriverTypeOK, FilterShown, SearchFits, Searching, Future, Filtered
<1>3. CASE LoaderDone
  <2>1. DriverTypeOK'
    <3>1. loaders' \in 0..MaxLoads
      BY <1>3, DriverAssumption DEF LoaderDone, DriverInv, DriverTypeOK
    <3>2. original' \in SUBSET Driver /\ drivers' \in SUBSET Driver /\ begun' \in BOOLEAN
      BY <1>3, DriverAssumption
      DEF LoaderDone, PrinterDriversLoaded, SetModel, DriverInv, DriverTypeOK
    <3>3. reloaded' \in BOOLEAN /\ overtaken' \in BOOLEAN
      BY <1>3, Zenon
      DEF LoaderDone, PrinterDriversLoaded, DriverInv, DriverTypeOK, Searching
    <3> QED BY <1>3, <3>1, <3>2, <3>3 DEF LoaderDone, DriverInv, DriverTypeOK
  <2>2. FilterShown' /\ SearchFits'
    <3>1. CASE \E list \in Catalogues : PrinterDriversLoaded(list)
      <4>1. PICK list \in Catalogues : PrinterDriversLoaded(list)
        BY <3>1
      <4>2. Searching => overtaken'
        BY <4>1, Zenon DEF PrinterDriversLoaded
      <4>3. original' = drivers' /\ reloaded' = TRUE /\ search' = search
        BY <1>3, <4>1 DEF LoaderDone, PrinterDriversLoaded, SetModel
      <4> QED BY <4>2, <4>3 DEF FilterShown, SearchFits, Searching
    <3>2. CASE UNCHANGED <<original, drivers, begun, reloaded, overtaken>>
      BY <1>3, <3>2 DEF LoaderDone, DriverInv, FilterShown, SearchFits, Searching,
                        Filtered
    <3> QED BY <1>3, <3>1, <3>2 DEF LoaderDone
  <2> QED BY <2>1, <2>2 DEF DriverInv
<1> QED BY <1>1, <1>2, <1>3 DEF DriverBackground

LEMMA PrepareKeeps ==
    ASSUME DriverInv, PrepareToAddPrinter
    PROVE  DriverInv'
<1>1. DriverTypeOK'
  <2>1. loaders' \in 0..MaxLoads
    BY DriverAssumption DEF PrepareToAddPrinter, DriverInv, DriverTypeOK
  <2> QED BY <2>1 DEF PrepareToAddPrinter, DriverInv, DriverTypeOK
<1>2. FilterShown' /\ SearchFits'
  BY DEF PrepareToAddPrinter, DriverInv, FilterShown, SearchFits, Searching,
         Filtered
<1> QED BY <1>1, <1>2 DEF DriverInv

LEMMA DriverInvInit == Init => DriverInv
<1> SUFFICES ASSUME Init PROVE DriverInv OBVIOUS
<1>1. DriverTypeOK
  <2>1. NoFuture \in Future BY DEF NoFuture, Future
  <2>2. 0 \in 0..MaxTyped /\ 0 \in 0..MaxLoads BY DriverAssumption
  <2> QED BY <2>1, <2>2 DEF Init, DriverInit, DriverTypeOK
<1>2. FilterShown /\ SearchFits
  BY DEF Init, DriverInit, FilterShown, SearchFits, Searching, NoFuture, Filtered
<1> QED BY <1>1, <1>2 DEF DriverInv

LEMMA DriverInvNext == DriverInv /\ [Next]_vars => DriverInv'
<1> SUFFICES ASSUME DriverInv, [Next]_vars PROVE DriverInv' OBVIOUS
<1>1. CASE UNCHANGED driverVars
  BY <1>1 DEF driverVars, DriverInv, DriverTypeOK, FilterShown, SearchFits,
              Searching, Filtered
<1>2. CASE OpenPage BY <1>2, PrepareKeeps DEF OpenPage
<1>3. CASE FilterDrivers
  BY <1>3, ClearFilterKeeps, SetPatternKeeps DEF FilterDrivers, SetFilter
<1>4. CASE DriversInBackground BY <1>4, BackgroundKeeps DEF DriversInBackground
<1> QED BY <1>1, <1>2, <1>3, <1>4
        DEF Next, vars, SearchForDevices, DevicesInBackground

\* drivermodel.cpp:115-139 and 162-166: at rest the drivers shown are those that
\* fit the filter, though they were looked for in the smaller list, and all
\* there are once a load has come under that filter, unless a search was
\* overtaken by a load, an empty filter or the next search in its results.
THEOREM DriversFitFilter == Spec => []FilterShown
<1>1. DriverInv => FilterShown BY DEF DriverInv
<1> QED BY <1>1, DriverInvInit, DriverInvNext, PTL DEF Spec

-----------------------------------------------------------------------------
(* Devices *)

\* The signal that ends a search is the last one that waits.
FinishedIsLast ==
    /\ signals # <<>>
    /\ \A i \in 1..Len(signals) : signals[i] = Finished <=> i = Len(signals)

\* One thread at most searches, and nothing waits when no search is on.
OneSearch ==
    /\ ~isSearching => searchers = 0 /\ signals = <<>>
    /\ isSearching => \/ searchers = 1 /\ ~Contains(signals, Finished)
                      \/ searchers = 0 /\ FinishedIsLast

\* What was reported is listed or waits, if it is wanted.
ListedOrWaits ==
    \A d \in Wanted :
        d \in reported <=> Contains(devices, d) \/ Contains(signals, d)

DeviceInv == DeviceTypeOK /\ OneSearch /\ ListedOrWaits /\ IsInjective(devices)

LEMMA AppendContains ==
    ASSUME NEW S, NEW s \in Seq(S), NEW e \in S, NEW d
    PROVE  Contains(Append(s, e), d) <=> Contains(s, d) \/ d = e
<1> DEFINE t == Append(s, e)
<1>1. /\ Len(s) \in Nat /\ Len(t) = Len(s) + 1
      /\ t[Len(s) + 1] = e
      /\ \A i \in 1..Len(s) : t[i] = s[i]
  OBVIOUS
<1> HIDE DEF t
<1>2. ASSUME Contains(t, d) PROVE Contains(s, d) \/ d = e
  <2>1. PICK i \in 1..Len(t) : t[i] = d BY <1>2 DEF Contains
  <2>2. CASE i = Len(s) + 1 BY <1>1, <2>1, <2>2
  <2>3. CASE i \in 1..Len(s) BY <1>1, <2>1, <2>3 DEF Contains
  <2> QED BY <1>1, <2>2, <2>3
<1>3. ASSUME Contains(s, d) PROVE Contains(t, d)
  <2>1. PICK i \in 1..Len(s) : s[i] = d BY <1>3 DEF Contains
  <2>2. i \in 1..Len(t) /\ t[i] = d BY <1>1, <2>1
  <2> QED BY <2>2 DEF Contains
<1>4. ASSUME d = e PROVE Contains(t, d)
  <2>1. Len(s) + 1 \in 1..Len(t) BY <1>1
  <2> QED BY <1>1, <1>4, <2>1 DEF Contains
<1> QED BY <1>2, <1>3, <1>4 DEF t

LEMMA TailContains ==
    ASSUME NEW S, NEW s \in Seq(S), s # <<>>, NEW d
    PROVE  Contains(s, d) <=> d = Head(s) \/ Contains(Tail(s), d)
<1>1. Len(s) \in Nat \ {0} /\ Head(s) = s[1] OBVIOUS
<1>2. Len(Tail(s)) = Len(s) - 1 OBVIOUS
<1>3. \A i \in 1..Len(Tail(s)) : Tail(s)[i] = s[i + 1] OBVIOUS
<1>4. ASSUME Contains(s, d) PROVE d = Head(s) \/ Contains(Tail(s), d)
  <2>1. PICK i \in 1..Len(s) : s[i] = d BY <1>4 DEF Contains
  <2>2. CASE i = 1 BY <2>1, <2>2, <1>1
  <2>3. CASE i # 1
    <3>1. i - 1 \in 1..Len(Tail(s)) BY <2>3, <1>1, <1>2
    <3>2. Tail(s)[i - 1] = d BY <3>1, <1>3, <2>1
    <3> QED BY <3>1, <3>2 DEF Contains
  <2> QED BY <2>2, <2>3
<1>5. ASSUME d = Head(s) PROVE Contains(s, d)
  BY <1>1, <1>5 DEF Contains
<1>6. ASSUME Contains(Tail(s), d) PROVE Contains(s, d)
  <2>1. PICK i \in 1..Len(Tail(s)) : Tail(s)[i] = d BY <1>6 DEF Contains
  <2>2. i + 1 \in 1..Len(s) /\ s[i + 1] = d BY <2>1, <1>1, <1>2, <1>3
  <2> QED BY <2>2 DEF Contains
<1> QED BY <1>4, <1>5, <1>6

LEMMA EmptyContains == \A d : ~Contains(<<>>, d)
BY DEF Contains

LEMMA DeviceInvInit == Init => DeviceInv
<1> SUFFICES ASSUME Init PROVE DeviceInv OBVIOUS
<1>1. DeviceTypeOK
  <2>1. <<>> \in Seq(Wanted) /\ <<>> \in Seq(Device \cup {Finished}) OBVIOUS
  <2> QED BY <2>1 DEF Init, DeviceInit, DeviceTypeOK
<1>2. OneSearch BY DEF Init, DeviceInit, OneSearch
<1>3. ListedOrWaits BY EmptyContains DEF Init, DeviceInit, ListedOrWaits
<1>4. IsInjective(devices) BY DEF Init, DeviceInit, IsInjective
<1> QED BY <1>1, <1>2, <1>3, <1>4 DEF DeviceInv

LEMMA LoadKeeps ==
    ASSUME DeviceInv, Load
    PROVE  DeviceInv'
<1>1. CASE isSearching
  BY <1>1 DEF Load, deviceVars, DeviceInv, DeviceTypeOK, OneSearch,
              FinishedIsLast, ListedOrWaits
<1>2. CASE ~isSearching
  <2>1. searchers = 0 /\ signals = <<>> BY <1>2 DEF DeviceInv, OneSearch
  <2>2. /\ devices' = <<>> /\ signals' = <<>> /\ reported' = {}
        /\ searchers' = 1 /\ isSearching' = TRUE
    BY <1>2, <2>1 DEF Load
  <2> QED
    BY <2>2, EmptyContains
    DEF DeviceInv, DeviceTypeOK, OneSearch, ListedOrWaits, IsInjective
<1> QED BY <1>1, <1>2

LEMMA FindsKeeps ==
    ASSUME DeviceInv, NEW device \in Device, SearcherFinds(device)
    PROVE  DeviceInv'
<1>1. DeviceTypeOK' BY DEF SearcherFinds, DeviceInv, DeviceTypeOK
<1>2. \A d : Contains(signals', d) <=> Contains(signals, d) \/ d = device
  BY AppendContains DEF SearcherFinds, DeviceInv, DeviceTypeOK
<1>3. isSearching /\ searchers = 1 /\ ~Contains(signals, Finished)
  BY DEF SearcherFinds, DeviceInv, DeviceTypeOK, OneSearch
<1>4. OneSearch'
  BY <1>2, <1>3, DeviceAssumption DEF SearcherFinds, OneSearch
<1>5. ListedOrWaits'
  BY <1>2 DEF SearcherFinds, DeviceInv, ListedOrWaits
<1> QED BY <1>1, <1>4, <1>5 DEF DeviceInv, SearcherFinds

LEMMA EndsKeeps ==
    ASSUME DeviceInv, SearcherEnds
    PROVE  DeviceInv'
<1>1. isSearching /\ searchers = 1 /\ ~Contains(signals, Finished)
  BY DEF SearcherEnds, DeviceInv, DeviceTypeOK, OneSearch
<1>2. DeviceTypeOK' BY <1>1 DEF SearcherEnds, DeviceInv, DeviceTypeOK
<1>3. \A d : Contains(signals', d) <=> Contains(signals, d) \/ d = Finished
  BY AppendContains DEF SearcherEnds, DeviceInv, DeviceTypeOK
<1>4. OneSearch'
  <2>1. /\ Len(signals') = Len(signals) + 1
        /\ signals'[Len(signals')] = Finished
        /\ \A i \in 1..Len(signals) : signals'[i] = signals[i]
        /\ Len(signals) \in Nat
    BY DEF SearcherEnds, DeviceInv, DeviceTypeOK
  <2>2. \A i \in 1..Len(signals) : signals[i] # Finished
    BY <1>1 DEF Contains
  <2>3. FinishedIsLast'
    BY <2>1, <2>2, EmptyContains DEF FinishedIsLast
  <2> QED BY <1>1, <2>3 DEF SearcherEnds, OneSearch
<1>5. ListedOrWaits'
  <2>1. Finished \notin Wanted BY DeviceAssumption
  <2> QED BY <1>3, <2>1 DEF SearcherEnds, DeviceInv, ListedOrWaits
<1> QED BY <1>2, <1>4, <1>5 DEF DeviceInv, SearcherEnds

\* deviceLoaded() lists a device once and if it is wanted.
LEMMA DeviceLoadedLists ==
    ASSUME devices \in Seq(Wanted), IsInjective(devices), NEW device,
           DeviceLoaded(device)
    PROVE  /\ devices' \in Seq(Wanted)
           /\ IsInjective(devices')
           /\ \A d \in Wanted :
                  Contains(devices', d) <=> Contains(devices, d) \/ d = device
<1>1. CASE device \in Wanted /\ ~Contains(devices, device)
  <2>1. devices' = Append(devices, device) BY <1>1 DEF DeviceLoaded
  <2>2. \A d : Contains(devices', d) <=> Contains(devices, d) \/ d = device
    BY <1>1, <2>1, AppendContains
  <2>3. IsInjective(devices')
    BY <1>1, <2>1 DEF IsInjective, Contains
  <2> QED BY <1>1, <2>1, <2>2, <2>3
<1>2. CASE ~(device \in Wanted /\ ~Contains(devices, device))
  BY <1>2 DEF DeviceLoaded
<1> QED BY <1>1, <1>2

LEMMA TakeKeeps ==
    ASSUME DeviceInv, TakeSignal
    PROVE  DeviceInv'
<1>1. isSearching BY DEF TakeSignal, DeviceInv, OneSearch
<1>2. \A d : Contains(signals, d) <=> d = Head(signals) \/ Contains(signals', d)
  BY TailContains DEF TakeSignal, DeviceInv, DeviceTypeOK
<1>3. /\ signals' \in Seq(Device \cup {Finished})
      /\ Len(signals) \in Nat \ {0} /\ Len(signals') = Len(signals) - 1
      /\ Head(signals) = signals[1]
      /\ \A i \in 1..Len(signals') : signals'[i] = signals[i + 1]
  BY DEF TakeSignal, DeviceInv, DeviceTypeOK
<1>4. CASE Head(signals) = Finished
  <2>1. searchers = 0 /\ FinishedIsLast
    BY <1>1, <1>2, <1>4 DEF DeviceInv, OneSearch
  <2>2. Len(signals) = 1 BY <1>3, <1>4, <2>1 DEF FinishedIsLast
  <2>3. signals' = <<>> BY <1>3, <2>2
  <2>4. isSearching' = FALSE /\ UNCHANGED <<devices, searchers, reported>>
    BY <1>4 DEF TakeSignal
  <2>5. Finished \notin Wanted BY DeviceAssumption
  <2>6. ListedOrWaits'
    BY <1>2, <1>4, <2>4, <2>5 DEF DeviceInv, ListedOrWaits
  <2> QED
    BY <1>3, <2>1, <2>3, <2>4, <2>6 DEF DeviceInv, DeviceTypeOK, OneSearch
<1>5. CASE Head(signals) # Finished
  <2>1. DeviceLoaded(Head(signals)) /\ UNCHANGED <<isSearching, searchers, reported>>
    BY <1>5 DEF TakeSignal
  <2>2. /\ devices' \in Seq(Wanted)
        /\ IsInjective(devices')
        /\ \A d \in Wanted :
               Contains(devices', d) <=> Contains(devices, d) \/ d = Head(signals)
    BY <2>1, DeviceLoadedLists DEF DeviceInv, DeviceTypeOK
  <2>3. OneSearch'
    <3>1. CASE searchers = 1 /\ ~Contains(signals, Finished)
      BY <1>1, <1>2, <2>1, <3>1 DEF OneSearch
    <3>2. CASE searchers = 0 /\ FinishedIsLast
      <4>1. Len(signals) > 1 BY <1>3, <1>5, <3>2 DEF FinishedIsLast
      <4>2. signals' # <<>> BY <1>3, <4>1
      <4>3. FinishedIsLast'
        BY <1>3, <3>2, <4>1, <4>2 DEF FinishedIsLast
      <4> QED BY <1>1, <2>1, <3>2, <4>3 DEF OneSearch
    <3> QED BY <1>1, <3>1, <3>2 DEF DeviceInv, OneSearch
  <2>4. ListedOrWaits'
    BY <1>2, <2>1, <2>2 DEF DeviceInv, ListedOrWaits
  <2> QED BY <1>3, <2>1, <2>2, <2>3, <2>4 DEF DeviceInv, DeviceTypeOK
<1> QED BY <1>4, <1>5

LEMMA DeviceInvNext == DeviceInv /\ [Next]_vars => DeviceInv'
<1> SUFFICES ASSUME DeviceInv, [Next]_vars PROVE DeviceInv' OBVIOUS
<1>1. CASE UNCHANGED deviceVars
  BY <1>1 DEF deviceVars, DeviceInv, DeviceTypeOK, OneSearch, FinishedIsLast,
              ListedOrWaits
<1>2. CASE Load BY <1>2, LoadKeeps
<1>3. CASE DeviceBackground
  BY <1>3, FindsKeeps, EndsKeeps, TakeKeeps DEF DeviceBackground
<1> QED BY <1>1, <1>2, <1>3
        DEF Next, vars, OpenPage, FilterDrivers, SearchForDevices,
            DriversInBackground, DevicesInBackground

\* Whatever is listed was reported by the search under way or the last one,
\* once, and nothing is missing when it is over.
THEOREM DevicesOfOneSearch == Spec => []DevicesOfSearch
<1>1. DeviceInv => DevicesOfSearch
  <2> SUFFICES ASSUME DeviceInv PROVE DevicesOfSearch OBVIOUS
  <2>1. ToSet(devices) = {d \in Wanted : Contains(devices, d)}
    BY DEF ToSet, Contains, DeviceInv, DeviceTypeOK
  <2> QED
    BY <2>1, EmptyContains
    DEF DeviceInv, DevicesOfSearch, OneSearch, ListedOrWaits
<1> QED BY <1>1, DeviceInvInit, DeviceInvNext, PTL DEF Spec

\* The page's drivers, devices, filters and signals always are of their types,
\* whatever is loaded, searched for, found and filtered, and in which order.
THEOREM PageTypes == Spec => []TypeOK
<1>1. DriverInv /\ DeviceInv => TypeOK BY DEF DriverInv, DeviceInv, TypeOK
<1> QED BY <1>1, DriverInvInit, DriverInvNext, DeviceInvInit, DeviceInvNext, PTL DEF Spec

=============================================================================
