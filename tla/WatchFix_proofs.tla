---------------------------- MODULE WatchFix_proofs ----------------------------
(***************************************************************************)
(* Proofs about WatchFix, for any watches, requests and positions: while   *)
(* no two fetches overlap, the attributes that the turns of a loop hand on *)
(* carry no fix and no address from one watch, or place, to another.       *)
(***************************************************************************)
EXTENDS WatchFix, SequenceTheorems, TLAPS

\* An entry of w shows a fix of w, and its address if it is at a position.
Good(w, e) ==
  e.fix \in Reported(w) /\ (HasPosition(e.fix) => e.name \in {NoName, e.fix})

\* Where a turn is after get_location has read the fix of its watch.
Resolving == {"geocoding", "licence", "mapbox"}
Turns     == Resolving \union {"locating", "history"}
Places    == Turns \union {"idle", "devices", "functions"}

Names   == Fixes \union {NoName}
Maybe   == Fixes \union {Nothing}
Records == [Watches -> Entries \union {Nothing}]

TypeOK ==
  /\ device \in [of : Watches, fix : Fixes, age : {"current", "replaced"}]
  /\ status \in Fixes /\ name \in Names
  /\ dict \in [Watches -> Fixes] /\ cache \in Records /\ data \in Records
  /\ pc \in [Requests -> Places]
  /\ todo \in [Requests -> Seq(Watches)]
  /\ listed \in [Requests -> [Watches -> Maybe]]
  /\ at \in [Requests -> Maybe] /\ asked \in [Requests -> Maybe]
  /\ result \in [Requests -> Records] /\ snapshot \in [Requests -> Records]

OneFetch == \A q, r \in Requests : pc[q] # "idle" /\ pc[r] # "idle" => q = r

\* What the client and the cache hold, and what has been built, is each watch's own.
OwnStores ==
  /\ \A w \in Watches : dict[w] \in Reported(w)
  /\ \A w \in Watches : data[w] # Nothing => Good(w, data[w])
  /\ \A w \in Watches : cache[w] # Nothing => cache[w].name \in {NoName, cache[w].fix}
  /\ \A r \in Requests, w \in Watches :
       /\ listed[r][w] # Nothing => listed[r][w] \in Reported(w)
       /\ result[r][w] # Nothing => Good(w, result[r][w])
       /\ snapshot[r][w] # Nothing => Good(w, snapshot[r][w])

\* The attributes are those of the watch whose turn it is.
OwnTurn(r) ==
  /\ pc[r] \in Turns => todo[r] # <<>>
  /\ pc[r] = "locating" =>
       device.of = Head(todo[r]) /\ device.fix \in Reported(Head(todo[r]))
  /\ pc[r] \in Resolving \union {"history"} => status \in Reported(Head(todo[r]))
  /\ pc[r] \in Resolving => at[r] = status
  /\ pc[r] = "geocoding" => name = NoName
  /\ pc[r] = "licence" => name = status
  /\ pc[r] = "mapbox" => asked[r] = status /\ name \in {NoName, status}
  /\ pc[r] = "history" /\ HasPosition(status) => name \in {NoName, status}

OwnInv == OneFetch /\ OwnStores /\ \A r \in Requests : OwnTurn(r)

IInv == Alone => TypeOK /\ OwnInv

-----------------------------------------------------------------------------
\* A fix that is reported of a watch is one.
LEMMA ReportedIsFix == ASSUME NEW w \in Watches PROVE Reported(w) \subseteq Fixes
  BY DEF Reported, Fixes

\* While one fetch is at work the turns of all others are empty.
LEMMA OthersIdle ==
  ASSUME OneFetch, NEW r \in Requests, pc[r] # "idle", NEW q \in Requests, q # r
  PROVE  pc[q] = "idle"
  BY DEF OneFetch

\* The first watch of a loop has its turn.
LEMMA TurnTyped ==
  ASSUME TypeOK, NEW r \in Requests, todo[r] # <<>>
  PROVE  Head(todo[r]) \in Watches /\ Tail(todo[r]) \in Seq(Watches)
  BY HeadTailProperties DEF TypeOK

\* The types after the end of a turn.
LEMMA TurnEndsTyped ==
  ASSUME TypeOK, NEW r \in Requests, todo[r] # <<>>,
         NEW d \in [Watches -> Fixes],
         NEW held \in [of : Watches, fix : Fixes, age : {"current", "replaced"}],
         NEW s \in Fixes, NEW n \in Names,
         EndTurn(r, d, held, s, n)
  PROVE  /\ device' \in [of : Watches, fix : Fixes, age : {"current", "replaced"}]
         /\ data' \in Records
         /\ pc' \in [Requests -> Places]
         /\ todo' \in [Requests -> Seq(Watches)]
         /\ at' \in [Requests -> Maybe] /\ asked' \in [Requests -> Maybe]
         /\ result' \in [Requests -> Records] /\ snapshot' \in [Requests -> Records]
<1>. DEFINE entries == [result[r] EXCEPT ![Head(todo[r])] = Entry(s, n)]
            left == Tail(todo[r])
<1>1. Head(todo[r]) \in Watches /\ left \in Seq(Watches)
  BY TurnTyped
<1>2. entries \in Records
  BY <1>1 DEF TypeOK, Records, Entries, Entry, Names
<1>3. NoEntries \in Records
  BY DEF NoEntries, Records
<1>4. CASE left # <<>>
  <2>1. Head(left) \in Watches
    BY <1>1, <1>4, HeadTailProperties
  <2>2. BeginTurn(r, left, entries, d)
    BY <1>4 DEF EndTurn
  <2>. HIDE DEF entries, left
  <2>. QED
    BY <1>1, <1>2, <2>1, <2>2 DEF BeginTurn, NoLookup, Goto, TypeOK, Maybe, Places, Turns
<1>5. CASE left = <<>>
  <2>1. Store(r, entries, held)
    BY <1>5 DEF EndTurn
  <2>2. Merged(r, entries) \in Records
    BY <1>2 DEF Merged, TypeOK, Records
  <2>3. <<>> \in Seq(Watches)
    OBVIOUS
  <2>. HIDE DEF entries
  <2>. QED
    BY <1>3, <2>1, <2>2, <2>3 DEF Store, NoLookup, Goto, TypeOK, Maybe, Places
<1>. QED
  BY <1>4, <1>5

\* What is left to show of a step of r while one fetch is at work: the stores,
\* and the turn of r.
LEMMA OneTurn ==
  ASSUME TypeOK, OwnInv, NEW r \in Requests, pc[r] # "idle",
         \A q \in Requests \ {r} : pc'[q] = pc[q] /\ todo'[q] = todo[q],
         OwnStores', OwnTurn(r)'
  PROVE  OwnInv'
<1>1. \A q \in Requests \ {r} : pc[q] = "idle"
  BY OthersIdle DEF OwnInv
<1>2. OneFetch'
  BY <1>1 DEF OneFetch
<1>3. ASSUME NEW q \in Requests \ {r} PROVE OwnTurn(q)'
  <2>1. pc'[q] = "idle"
    BY <1>1
  <2>. QED
    BY <2>1 DEF OwnTurn, Turns, Resolving
<1>. QED
  BY <1>2, <1>3 DEF OwnInv

\* A loop begins a turn on the dict of its own watch.
LEMMA TurnBegins ==
  ASSUME TypeOK, NEW r \in Requests, NEW left \in Seq(Watches), left # <<>>, NEW entries \in Records,
         NEW d \in [Watches -> Fixes], \A w \in Watches : d[w] \in Reported(w),
         BeginTurn(r, left, entries, d)
  PROVE  OwnTurn(r)'
<1>1. pc'[r] = "locating" /\ todo'[r] = left
      /\ device' = [of |-> Head(left), fix |-> d[Head(left)], age |-> "current"]
  BY DEF BeginTurn, Goto, TypeOK
<1>2. Head(left) \in Watches
  BY HeadTailProperties
<1>. QED
  BY <1>1, <1>2 DEF OwnTurn, Resolving

\* A turn ends with a good entry for its watch.
LEMMA TurnEnds ==
  ASSUME TypeOK, TypeOK', OwnInv, NEW r \in Requests, pc[r] \in Turns,
         dict' \in [Watches -> Fixes], \A w \in Watches : dict'[w] \in Reported(w),
         \A w \in Watches : cache'[w] # Nothing => cache'[w].name \in {NoName, cache'[w].fix},
         NEW held, NEW s \in Fixes, NEW n \in Names,
         Good(Head(todo[r]), Entry(s, n)),
         UNCHANGED listed, EndTurn(r, dict', held, s, n)
  PROVE  OwnInv'
<1>. DEFINE entries == [result[r] EXCEPT ![Head(todo[r])] = Entry(s, n)]
            left == Tail(todo[r])
<1>1. todo[r] # <<>> /\ pc[r] # "idle"
  BY DEF OwnInv, OwnTurn, Turns, Resolving
<1>2. Head(todo[r]) \in Watches /\ left \in Seq(Watches)
  BY <1>1, TurnTyped
<1>3. entries \in Records /\ \A w \in Watches : entries[w] # Nothing => Good(w, entries[w])
  BY <1>2 DEF TypeOK, Records, Entries, Entry, Names, OwnInv, OwnStores
<1>4. CASE left # <<>>
  <2>1. BeginTurn(r, left, entries, dict')
    BY <1>4 DEF EndTurn
  <2>2. OwnTurn(r)'
    BY <1>2, <1>3, <1>4, <2>1, TurnBegins
  <2>. HIDE DEF entries, left
  <2>3. /\ \A q \in Requests \ {r} : pc'[q] = pc[q] /\ todo'[q] = todo[q]
        /\ result' = [result EXCEPT ![r] = entries] /\ UNCHANGED <<data, snapshot>>
    BY <2>1 DEF BeginTurn, Goto, TypeOK
  <2>4. OwnStores'
    BY <1>3, <2>3 DEF OwnInv, OwnStores, TypeOK
  <2>. QED
    BY <1>1, <2>2, <2>3, <2>4, OneTurn
<1>5. CASE left = <<>>
  <2>1. Store(r, entries, held)
    BY <1>5 DEF EndTurn
  <2>. HIDE DEF entries, left
  <2>2. /\ \A q \in Requests \ {r} : pc'[q] = pc[q] /\ todo'[q] = todo[q]
        /\ pc'[r] = "idle" /\ data' = Merged(r, entries)
        /\ result' = [result EXCEPT ![r] = NoEntries]
        /\ snapshot' = [snapshot EXCEPT ![r] = NoEntries]
    BY <2>1 DEF Store, Goto, TypeOK
  <2>3. \A w \in Watches : data'[w] # Nothing => Good(w, data'[w])
    BY <1>3, <2>2 DEF Merged, OwnInv, OwnStores
  <2>4. OwnStores'
    BY <2>2, <2>3 DEF OwnInv, OwnStores, TypeOK, NoEntries
  <2>5. OwnTurn(r)'
    BY <2>2 DEF OwnTurn, Turns, Resolving
  <2>. QED
    BY <1>1, <2>2, <2>4, <2>5, OneTurn
<1>. QED
  BY <1>4, <1>5

\* After get_map the turn ends, or waits for the history with the same fix.
LEMMA MapEnds ==
  ASSUME TypeOK, TypeOK', OwnInv, NEW r \in Requests, pc[r] \in Turns,
         \A w \in Watches : dict'[w] \in Reported(w),
         \A w \in Watches : cache'[w] # Nothing => cache'[w].name \in {NoName, cache'[w].fix},
         NEW held, Good(Head(todo[r]), Entry(status', name')),
         UNCHANGED listed, MapDone(r, dict', held, status', name')
  PROVE  OwnInv'
<1>1. CASE r.history = "wanted"
  <2>1. /\ pc' = [pc EXCEPT ![r] = "history"] /\ UNCHANGED <<todo, result, at, asked, data, snapshot>>
    BY <1>1 DEF MapDone, Goto
  <2>2. OwnTurn(r)'
    BY <2>1 DEF OwnInv, OwnTurn, Turns, Resolving, TypeOK, Good, Entry
  <2>3. OwnStores'
    BY <2>1 DEF OwnInv, OwnStores
  <2>. QED
    BY <2>1, <2>2, <2>3, OneTurn DEF TypeOK, Turns, Resolving
<1>2. CASE r.history # "wanted"
  BY <1>2, TurnEnds DEF MapDone, TypeOK
<1>. QED
  BY <1>1, <1>2

-----------------------------------------------------------------------------
(* The steps                                                               *)

\* No fetch is at work: one begins with what self.data holds.
LEMMA StartKeeps ==
  ASSUME TypeOK, OwnInv, NEW r \in Requests, Start(r), Alone'
  PROVE  TypeOK' /\ OwnInv'
<1>1. \A q \in Requests : pc[q] = "idle"
  BY DEF Start, Alone
<1>2. TypeOK'
  BY DEF Start, Goto, attrs, TypeOK, Places
<1>3. OneFetch'
  BY <1>1 DEF Start, Goto, TypeOK, OneFetch
<1>4. OwnStores'
  BY DEF Start, OwnInv, OwnStores, TypeOK
<1>5. \A q \in Requests : OwnTurn(q)'
  BY <1>1 DEF Start, Goto, TypeOK, OwnTurn, Turns, Resolving
<1>. QED
  BY <1>2, <1>3, <1>4, <1>5 DEF OwnInv

\* A fetch fails or runs again: what it has built is dropped.
LEMMA DropKeeps ==
  ASSUME TypeOK, OwnInv, NEW r \in Requests, Fail(r) \/ Rerun(r)
  PROVE  TypeOK' /\ OwnInv'
<1>1. NoEntries \in Records /\ NoEntries \in [Watches -> Maybe] /\ <<>> \in Seq(Watches)
  BY DEF NoEntries, Records, Maybe
<1>2. /\ pc[r] # "idle" /\ Reset(r) /\ UNCHANGED <<attrs, dict, cache, data>>
      /\ snapshot' = snapshot \/ snapshot' = [snapshot EXCEPT ![r] = NoEntries]
      /\ \E l \in {"idle", "devices"} : pc' = [pc EXCEPT ![r] = l]
  BY DEF Fail, Rerun, Goto
<1>3. TypeOK'
  <2>1. UNCHANGED <<device, status, name, dict, cache, data>> /\ pc' \in [Requests -> Places]
    BY <1>2 DEF attrs, TypeOK, Places
  <2>2. /\ todo' = [todo EXCEPT ![r] = <<>>] /\ listed' = [listed EXCEPT ![r] = NoEntries]
        /\ at' = [at EXCEPT ![r] = Nothing] /\ asked' = [asked EXCEPT ![r] = Nothing]
        /\ result' = [result EXCEPT ![r] = NoEntries]
    BY <1>2 DEF Reset, NoLookup
  <2>3. snapshot' \in [Requests -> Records]
    BY <1>1, <1>2 DEF TypeOK
  <2>. QED
    BY <1>1, <2>1, <2>2, <2>3 DEF TypeOK, Maybe
<1>4. OwnStores'
  BY <1>2 DEF Reset, NoEntries, OwnInv, OwnStores, TypeOK
<1>5. OwnTurn(r)'
  BY <1>2 DEF OwnTurn, Turns, Resolving, TypeOK
<1>6. \A q \in Requests \ {r} : pc'[q] = pc[q] /\ todo'[q] = todo[q]
  BY <1>2 DEF Reset, TypeOK
<1>. QED
  BY <1>2, <1>3, <1>4, <1>5, <1>6, OneTurn

\* A loop begins: every watch in it has a dict.
LEMMA LoopBegins ==
  ASSUME TypeOK, OwnInv, NEW r \in Requests, pc[r] # "idle",
         NEW rest, rest \in [Requests -> [Watches -> Maybe]], listed' = rest,
         \A q \in Requests, w \in Watches : rest[q][w] # Nothing => rest[q][w] \in Reported(w),
         dict' \in [Watches -> Fixes], \A w \in Watches : dict'[w] \in Reported(w),
         BeginTurn(r, r.watches, NoEntries, dict'), UNCHANGED <<status, name, cache>>
  PROVE  TypeOK' /\ OwnInv'
<1>1. /\ r.watches \in Seq(Watches) /\ r.watches # <<>> /\ Head(r.watches) \in Watches
      /\ NoEntries \in Records
  BY ConstantsAssumption, HeadTailProperties DEF NoEntries, Records
<1>2. TypeOK'
  BY <1>1 DEF BeginTurn, NoLookup, Goto, TypeOK, Places, Turns, Maybe
<1>3. OwnTurn(r)'
  BY <1>1, TurnBegins
<1>4. OwnStores'
  BY DEF BeginTurn, NoEntries, OwnInv, OwnStores, TypeOK
<1>5. \A q \in Requests \ {r} : pc'[q] = pc[q] /\ todo'[q] = todo[q]
  BY DEF BeginTurn, Goto, TypeOK
<1>. QED
  BY <1>2, <1>3, <1>4, <1>5, OneTurn

\* The list of devices arrives.
LEMMA ListingKeeps ==
  ASSUME TypeOK, OwnInv, NEW r \in Requests, NEW fixes \in [Watches -> Fixes], DevicesListed(r, fixes)
  PROVE  TypeOK' /\ OwnInv'
<1>. DEFINE set == Range(r.watches)
            d == [w \in Watches |-> IF w \in set THEN fixes[w] ELSE dict[w]]
            waiting == [w \in Watches |-> IF w \in set THEN fixes[w] ELSE Nothing]
<1>1. /\ pc[r] = "devices" /\ \A w \in set : fixes[w] \in Reported(w)
      /\ UNCHANGED <<status, name, cache>>
  BY DEF DevicesListed
<1>2. d \in [Watches -> Fixes] /\ \A w \in Watches : d[w] \in Reported(w)
  BY <1>1 DEF TypeOK, OwnInv, OwnStores
<1>3. waiting \in [Watches -> Maybe] /\ \A w \in Watches : waiting[w] # Nothing => waiting[w] \in Reported(w)
  BY <1>1 DEF Maybe
<1>4. CASE dict' = d /\ BeginTurn(r, r.watches, NoEntries, d) /\ UNCHANGED listed
  <2>. HIDE DEF d
  <2>. QED
    BY <1>1, <1>2, <1>4, LoopBegins DEF TypeOK, OwnInv, OwnStores
<1>5. CASE /\ listed' = [listed EXCEPT ![r] = waiting] /\ Goto(r, "functions")
           /\ UNCHANGED <<dict, device, todo, result, at, asked, data, snapshot>>
  <2>. HIDE DEF waiting
  <2>1. TypeOK'
    BY <1>1, <1>3, <1>5 DEF Goto, TypeOK, Places
  <2>2. OwnStores'
    BY <1>1, <1>3, <1>5 DEF OwnInv, OwnStores, TypeOK
  <2>3. OwnTurn(r)'
    BY <1>5 DEF Goto, OwnTurn, Turns, Resolving, TypeOK
  <2>. QED
    BY <1>1, <1>5, <2>1, <2>2, <2>3, OneTurn DEF Goto, TypeOK
<1>. QED
  BY <1>4, <1>5 DEF DevicesListed

\* The reads of one watch are done.
LEMMA FunctionsKeep ==
  ASSUME TypeOK, OwnInv, NEW r \in Requests, NEW w \in Watches, FunctionsFetched(r, w)
  PROVE  TypeOK' /\ OwnInv'
<1>. DEFINE rest == [listed[r] EXCEPT ![w] = Nothing]
            d == [dict EXCEPT ![w] = listed[r][w]]
<1>1. /\ pc[r] = "functions" /\ listed[r][w] # Nothing /\ dict' = d
      /\ listed' = [listed EXCEPT ![r] = rest]
      /\ UNCHANGED <<status, name, cache>>
  BY DEF FunctionsFetched
<1>2. d \in [Watches -> Fixes] /\ \A v \in Watches : d[v] \in Reported(v)
  BY <1>1, ReportedIsFix DEF TypeOK, OwnInv, OwnStores
<1>3. rest \in [Watches -> Maybe] /\ \A v \in Watches : rest[v] # Nothing => rest[v] \in Reported(v)
  BY DEF Maybe, TypeOK, OwnInv, OwnStores
<1>4. /\ listed' \in [Requests -> [Watches -> Maybe]]
      /\ \A q \in Requests, v \in Watches : listed'[q][v] # Nothing => listed'[q][v] \in Reported(v)
  <2>. HIDE DEF rest
  <2>. QED
    BY <1>1, <1>3 DEF TypeOK, OwnInv, OwnStores
<1>5. CASE BeginTurn(r, r.watches, NoEntries, d)
  <2>. HIDE DEF d, rest
  <2>. QED
    BY <1>1, <1>2, <1>4, <1>5, LoopBegins
<1>6. CASE /\ device' = IF device.of = w THEN [device EXCEPT !.age = "replaced"] ELSE device
           /\ UNCHANGED <<pc, todo, result, at, asked, data, snapshot>>
  <2>. HIDE DEF d, rest
  <2>1. TypeOK'
    BY <1>1, <1>2, <1>4, <1>6 DEF TypeOK
  <2>2. OwnStores'
    BY <1>1, <1>2, <1>4, <1>6 DEF OwnInv, OwnStores
  <2>3. OwnTurn(r)'
    BY <1>1, <1>6 DEF OwnTurn, Turns, Resolving
  <2>. QED
    BY <1>1, <1>6, <2>1, <2>2, <2>3, OneTurn
<1>. QED
  BY <1>5, <1>6 DEF FunctionsFetched

\* The types after get_map.
LEMMA MapTyped ==
  ASSUME TypeOK, NEW r \in Requests, todo[r] # <<>>, UNCHANGED listed,
         dict' \in [Watches -> Fixes], cache' \in Records, status' \in Fixes, name' \in Names,
         NEW held \in [of : Watches, fix : Fixes, age : {"current", "replaced"}],
         MapDone(r, dict', held, status', name')
  PROVE  TypeOK'
<1>1. CASE r.history = "wanted"
  BY <1>1 DEF MapDone, Goto, TypeOK, Places, Turns
<1>2. CASE r.history # "wanted"
  BY <1>2, TurnEndsTyped DEF MapDone, TypeOK
<1>. QED
  BY <1>1, <1>2

\* A watch whose turn has come is one, and a fix reported of it is a fix.
LEMMA TurnOf ==
  ASSUME TypeOK, OwnInv, NEW r \in Requests, pc[r] \in Turns
  PROVE  /\ todo[r] # <<>> /\ pc[r] # "idle" /\ Head(todo[r]) \in Watches
         /\ Reported(Head(todo[r])) \subseteq Fixes
  BY TurnTyped, ReportedIsFix DEF OwnInv, OwnTurn, Turns, Resolving

\* The fix of the watch is read: it stands at an address known, or to be found.
LEMMA FixKeeps ==
  ASSUME TypeOK, OwnInv, NEW r \in Requests, FixRead(r)
  PROVE  TypeOK' /\ OwnInv'
<1>1. pc[r] = "locating" /\ pc[r] \in Turns
  BY DEF FixRead, Turns
<1>. DEFINE w == Head(todo[r])
<1>2. w \in Watches /\ todo[r] # <<>> /\ Reported(w) \subseteq Fixes
  BY <1>1, TurnOf
<1>3. PICK fresh \in Reported(w) \union {Nothing} : Located(r, fresh)
  BY DEF FixRead
<1>4. device.of = w /\ device.fix \in Reported(w)
  BY <1>1 DEF OwnInv, OwnTurn
<1>. DEFINE held == Overlaid(fresh)
            s == held.fix
            d == IF device.age = "current" THEN [dict EXCEPT ![device.of] = s] ELSE dict
<1>5. /\ held \in [of : Watches, fix : Fixes, age : {"current", "replaced"}]
      /\ s \in Reported(w)
  BY <1>2, <1>3, <1>4 DEF Overlaid, TypeOK
<1>6. d \in [Watches -> Fixes] /\ \A v \in Watches : d[v] \in Reported(v)
  BY <1>2, <1>4, <1>5 DEF TypeOK, OwnInv, OwnStores
<1>. HIDE DEF d, held, w
<1>7. dict' = d /\ status' = s /\ UNCHANGED <<cache, listed>>
  BY <1>3 DEF Located, d, held
<1>8. CASE ~HasPosition(s) /\ name' = name /\ MapDone(r, d, held, s, name)
  <2>1. Good(w, Entry(s, name))
    BY <1>5, <1>8 DEF Good, Entry
  <2>2. TypeOK'
    BY <1>2, <1>5, <1>6, <1>7, <1>8, MapTyped DEF TypeOK
  <2>. QED
    BY <1>1, <1>6, <1>7, <1>8, <2>1, <2>2, MapEnds DEF OwnInv, OwnStores, w
<1>9. CASE CacheHit(w, s) /\ name' = cache[w].name /\ MapDone(r, d, held, s, cache[w].name)
  <2>1. cache[w] # Nothing /\ cache[w].fix = s /\ cache[w].name \in {NoName, s}
    BY <1>2, <1>9 DEF CacheHit, OwnInv, OwnStores
  <2>2. Good(w, Entry(s, cache[w].name)) /\ cache[w].name \in Names
    BY <1>2, <1>5, <2>1 DEF Good, Entry, Names
  <2>3. TypeOK'
    BY <1>2, <1>5, <1>6, <1>7, <1>9, <2>2, MapTyped DEF TypeOK
  <2>. QED
    BY <1>1, <1>6, <1>7, <1>9, <2>2, <2>3, MapEnds DEF OwnInv, OwnStores, w
<1>10. CASE LookUp(r, s) /\ device' = held /\ UNCHANGED <<todo, result, asked, data, snapshot>>
  <2>1. TypeOK'
    BY <1>2, <1>5, <1>6, <1>7, <1>10 DEF LookUp, Goto, TypeOK, Places, Turns, Resolving, Maybe, Names
  <2>2. OwnStores'
    BY <1>6, <1>7, <1>10 DEF OwnInv, OwnStores
  <2>3. OwnTurn(r)'
    BY <1>2, <1>5, <1>7, <1>10 DEF LookUp, Goto, TypeOK, OwnTurn, Turns, Resolving, w
  <2>. QED
    BY <1>1, <1>10, <2>1, <2>2, <2>3, OneTurn DEF LookUp, Goto, TypeOK
<1>. QED
  BY <1>3, <1>8, <1>9, <1>10 DEF Located, d, held, w

\* An address is found, or none: it is that of the fix the lookup began with.
LEMMA ResolvedKeeps ==
  ASSUME TypeOK, OwnInv, NEW r \in Requests, pc[r] \in Resolving, NEW n \in {NoName, status}, Resolved(r, n)
  PROVE  TypeOK' /\ OwnInv'
<1>1. pc[r] \in Turns /\ at[r] = status /\ status \in Reported(Head(todo[r]))
  BY DEF OwnInv, OwnTurn, Turns
<1>2. /\ todo[r] # <<>> /\ Head(todo[r]) \in Watches /\ status \in Fixes
  BY <1>1, TurnOf
<1>3. /\ name' = n /\ UNCHANGED <<dict, status, listed>>
      /\ cache' = IF n = NoName THEN cache ELSE [cache EXCEPT ![Head(todo[r])] = Entry(at[r], n)]
      /\ MapDone(r, dict, device, status, n)
  BY DEF Resolved
<1>4. n \in Names
  BY <1>2 DEF Names
<1>5. Entry(at[r], n) \in Entries /\ Entry(at[r], n).name \in {NoName, Entry(at[r], n).fix}
  BY <1>1, <1>2, <1>4 DEF Entry, Entries, Names
<1>6. cache' \in Records
  BY <1>2, <1>3, <1>5 DEF TypeOK, Records
<1>7. \A w \in Watches : cache'[w] # Nothing => cache'[w].name \in {NoName, cache'[w].fix}
  BY <1>2, <1>3, <1>5 DEF TypeOK, Records, OwnInv, OwnStores
<1>8. Good(Head(todo[r]), Entry(status, n))
  BY <1>1 DEF Good, Entry
<1>9. TypeOK'
  BY <1>2, <1>3, <1>4, <1>6, MapTyped DEF TypeOK
<1>. QED
  BY <1>1, <1>3, <1>7, <1>8, <1>9, MapEnds DEF OwnInv, OwnStores

\* The providers are asked in turn.
LEMMA LookupKeeps ==
  ASSUME TypeOK, OwnInv, NEW r \in Requests, OpenCageAnswered(r) \/ FallBack(r)
  PROVE  TypeOK' /\ OwnInv'
<1>1. pc[r] \in Resolving /\ at[r] = status /\ status \in Fixes
  <2>1. pc[r] \in Resolving /\ pc[r] \in Turns
    BY DEF OpenCageAnswered, FallBack, Resolving, Turns
  <2>. QED
    BY <2>1, TurnOf DEF OwnInv, OwnTurn
<1>2. TypeOK'
  BY <1>1 DEF OpenCageAnswered, FallBack, Goto, attrs, locals, TypeOK, Places, Turns, Resolving, Maybe, Names
<1>3. OwnStores'
  BY DEF OpenCageAnswered, FallBack, attrs, locals, OwnInv, OwnStores
<1>4. OwnTurn(r)'
  BY <1>1 DEF OpenCageAnswered, FallBack, Goto, attrs, locals, TypeOK, OwnInv, OwnTurn, Turns, Resolving
<1>5. \A q \in Requests \ {r} : pc'[q] = pc[q] /\ todo'[q] = todo[q]
  BY DEF OpenCageAnswered, FallBack, Goto, locals, TypeOK
<1>6. pc[r] # "idle"
  BY <1>1 DEF Resolving
<1>. QED
  BY <1>2, <1>3, <1>4, <1>5, <1>6, OneTurn

\* The history has been fetched; the attributes have waited for it.
LEMMA HistoryKeeps ==
  ASSUME TypeOK, OwnInv, NEW r \in Requests, HistoryLoaded(r)
  PROVE  TypeOK' /\ OwnInv'
<1>1. /\ pc[r] = "history" /\ pc[r] \in Turns
      /\ UNCHANGED <<dict, status, name, cache, listed>>
      /\ EndTurn(r, dict, device, status, name)
  BY DEF HistoryLoaded, Turns
<1>2. Good(Head(todo[r]), Entry(status, name)) /\ todo[r] # <<>>
  BY <1>1, TurnOf DEF Good, Entry, OwnInv, OwnTurn
<1>3. TypeOK'
  BY <1>1, <1>2, TurnEndsTyped DEF TypeOK
<1>. QED
  BY <1>1, <1>2, <1>3, TurnEnds DEF TypeOK, OwnInv, OwnStores

\* The initial states have the invariant.
LEMMA InitInv == Init => IInv
<1>. SUFFICES ASSUME Init PROVE TypeOK /\ OwnInv
  BY DEF IInv
<1>1. /\ NoEntries \in Records /\ NoEntries \in [Watches -> Maybe] /\ <<>> \in Seq(Watches)
      /\ \A w \in Watches : <<w, 0>> \in Reported(w) /\ <<w, 0>> \in Fixes
  BY ConstantsAssumption DEF NoEntries, Records, Maybe, Reported, Fixes
<1>2. PICK w \in Watches : device = [of |-> w, fix |-> <<w, 0>>, age |-> "replaced"] /\ status = <<w, 0>>
  BY DEF Init
<1>3. TypeOK
  BY <1>1, <1>2 DEF Init, TypeOK, Names, Maybe, Places
<1>4. OneFetch /\ OwnStores
  BY <1>1 DEF Init, OneFetch, OwnStores, NoEntries
<1>5. \A r \in Requests : OwnTurn(r)
  BY DEF Init, OwnTurn, Turns, Resolving
<1>. QED
  BY <1>3, <1>4, <1>5 DEF OwnInv

\* Once fetches have overlapped the model says so for ever.
LEMMA OverlapStays == [Next]_vars /\ Alone' => Alone
  BY DEF Next, Step, Start, Fail, Rerun, DevicesListed, FunctionsFetched, FixRead, Located,
         StreetMapAnswered, OpenCageAnswered, LicenceAnswered, FallBack, MapboxAnswered,
         Resolved, HistoryLoaded, vars, Alone

\* Every step keeps it.
LEMMA StepInv == IInv /\ [Next]_vars => IInv'
<1>. SUFFICES ASSUME TypeOK, OwnInv, [Next]_vars, Alone' PROVE TypeOK' /\ OwnInv'
  BY OverlapStays DEF IInv
<1>1. ASSUME NEW r \in Requests, Step(r) PROVE TypeOK' /\ OwnInv'
  <2>1. CASE Start(r)
    BY <2>1, StartKeeps
  <2>2. CASE Fail(r) \/ Rerun(r)
    BY <2>2, DropKeeps
  <2>3. ASSUME NEW fixes \in [Watches -> Fixes], DevicesListed(r, fixes) PROVE TypeOK' /\ OwnInv'
    BY <2>3, ListingKeeps
  <2>4. ASSUME NEW w \in Watches, FunctionsFetched(r, w) PROVE TypeOK' /\ OwnInv'
    BY <2>4, FunctionsKeep
  <2>5. CASE FixRead(r)
    BY <2>5, FixKeeps
  <2>6. CASE StreetMapAnswered(r) \/ LicenceAnswered(r) \/ MapboxAnswered(r)
    <3>1. /\ pc[r] \in Resolving
          /\ \E n : /\ Resolved(r, n)
                    /\ n = name \/ n = at[r] \/ (n = asked[r] /\ pc[r] = "mapbox")
      BY <2>6 DEF StreetMapAnswered, LicenceAnswered, MapboxAnswered, Resolving
    <3>2. at[r] = status /\ name \in {NoName, status} /\ (pc[r] = "mapbox" => asked[r] = status)
      BY <3>1 DEF OwnInv, OwnTurn, Resolving
    <3>. QED
      BY <3>1, <3>2, ResolvedKeeps
  <2>7. CASE OpenCageAnswered(r) \/ FallBack(r)
    BY <2>7, LookupKeeps
  <2>8. CASE HistoryLoaded(r)
    BY <2>8, HistoryKeeps
  <2>. QED
    BY <1>1, <2>1, <2>2, <2>3, <2>4, <2>5, <2>6, <2>7, <2>8 DEF Step
<1>2. CASE UNCHANGED vars
  <2>1. TypeOK'
    BY <1>2 DEF vars, attrs, locals, TypeOK
  <2>2. OwnInv'
    BY <1>2 DEF vars, attrs, locals, OwnInv, OneFetch, OwnStores, OwnTurn
  <2>. QED
    BY <2>1, <2>2
<1>. QED
  BY <1>1, <1>2 DEF Next

\* The invariant holds in every reachable state.
LEMMA Invariant == Spec => []IInv
  BY InitInv, StepInv, PTL DEF Spec

\* For any watches, requests and positions, with any requests failing, running
\* again or answered by the cache: no entry holds the fix of another watch.
THEOREM FixesStayOwn == Spec => []OwnFix
<1>1. IInv => OwnFix
  BY DEF IInv, OwnInv, OwnStores, OwnFix, Good, Reported
<1>. QED
  BY <1>1, Invariant, PTL

\* And no watch is shown at a position with the address of another one, through
\* both providers, the fall-back and the cache.
THEOREM AddressesFit == Spec => []OwnAddress
<1>1. IInv => OwnAddress
  BY DEF IInv, OwnInv, OwnStores, OwnAddress, Good
<1>. QED
  BY <1>1, Invariant, PTL

-----------------------------------------------------------------------------
(* The merge                                                               *)

\* A loop stays among the watches of its request, and while one fetch is at
\* work self.data is what it was when the fetch began.
KeepInv ==
  \A r \in Requests :
    /\ Range(todo[r]) \subseteq Range(r.watches)
    /\ \A w \in Watches : result[r][w] # Nothing => w \in Range(r.watches)
    /\ pc[r] # "idle" => snapshot[r] = data

\* The changes that a step of r may make to self.data.
Kept(r) ==
  \A w \in Watches : data'[w] # data[w] => Stores(r) /\ w \in Range(r.watches)

\* The rest of a sequence is among its elements.
LEMMA TailRange ==
  ASSUME NEW s \in Seq(Watches), s # <<>>
  PROVE  Head(s) \in Range(s) /\ Range(Tail(s)) \subseteq Range(s)
<1>1. /\ Tail(s) \in Seq(Watches) /\ Len(Tail(s)) = Len(s) - 1
      /\ \A i \in 1 .. Len(Tail(s)) : Tail(s)[i] = s[i + 1]
  BY HeadTailProperties
<1>2. Len(s) \in Nat /\ Len(s) # 0 /\ DOMAIN s = 1 .. Len(s) /\ Head(s) = s[1]
  BY EmptySeq, LenProperties
<1>3. DOMAIN Tail(s) = 1 .. Len(Tail(s))
  BY <1>1, LenProperties
<1>4. Head(s) \in Range(s)
  BY <1>2 DEF Range
<1>5. ASSUME NEW i \in DOMAIN Tail(s) PROVE Tail(s)[i] \in Range(s)
  BY <1>1, <1>2, <1>3 DEF Range
<1>. QED
  BY <1>4, <1>5 DEF Range

\* A turn ends: what it stores is of the watches of its request.
LEMMA TurnMerges ==
  ASSUME TypeOK, OneFetch, KeepInv, NEW r \in Requests, pc[r] # "idle", todo[r] # <<>>,
         NEW d, NEW held, NEW s, NEW n, EndTurn(r, d, held, s, n)
  PROVE  KeepInv' /\ Kept(r)
<1>. DEFINE entries == [result[r] EXCEPT ![Head(todo[r])] = Entry(s, n)]
            left == Tail(todo[r])
<1>1. \A q \in Requests \ {r} : pc[q] = "idle"
  BY OthersIdle
<1>2. Head(todo[r]) \in Range(r.watches) /\ Range(left) \subseteq Range(r.watches)
  BY TailRange DEF TypeOK, KeepInv
<1>3. \A w \in Watches : entries[w] # Nothing => w \in Range(r.watches)
  BY <1>2 DEF KeepInv, TypeOK, Records
<1>4. CASE left # <<>>
  <2>1. BeginTurn(r, left, entries, d)
    BY <1>4 DEF EndTurn
  <2>. HIDE DEF entries, left
  <2>. QED
    BY <1>2, <1>3, <2>1 DEF BeginTurn, Goto, KeepInv, Kept, TypeOK
<1>5. CASE left = <<>>
  <2>1. Store(r, entries, held)
    BY <1>5 DEF EndTurn
  <2>. HIDE DEF entries, left
  <2>2. /\ pc' = [pc EXCEPT ![r] = "idle"] /\ data' = Merged(r, entries)
        /\ todo' = [todo EXCEPT ![r] = <<>>]
        /\ result' = [result EXCEPT ![r] = NoEntries]
        /\ snapshot' = [snapshot EXCEPT ![r] = NoEntries]
    BY <2>1 DEF Store, Goto
  <2>3. Range(<<>>) = {}
    BY DEF Range
  <2>4. KeepInv'
    BY <1>1, <2>2, <2>3 DEF KeepInv, TypeOK, NoEntries
  <2>5. \A w \in Watches : data'[w] # data[w] => w \in Range(r.watches)
    BY <1>3, <2>2 DEF Merged, KeepInv
  <2>6. Stores(r)
    BY <2>2 DEF Stores, TypeOK
  <2>. QED
    BY <2>4, <2>5, <2>6 DEF Kept
<1>. QED
  BY <1>4, <1>5

\* After get_map the turn ends, or nothing is stored yet.
LEMMA MapMerges ==
  ASSUME TypeOK, OwnInv, KeepInv, NEW r \in Requests, pc[r] \in Turns,
         NEW d, NEW held, NEW s, NEW n, MapDone(r, d, held, s, n)
  PROVE  KeepInv' /\ Kept(r)
<1>1. todo[r] # <<>> /\ pc[r] # "idle" /\ OneFetch
  BY TurnOf DEF OwnInv
<1>2. CASE r.history = "wanted"
  BY <1>1, <1>2 DEF MapDone, Goto, KeepInv, Kept, TypeOK
<1>3. CASE r.history # "wanted"
  BY <1>1, <1>3, TurnMerges DEF MapDone
<1>. QED
  BY <1>2, <1>3

\* A loop begins.
LEMMA LoopMerges ==
  ASSUME TypeOK, KeepInv, NEW r \in Requests, pc[r] # "idle", NEW d,
         BeginTurn(r, r.watches, NoEntries, d)
  PROVE  KeepInv' /\ Kept(r)
  BY DEF BeginTurn, Goto, NoEntries, KeepInv, Kept, TypeOK

\* Every step of a fetch changes only what it stores.
LEMMA KeepStep ==
  ASSUME TypeOK, OwnInv, KeepInv, NEW r \in Requests, Step(r), Alone'
  PROVE  KeepInv' /\ Kept(r)
<1>1. CASE Start(r)
  <2>1. \A q \in Requests : pc[q] = "idle"
    BY <1>1 DEF Start, Alone
  <2>. QED
    BY <1>1, <2>1 DEF Start, Goto, KeepInv, Kept, TypeOK
<1>2. CASE Fail(r) \/ Rerun(r)
  <2>1. /\ pc[r] # "idle" /\ Reset(r) /\ UNCHANGED data
        /\ \/ pc' = [pc EXCEPT ![r] = "idle"] /\ snapshot' = [snapshot EXCEPT ![r] = NoEntries]
           \/ pc' = [pc EXCEPT ![r] = "devices"] /\ UNCHANGED snapshot
    BY <1>2 DEF Fail, Rerun, Goto
  <2>2. Range(<<>>) = {}
    BY DEF Range
  <2>. QED
    BY <2>1, <2>2 DEF Reset, NoEntries, KeepInv, Kept, TypeOK
<1>3. ASSUME NEW fixes, DevicesListed(r, fixes) PROVE KeepInv' /\ Kept(r)
  <2>1. /\ pc[r] = "devices"
        /\ \/ \E d : BeginTurn(r, r.watches, NoEntries, d)
           \/ Goto(r, "functions") /\ UNCHANGED <<todo, result, data, snapshot>>
    BY <1>3 DEF DevicesListed
  <2>. QED
    BY <2>1, LoopMerges DEF Goto, KeepInv, Kept, TypeOK
<1>4. ASSUME NEW w \in Watches, FunctionsFetched(r, w) PROVE KeepInv' /\ Kept(r)
  <2>1. /\ pc[r] = "functions"
        /\ \/ \E d : BeginTurn(r, r.watches, NoEntries, d)
           \/ UNCHANGED <<pc, todo, result, data, snapshot>>
    BY <1>4 DEF FunctionsFetched
  <2>. QED
    BY <2>1, LoopMerges DEF KeepInv, Kept
<1>5. CASE FixRead(r)
  <2>1. PICK fresh : Located(r, fresh)
    BY <1>5 DEF FixRead
  <2>2. \/ \E d, held, s, n : MapDone(r, d, held, s, n)
        \/ Goto(r, "geocoding") /\ UNCHANGED <<todo, result, data, snapshot>>
    BY <2>1 DEF Located, LookUp
  <2>3. pc[r] \in Turns /\ pc[r] # "idle"
    BY <1>5 DEF FixRead, Turns
  <2>. QED
    BY <2>2, <2>3, MapMerges DEF Goto, KeepInv, Kept, TypeOK
<1>6. CASE StreetMapAnswered(r) \/ LicenceAnswered(r) \/ MapboxAnswered(r)
  <2>1. pc[r] \in Turns /\ \E n : MapDone(r, dict, device, status, n)
    BY <1>6 DEF StreetMapAnswered, LicenceAnswered, MapboxAnswered, Resolved, Turns, Resolving
  <2>. QED
    BY <2>1, MapMerges
<1>7. CASE OpenCageAnswered(r) \/ FallBack(r)
  <2>1. /\ pc[r] # "idle" /\ UNCHANGED <<todo, result, data, snapshot>>
        /\ Goto(r, "licence") \/ Goto(r, "mapbox")
    BY <1>7 DEF OpenCageAnswered, FallBack, locals
  <2>. QED
    BY <2>1 DEF Goto, KeepInv, Kept, TypeOK
<1>8. CASE HistoryLoaded(r)
  <2>1. pc[r] \in Turns /\ EndTurn(r, dict, device, status, name)
    BY <1>8 DEF HistoryLoaded, Turns
  <2>. QED
    BY <2>1, TurnOf, TurnMerges DEF OwnInv
<1>. QED
  BY <1>1, <1>2, <1>3, <1>4, <1>5, <1>6, <1>7, <1>8 DEF Step

\* For any watches and requests: while no two fetches overlap, a fetch leaves
\* the entries of all other watches as they are.
THEOREM OthersAreKept == Spec => OthersKept
<1>. DEFINE Inv == Alone => KeepInv
            Change == overlap' = "never" => \A w \in Watches : data'[w] # data[w] =>
                        \E r \in Requests : Stores(r) /\ w \in Range(r.watches)
<1>1. Init => Inv
  <2>. SUFFICES ASSUME Init PROVE KeepInv
    OBVIOUS
  <2>1. Range(<<>>) = {}
    BY DEF Range
  <2>. QED
    BY <2>1 DEF Init, KeepInv, NoEntries
<1>2. IInv /\ Inv /\ [Next]_vars => Inv' /\ [Change]_vars
  <2>. SUFFICES ASSUME IInv, Inv, [Next]_vars PROVE Inv' /\ [Change]_vars
    OBVIOUS
  <2>1. CASE UNCHANGED vars
    BY <2>1 DEF vars, locals, Alone, KeepInv
  <2>2. CASE Next /\ ~Alone'
    BY <2>2 DEF Alone
  <2>3. CASE Next /\ Alone'
    <3>1. TypeOK /\ OwnInv /\ KeepInv
      BY <2>3, OverlapStays DEF IInv
    <3>2. PICK r \in Requests : Step(r)
      BY <2>3 DEF Next
    <3>3. KeepInv' /\ Kept(r)
      BY <2>3, <3>1, <3>2, KeepStep
    <3>. QED
      BY <3>3 DEF Kept
  <2>. QED
    BY <2>1, <2>2, <2>3
<1>. QED
  BY <1>1, <1>2, Invariant, PTL DEF Spec, OthersKept
=============================================================================
