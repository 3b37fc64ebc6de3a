------------------------------- MODULE WatchFix -------------------------------
(***************************************************************************)
(* One coordinator's fan-out over its watches: _fetch_watch_entry,         *)
(* data_loop, _refresh_watch_fix, get_location, get_map, get_data and the  *)
(* merge of the result into self.data (coordinator.py), with the client's  *)
(* setDevices that feeds them.                                             *)
(*                                                                         *)
(* The loop works on attributes of the coordinator (self.device, self.lat, *)
(* self.location_name, ...) across its awaits.  The update coalescer keeps *)
(* one fetch per request signature, so loops of different signatures may   *)
(* overlap on those attributes.                                            *)
(*                                                                         *)
(* A fix <<w, n>> is everything the server reports of watch w at a time:   *)
(* position, battery, safe zone; n = 0 has no position.  The address of a  *)
(* fix is written as the fix itself.                                       *)
(***************************************************************************)
EXTENDS Naturals, Sequences, Functions

CONSTANTS
  Watches,
  Requests,   \* signatures: [watches: a sequence of watches, history: {"wanted", "not"}]
  MaxFix,     \* number of positions a watch may report
  NoName,     \* location_name is None
  Nothing     \* no entry, no cached address, no fix

ASSUME ConstantsAssumption ==
  MaxFix \in Nat /\ \A r \in Requests : r.watches \in Seq(Watches) \ {<<>>}

VARIABLES
  provider,   \* self._maps
  dict,       \* client: controller.device, the fix of each watch
  device,     \* self.device: whose dict, what it holds, whether the client still has it
  status,     \* self.lat, self.lng, self.battery, ...: the fix last read by get_location
  name,       \* self.location_name and self.licence
  cache,      \* _geocode_cache: for each watch the fix and the address
  data,       \* self.data: for each watch the fix and the address
  overlap,    \* a fetch was started while another one ran
  pc,         \* each fetch: progress
  todo,       \* watches its loop has left, the current one first
  listed,     \* fixes of the deviceList answer not yet put into controller.device
  at, asked,  \* the fix its lookup began with; the fix mapbox was asked for
  result, snapshot   \* entries built by the loop; self.data when the fetch began

attrs  == <<device, status, name>>
locals == <<todo, listed, at, asked, result, snapshot>>
vars == <<provider, dict, attrs, cache, data, overlap, pc, locals>>

Fixes == Watches \X (0 .. MaxFix)
Reported(w) == {w} \X (0 .. MaxFix)      \* what an answer about w may carry
HasPosition(f) == f[2] > 0
Entry(f, n) == [fix |-> f, name |-> n]
NoEntries == [w \in Watches |-> Nothing]

Init ==
  /\ provider \in {"openstreetmap", "opencage"}
  /\ \E w \in Watches : device = [of |-> w, fix |-> <<w, 0>>, age |-> "replaced"] /\ status = <<w, 0>>
  /\ dict = [w \in Watches |-> <<w, 0>>]
  /\ name = NoName
  /\ cache = NoEntries
  /\ data = NoEntries
  /\ overlap = "never"
  /\ pc = [r \in Requests |-> "idle"]
  /\ todo = [r \in Requests |-> <<>>]
  /\ listed = [r \in Requests |-> NoEntries]
  /\ at = [r \in Requests |-> Nothing]
  /\ asked = [r \in Requests |-> Nothing]
  /\ result = [r \in Requests |-> NoEntries]
  /\ snapshot = [r \in Requests |-> NoEntries]

Goto(r, l) == pc' = [pc EXCEPT ![r] = l]

-----------------------------------------------------------------------------
(* _fetch_and_store_xplora_data and _fetch_watch_entry                     *)

Start(r) ==
  /\ pc[r] = "idle"
  /\ snapshot' = [snapshot EXCEPT ![r] = data]
  /\ overlap' = IF \E q \in Requests : pc[q] # "idle" THEN "happened" ELSE overlap
  /\ Goto(r, "devices")
  /\ UNCHANGED <<provider, dict, attrs, cache, data, todo, listed, at, asked, result>>

NoLookup(r) == at' = [at EXCEPT ![r] = Nothing] /\ asked' = [asked EXCEPT ![r] = Nothing]

Reset(r) ==
  /\ todo' = [todo EXCEPT ![r] = <<>>]
  /\ listed' = [listed EXCEPT ![r] = NoEntries]
  /\ NoLookup(r)
  /\ result' = [result EXCEPT ![r] = NoEntries]

\* A request of the fetch, or of the geocoder, raises: the update fails.
Fail(r) ==
  /\ pc[r] # "idle"
  /\ Goto(r, "idle")
  /\ Reset(r)
  /\ snapshot' = [snapshot EXCEPT ![r] = NoEntries]
  /\ UNCHANGED <<provider, dict, attrs, cache, data, overlap>>

\* A controller call met a rejected token, which was recovered:
\* _with_recovery runs the whole fan-out again.
Rerun(r) ==
  /\ pc[r] \in {"functions", "locating", "history"}
  /\ Goto(r, "devices")
  /\ Reset(r)
  /\ UNCHANGED <<provider, dict, attrs, cache, data, overlap, snapshot>>

-----------------------------------------------------------------------------
(* data_loop: the synchronous stretch from get_data to the next await.     *)

\* self.device is assigned once, before the loop.
Bug_BeginTurn(r, left, entries, d) ==
  /\ device' = IF left = r.watches THEN [of |-> Head(left), fix |-> d[Head(left)], age |-> "current"] ELSE device
  /\ todo' = [todo EXCEPT ![r] = left]
  /\ result' = [result EXCEPT ![r] = entries]
  /\ NoLookup(r)
  /\ Goto(r, "locating")
  /\ UNCHANGED <<data, snapshot>>

\* The next watch's turn begins on its dict in d.
BeginTurn(r, left, entries, d) ==
  /\ device' = [of |-> Head(left), fix |-> d[Head(left)], age |-> "current"]
  /\ todo' = [todo EXCEPT ![r] = left]
  /\ result' = [result EXCEPT ![r] = entries]
  /\ NoLookup(r)
  /\ Goto(r, "locating")
  /\ UNCHANGED <<data, snapshot>>

\* self.data is replaced by what this fetch built.
Bug_Merged(r, entries) == entries

\* self.data.update with the entries of the loop over those of the snapshot.
Merged(r, entries) ==
  [w \in Watches |-> IF entries[w] # Nothing THEN entries[w]
                     ELSE IF snapshot[r][w] # Nothing THEN snapshot[r][w] ELSE data[w]]

Store(r, entries, held) ==
  /\ data' = Merged(r, entries)
  /\ device' = held
  /\ todo' = [todo EXCEPT ![r] = <<>>]
  /\ NoLookup(r)
  /\ result' = [result EXCEPT ![r] = NoEntries]
  /\ snapshot' = [snapshot EXCEPT ![r] = NoEntries]
  /\ Goto(r, "idle")

\* get_data reads the attributes s and n, whoever wrote them last.
EndTurn(r, d, held, s, n) ==
  LET entries == [result[r] EXCEPT ![Head(todo[r])] = Entry(s, n)]
      left    == Tail(todo[r])
  IN  IF left # <<>> THEN BeginTurn(r, left, entries, d) ELSE Store(r, entries, held)

\* After get_map: the history request when it is wanted, else get_data.
MapDone(r, d, held, s, n) ==
  IF r.history = "wanted"
    THEN /\ Goto(r, "history") /\ device' = held
         /\ UNCHANGED <<todo, result, at, asked, data, snapshot>>
    ELSE EndTurn(r, d, held, s, n)

HistoryLoaded(r) ==
  /\ pc[r] = "history"
  /\ EndTurn(r, dict, device, status, name)
  /\ UNCHANGED <<provider, dict, status, name, cache, overlap, listed>>

-----------------------------------------------------------------------------
(* setDevices                                                              *)

\* The deviceList answers.  Without functions to fetch every dict is replaced
\* at once and the loop begins; else each waits for its own requests.
DevicesListed(r, fixes) ==
  LET set == Range(r.watches)
      d   == [w \in Watches |-> IF w \in set THEN fixes[w] ELSE dict[w]]
  IN  /\ pc[r] = "devices"
      /\ \A w \in set : fixes[w] \in Reported(w)
      /\ \/ /\ dict' = d
            /\ BeginTurn(r, r.watches, NoEntries, d)
            /\ UNCHANGED listed
         \/ /\ listed' = [listed EXCEPT ![r] = [w \in Watches |-> IF w \in set THEN fixes[w] ELSE Nothing]]
            /\ Goto(r, "functions")
            /\ UNCHANGED <<dict, device, todo, result, at, asked, data, snapshot>>
      /\ UNCHANGED <<provider, status, name, cache, overlap>>

FunctionsFetched(r, w) ==
  LET rest == [listed[r] EXCEPT ![w] = Nothing]
      d    == [dict EXCEPT ![w] = listed[r][w]]
  IN  /\ pc[r] = "functions" /\ listed[r][w] # Nothing
      /\ dict' = d
      /\ listed' = [listed EXCEPT ![r] = rest]
      /\ IF rest = NoEntries
           THEN BeginTurn(r, r.watches, NoEntries, d)
           ELSE /\ device' = IF device.of = w THEN [device EXCEPT !.age = "replaced"] ELSE device
                /\ UNCHANGED <<pc, todo, result, at, asked, data, snapshot>>
      /\ UNCHANGED <<provider, status, name, cache, overlap>>

-----------------------------------------------------------------------------
(* A turn: _refresh_watch_fix, get_location, get_map                       *)

\* The watch's own fix is overlaid on self.device, whichever watch that is by
\* now, if it carries a position; the dict is the client's while it is current.
Overlaid(fresh) == IF fresh # Nothing /\ HasPosition(fresh) THEN [device EXCEPT !.fix = fresh] ELSE device

\* The fix is not compared.
Bug_CacheHit(w, s) == cache[w] # Nothing

CacheHit(w, s) == cache[w] # Nothing /\ cache[w].fix = s

LookUp(r, s) ==
  /\ at' = [at EXCEPT ![r] = s]
  /\ Goto(r, "geocoding")
  /\ name' = NoName

Located(r, fresh) ==
  LET w    == Head(todo[r])
      held == Overlaid(fresh)
      s    == held.fix
      d    == IF device.age = "current" THEN [dict EXCEPT ![device.of] = s] ELSE dict
  IN  /\ dict' = d
      /\ status' = s
      /\ \/ /\ ~HasPosition(s)
            /\ name' = name
            /\ MapDone(r, d, held, s, name)
         \/ /\ HasPosition(s) /\ CacheHit(w, s)
            /\ name' = cache[w].name
            /\ MapDone(r, d, held, s, cache[w].name)
         \/ /\ HasPosition(s) /\ ~CacheHit(w, s)
            /\ LookUp(r, s)
            /\ device' = held
            /\ UNCHANGED <<todo, result, asked, data, snapshot>>
      /\ UNCHANGED <<provider, cache, overlap, listed>>

\* The last WatchLastLocate answers, or none was of use.
FixRead(r) ==
  /\ pc[r] = "locating"
  /\ \E fresh \in Reported(Head(todo[r])) \union {Nothing} : Located(r, fresh)

\* Only a resolved address is cached, under the fix the lookup began with.
Resolved(r, n) ==
  /\ name' = n
  /\ cache' = IF n = NoName THEN cache ELSE [cache EXCEPT ![Head(todo[r])] = Entry(at[r], n)]
  /\ MapDone(r, dict, device, status, n)
  /\ UNCHANGED <<provider, dict, status, overlap, listed>>

\* openstreetmap: an answer without an address assigns no location_name.
StreetMapAnswered(r) ==
  /\ pc[r] = "geocoding" /\ provider = "openstreetmap"
  /\ \E n \in {at[r], name} : Resolved(r, n)

\* opencagedata: the address now, the licence in a second request.
OpenCageAnswered(r) ==
  /\ pc[r] = "geocoding" /\ provider = "opencage"
  /\ name' = at[r]
  /\ Goto(r, "licence")
  /\ UNCHANGED <<provider, dict, device, status, cache, data, overlap, locals>>

LicenceAnswered(r) ==
  /\ pc[r] = "licence"
  /\ Resolved(r, name)

\* A ContentTypeError: mapbox is asked for the place self.lat, self.lng are at.
FallBack(r) ==
  /\ pc[r] \in {"geocoding", "licence"}
  /\ asked' = [asked EXCEPT ![r] = status]
  /\ Goto(r, "mapbox")
  /\ UNCHANGED <<provider, dict, attrs, cache, data, overlap, todo, listed, at, result, snapshot>>

MapboxAnswered(r) ==
  /\ pc[r] = "mapbox"
  /\ \E n \in {asked[r], name} : Resolved(r, n)

-----------------------------------------------------------------------------
Step(r) ==
  \/ Start(r) \/ Fail(r) \/ Rerun(r)
  \/ \E fixes \in [Watches -> Fixes] : DevicesListed(r, fixes)
  \/ \E w \in Watches : FunctionsFetched(r, w)
  \/ FixRead(r) \/ StreetMapAnswered(r) \/ OpenCageAnswered(r) \/ LicenceAnswered(r)
  \/ FallBack(r) \/ MapboxAnswered(r) \/ HistoryLoaded(r)

Next == \E r \in Requests : Step(r)

Spec == Init /\ [][Next]_vars

-----------------------------------------------------------------------------
(* Properties                                                              *)

Entries == [fix : Fixes, name : Fixes \union {NoName}]

Alone == overlap = "never"

\* The entry of a watch holds a fix of that watch, though every turn reads
\* attributes the turn before has left behind.
OwnFix == Alone => \A w \in Watches : data[w] # Nothing => data[w].fix[1] = w

\* A watch shown at a position is shown with the address of that position
\* (the reset and the exact match in get_map).
OwnAddress ==
  Alone => \A w \in Watches :
    data[w] # Nothing /\ HasPosition(data[w].fix) => data[w].name \in {NoName, data[w].fix}

Stores(r) == pc[r] # "idle" /\ pc'[r] = "idle"

\* A fetch changes the entries of its own watches only.
OthersKept ==
  [][overlap' = "never" => \A w \in Watches : data'[w] # data[w] =>
       \E r \in Requests : Stores(r) /\ w \in Range(r.watches)]_vars

\* No entry shows the address of another place, whether or not the watch
\* reported a position. The code does not hold it: README, section 6.
NoForeignAddress == \A w \in Watches : data[w] # Nothing => data[w].name \in {NoName, data[w].fix}
=============================================================================
