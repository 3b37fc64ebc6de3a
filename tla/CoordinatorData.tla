---------------------------- MODULE CoordinatorData ----------------------------
(***************************************************************************)
(* coordinator.data, the dict every entity reads, and those who write it:  *)
(* updates, which rebuild the entries of their watches from the client and *)
(* merge them over a snapshot; edits of alarms or silent times, which put  *)
(* the list they fetched again into the entry; and read_message, whose     *)
(* message_data replaces an entry by one that has only the chats.          *)
(*                                                                         *)
(* Entries are mutable and shared: data, snapshots and the dict that       *)
(* read_message keeps hold ids of the heap.  An entry is its list, its     *)
(* chats and whether it has the watch's status.  A list is the number of   *)
(* edits it shows, and the chats are the number of reads that found them.  *)
(* One update is in flight at a time, the server answers all its requests  *)
(* for lists at once, and the phone app does not edit.                     *)
(***************************************************************************)
EXTENDS SharedEntries, FiniteSets

CONSTANTS
  Targets,     \* the sets of watches that a call may name
  Editors,     \* calls of the alarm and silent services
  Ids,         \* ids of the entries of a watch
  Intervals,   \* the choices of scan_interval_functions
  MaxUpdates,  \* bound on the updates that are not the poll's
  MaxFaults    \* bound on failed and repeated requests and restarts

ASSUME ConstantsAssumption ==
  /\ Targets \subseteq SUBSET Watches \ {{}}
  /\ Ids \subseteq Nat \ {0} /\ IsFiniteSet(Ids) /\ IsFiniteSet(Readers)
  /\ Cardinality(Ids) > 2 * Cardinality(Readers) + 1   \* the heap is never full
  /\ Intervals \subseteq {"off", "timed", "with_poll"}
  /\ MaxUpdates \in Nat /\ MaxFaults \in Nat

Lists   == Int
Entries == [list : Lists, messages : Nat, full : BOOLEAN]
Slots   == [Watches -> Ids \union {NoEntry}]
Blank   == [list |-> Empty, messages |-> 0, full |-> FALSE]

VARIABLES
  interval, \* the option scan_interval_functions
  messages, \* reads of each watch's chats
  device,   \* the list in controller.device
  clock,    \* _last_functions_fetch and its store
  editor,   \* the edits
  updates,  \* updates so far that are not the poll's
  faults    \* faults so far

vars == <<interval, edits, messages, device, clock, data, heap, fetch, editor, reader, updates, faults>>

Idle == [at |-> "idle", targets |-> {}, forced |-> FALSE, functions |-> FALSE,
         todo |-> {}, snapshot |-> Nothing, got |-> [w \in Watches |-> Blank], alone |-> FALSE]

Edits(at) == [at |-> at, watch |-> {}, list |-> Empty]

Reads(at) == [at |-> at, watch |-> {}, todo |-> {}, messages |-> 0, attached |-> TRUE, alone |-> FALSE,
              old |-> Nothing, snapshot |-> Nothing, read |-> [w \in Watches |-> 0]]

Init ==
  /\ interval \in Intervals
  /\ edits = [w \in Watches |-> 0]
  /\ messages = [w \in Watches |-> 0]
  /\ device = [w \in Watches |-> Empty]
  /\ clock = [w \in Watches |-> "never"]
  /\ data = Nothing
  /\ heap = [w \in Watches |-> [i \in Ids |-> Blank]]
  /\ fetch = Idle
  /\ editor = [e \in Editors |-> Edits("idle")]
  /\ reader = [r \in Readers |-> Reads("idle")]
  /\ updates = 0 /\ faults = 0

\* The entries of w that the calls of read_message hold.
Read(w) == UNION {{reader[r].old[w], reader[r].snapshot[w]} : r \in Readers}

\* The id of a new entry.
Fresh(held) == CHOOSE i \in Ids : i \notin held

\* The heap becomes h, without the entries that nothing refers to any more.
HeapBecomes(h) ==
  heap' = [w \in Watches |-> [i \in Ids |->
             IF i \in {data'[w], fetch'.snapshot[w]} \union Read(w)' THEN h[w][i] ELSE Blank]]

\* The entry has been set up: services find it in hass.data.
SetUp == data # Nothing

\* A copy of data, without the watches whose entries are going to be replaced.
Except(targets) == [w \in Watches |-> IF w \in targets THEN NoEntry ELSE data[w]]

Fault == faults < MaxFaults /\ faults' = faults + 1

NobodyReads == \A r \in Readers : reader[r].at \in {"idle", "done"}

Overlapped == [fetch EXCEPT !.alone = FALSE]

----------------------------------------------------------------------------
(* Updates: the poll, see, refresh_functions.                              *)

\* _functions_fetch_due, and the watches that were never fetched.
Due(targets) ==
  \E w \in targets : \/ clock[w] = "never"
                     \/ interval = "with_poll"
                     \/ interval = "timed" /\ clock[w] = "past"

\* _fetch_and_store_xplora_data up to its first request.
StartFetch(targets, forced) ==
  /\ fetch.at = "idle"
  /\ fetch' = [Idle EXCEPT !.at = "devices", !.targets = targets, !.forced = forced,
                           !.functions = forced \/ Due(targets),
                           !.snapshot = Except(targets),
                           !.alone = /\ \A e \in Editors : editor[e].at \in {"idle", "done"}
                                     /\ NobodyReads]
  /\ UNCHANGED <<interval, edits, messages, device, clock, data, heap, editor, reader, faults>>

Poll == StartFetch(Watches, FALSE) /\ UNCHANGED updates

\* A service or a button.
Update ==
  /\ SetUp
  /\ updates < MaxUpdates /\ updates' = updates + 1
  /\ \E targets \in Targets, forced \in BOOLEAN : StartFetch(targets, forced)

\* _setDevice fetches only the lists it does not have yet.
Bug_Fetched(w, list) == IF device[w] = Empty THEN list ELSE device[w]

\* _setDevice: what is fetched replaces the list, what is not is carried forward.
Fetched(w, list) == IF fetch.functions THEN list ELSE device[w]

\* setDevices.  A fetch that exhausts its retries yields [].
SetDevices ==
  /\ fetch.at = "devices"
  /\ \E lost \in SUBSET fetch.targets :
       /\ IF lost = {} THEN UNCHANGED faults ELSE fetch.functions /\ Fault
       /\ device' = [w \in Watches |-> IF w \in fetch.targets
                                       THEN Fetched(w, IF w \in lost THEN Empty ELSE edits[w])
                                       ELSE device[w]]
  /\ clock' = [w \in Watches |-> IF fetch.functions /\ w \in fetch.targets THEN "recent" ELSE clock[w]]
  /\ fetch' = [fetch EXCEPT !.at = "loop", !.todo = fetch.targets]
  /\ UNCHANGED <<interval, updates, edits, messages, data, heap, editor, reader>>

\* The chats of a watch are not carried over.
Bug_Carried(w) == 0

\* data_loop: the chats known so far.
Carried(w) == IF data[w] = NoEntry THEN 0 ELSE Entry(w).messages

\* data_loop for the next watch of the list.
Loop ==
  /\ fetch.at = "loop"
  /\ LET w == CHOOSE v \in fetch.todo : TRUE
         entry == [list |-> device[w], messages |-> Carried(w), full |-> TRUE]
     IN fetch' = [fetch EXCEPT !.got[w] = entry, !.todo = @ \ {w},
                               !.at = IF fetch.todo = {w} THEN "store" ELSE "loop"]
  /\ UNCHANGED <<interval, updates, edits, messages, device, clock, data, heap, editor, reader, faults>>

\* An entry that is there already stays.
Bug_Merged(old, new) == [w \in Watches |-> IF old[w] # NoEntry THEN old[w] ELSE new[w]]

\* dict.update.
Merged(old, new) == [w \in Watches |-> IF new[w] # NoEntry THEN new[w] ELSE old[w]]

\* The end of _fetch_and_store_xplora_data.
Store ==
  /\ fetch.at = "store"
  /\ LET new == [w \in Watches |-> IF w \in fetch.targets THEN Fresh(Read(w)) ELSE NoEntry]
     IN /\ data' = Merged(data, Merged(fetch.snapshot, new))
        /\ fetch' = Idle
        /\ UNCHANGED <<interval, updates, edits, messages, device, clock, editor, reader, faults>>
        /\ HeapBecomes([w \in Watches |-> [i \in Ids |-> IF i = new[w] THEN fetch.got[w] ELSE heap[w][i]]])

\* _with_recovery runs the fetch once more, over the same snapshot.
Retry ==
  /\ fetch.at \in {"devices", "loop"} /\ Fault
  /\ fetch' = [fetch EXCEPT !.at = "devices", !.todo = {}, !.got = Idle.got,
                            !.functions = fetch.forced \/ Due(fetch.targets)]
  /\ UNCHANGED <<interval, updates, edits, messages, device, clock, data, editor, reader>>
  /\ HeapBecomes(heap)

\* The update fails; a sign-in that was refused drops the controller with its lists.
FetchFails ==
  /\ fetch.at \in {"devices", "loop"} /\ Fault
  /\ fetch' = Idle
  /\ device' \in {device, [w \in Watches |-> Empty]}
  /\ UNCHANGED <<interval, updates, edits, messages, clock, data, editor, reader>>
  /\ HeapBecomes(heap)

\* The interval of the functions passes.
Elapse ==
  /\ interval = "timed" /\ \E w \in Watches : clock[w] = "recent"
  /\ clock' = [w \in Watches |-> IF clock[w] = "recent" THEN "past" ELSE clock[w]]
  /\ UNCHANGED <<interval, updates, edits, messages, device, data, heap, fetch, editor, reader, faults>>

\* Home Assistant restarts: only the clock is stored.
Restart ==
  /\ Fault
  /\ device' = [w \in Watches |-> Empty]
  /\ data' = Nothing /\ fetch' = Idle
  /\ editor' = [e \in Editors |-> Edits(IF editor[e].at = "idle" THEN "idle" ELSE "done")]
  /\ reader' = [r \in Readers |-> Reads(IF reader[r].at = "idle" THEN "idle" ELSE "done")]
  /\ UNCHANGED <<interval, updates, edits, messages, clock>>
  /\ HeapBecomes(heap)

----------------------------------------------------------------------------
(* Edits: the alarm and silent services, and _refresh_list.                *)

\* The mutation is applied.
Edit(e, w) ==
  /\ SetUp /\ editor[e].at = "idle"
  /\ edits' = [edits EXCEPT ![w] = @ + 1]
  /\ editor' = [editor EXCEPT ![e] = [Edits("sent") EXCEPT !.watch = {w}]]
  /\ fetch' = Overlapped
  /\ UNCHANGED <<interval, updates, messages, device, clock, data, heap, reader, faults>>

\* The server answers the fetch of the list.
Answer(e) ==
  /\ editor[e].at = "sent"
  /\ \E w \in editor[e].watch : editor' = [editor EXCEPT ![e].at = "answered", ![e].list = edits[w]]
  /\ UNCHANGED <<interval, updates, edits, messages, device, clock, data, heap, fetch, reader, faults>>

\* The fetch of the list fails.
EditFails(e) ==
  /\ editor[e].at = "sent" /\ Fault
  /\ editor' = [editor EXCEPT ![e] = Edits("done")]
  /\ UNCHANGED <<interval, updates, edits, messages, device, clock, data, heap, fetch, reader>>

\* _refresh_list writes into the entry that is in data now.
ShowList(e) ==
  /\ editor[e].at = "answered"
  /\ editor' = [editor EXCEPT ![e] = Edits("done")]
  /\ fetch' = Overlapped
  /\ UNCHANGED <<interval, updates, edits, messages, device, clock, data, reader, faults>>
  /\ \E w \in editor[e].watch :
       HeapBecomes(IF data[w] = NoEntry THEN heap ELSE [heap EXCEPT ![w][data[w]].list = editor[e].list])

----------------------------------------------------------------------------
(* read_message.                                                           *)

\* The dict that r took for old_state: data itself until somebody replaces it.
Old(r) == IF reader[r].attached THEN data ELSE reader[r].old

StartRead(r) ==
  /\ SetUp /\ reader[r].at = "idle"
  /\ \E targets \in Targets :
       reader' = [s \in Readers |->
         IF s = r THEN [Reads("next") EXCEPT !.todo = targets, !.alone = NobodyReads]
         ELSE [reader[s] EXCEPT !.alone = FALSE]]
  /\ fetch' = Overlapped
  /\ UNCHANGED <<interval, updates, edits, messages, device, clock, data, heap, editor, faults>>

\* message_data up to its request.
Ask(r, w) ==
  /\ reader[r].at = "next" /\ w \in reader[r].todo
  /\ reader' = [reader EXCEPT ![r].at = "asked", ![r].watch = {w}, ![r].todo = @ \ {w},
                              ![r].snapshot = Except({w})]
  /\ UNCHANGED <<interval, updates, edits, messages, device, clock, data, heap, fetch, editor, faults>>

\* The chats arrive: message_data replaces data by its snapshot with a bare entry.
Chats(r, w) ==
  /\ reader[r].at = "asked" /\ w \in reader[r].watch
  /\ messages' = [messages EXCEPT ![w] = @ + 1]
  /\ reader' = [s \in Readers |->
       LET kept == IF reader[s].at \in {"next", "asked", "media"} /\ reader[s].attached
                   THEN [reader[s] EXCEPT !.attached = FALSE, !.old = data] ELSE reader[s]
       IN IF s = r THEN [kept EXCEPT !.at = "media", !.snapshot = Nothing, !.messages = messages'[w]]
          ELSE kept]
  /\ fetch' = Overlapped
  /\ UNCHANGED <<interval, updates, edits, device, clock, editor, faults>>
  /\ LET new == Fresh({fetch.snapshot[w]} \union Read(w)')
     IN /\ data' = [reader[r].snapshot EXCEPT ![w] = new]
        /\ HeapBecomes([heap EXCEPT ![w][new] = [Blank EXCEPT !.messages = messages'[w]]])

\* The chats of the watch are not put back into its former entry.
Bug_PutBack(r, w) == heap

\* The chats of the watch go into its former entry.
PutBack(r, w) == IF Old(r)[w] = NoEntry THEN heap
                 ELSE [heap EXCEPT ![w][Old(r)[w]].messages = reader[r].messages]

\* The media of the chats are there, or fail in a way that ends the reads.
Media(r, w) ==
  /\ reader[r].at = "media" /\ w \in reader[r].watch
  /\ \/ UNCHANGED faults /\ reader' = [reader EXCEPT ![r].at = "next", ![r].read[w] = reader[r].messages]
     \/ Fault /\ reader' = [reader EXCEPT ![r].at = "next", ![r].todo = {}, ![r].read[w] = reader[r].messages]
  /\ UNCHANGED <<interval, updates, edits, messages, device, clock, data, fetch, editor>>
  /\ HeapBecomes(PutBack(r, w))

\* The request fails in a way that ends the reads.
AskFails(r) ==
  /\ reader[r].at = "asked" /\ Fault
  /\ reader' = [reader EXCEPT ![r].at = "next", ![r].todo = {}, ![r].snapshot = Nothing]
  /\ UNCHANGED <<interval, updates, edits, messages, device, clock, data, fetch, editor>>
  /\ HeapBecomes(heap)

\* _with_recovery runs message_data once more.
AskAgain(r) ==
  /\ reader[r].at = "asked" /\ Fault
  /\ reader' = [reader EXCEPT ![r].snapshot = Except(reader[r].watch)]
  /\ UNCHANGED <<interval, updates, edits, messages, device, clock, data, fetch, editor>>
  /\ HeapBecomes(heap)

\* Any other error ends the call on the spot.
ReadDies(r) ==
  /\ reader[r].at \in {"asked", "media"} /\ Fault
  /\ reader' = [reader EXCEPT ![r] = Reads("done")]
  /\ UNCHANGED <<interval, updates, edits, messages, device, clock, data, fetch, editor>>
  /\ HeapBecomes(heap)

\* async_update_xplora_data(new_data=old_state).
Push(r) ==
  /\ reader[r].at = "next" /\ reader[r].todo = {}
  /\ data' = Merged(data, Old(r))
  /\ reader' = [reader EXCEPT ![r] = Reads("done")]
  /\ fetch' = Overlapped
  /\ UNCHANGED <<interval, updates, edits, messages, device, clock, editor, faults>>
  /\ HeapBecomes(heap)

----------------------------------------------------------------------------
FetchStep == SetDevices \/ Loop \/ Store
EditStep(e) == Answer(e) \/ ShowList(e)
ReadStep(r) == Push(r) \/ \E w \in Watches : Ask(r, w) \/ Chats(r, w) \/ Media(r, w)

Next ==
  \/ Poll \/ Update \/ FetchStep \/ Retry \/ FetchFails \/ Elapse \/ Restart
  \/ \E e \in Editors : EditStep(e) \/ EditFails(e) \/ \E w \in Watches : Edit(e, w)
  \/ \E r \in Readers : StartRead(r) \/ ReadStep(r) \/ AskFails(r) \/ AskAgain(r) \/ ReadDies(r)

Spec == Init /\ [][Next]_vars

\* Time passes, the poll's timer fires, and requests are answered.
FairSpec ==
  /\ Spec
  /\ WF_vars(FetchStep) /\ WF_vars(Elapse) /\ SF_vars(Poll)
  /\ \A e \in Editors : WF_vars(EditStep(e))
  /\ \A r \in Readers : WF_vars(ReadStep(r))
----------------------------------------------------------------------------
Fetches == [at : {"idle", "devices", "loop", "store"}, targets : SUBSET Watches,
            forced : BOOLEAN, functions : BOOLEAN, todo : SUBSET Watches,
            snapshot : Slots, got : [Watches -> Entries], alone : BOOLEAN]

Editing == [at : {"idle", "sent", "answered", "done"}, watch : SUBSET Watches, list : Lists]

Calls   == [at : {"idle", "next", "asked", "media", "done"}, watch : SUBSET Watches,
            todo : SUBSET Watches, messages : Nat, attached : BOOLEAN, alone : BOOLEAN,
            old : Slots, snapshot : Slots, read : [Watches -> Nat]]

\* The data's variables stay in their ranges.
TypeOK ==
  /\ interval \in Intervals
  /\ edits \in [Watches -> Nat] /\ messages \in [Watches -> Nat]
  /\ device \in [Watches -> Lists]
  /\ clock \in [Watches -> {"never", "recent", "past"}]
  /\ data \in Slots /\ heap \in [Watches -> [Ids -> Entries]]
  /\ fetch \in Fetches
  /\ editor \in [Editors -> Editing] /\ reader \in [Readers -> Calls]
  /\ updates \in Nat /\ faults \in Nat

\* Once calls and faults have ended, the polls heal whatever they left: every
\* entry ends up complete, and with an interval for the functions it ends up with
\* the list of the server (_functions_fetch_due, the clock that is stamped even
\* though a fetch gave up, the lists a new controller lacks).
Converges ==
  <>[](\A w \in Watches :
         /\ data[w] # NoEntry /\ Entry(w).full
         /\ interval # "off" => Entry(w).list = edits[w])

\* An edit that is shown stays shown, whatever the interval of the functions
\* (docs/polling.md): an update that nothing overlaps never takes the list of a
\* watch back to an older one.
EditsStay ==
  [][fetch.alone => \A w \in Watches :
       data[w] # NoEntry /\ data'[w] # NoEntry => Entry(w)'.list >= Entry(w).list]_vars
=============================================================================
