--------------------------- MODULE SharedEntries ---------------------------
(***************************************************************************)
(* What coordinator.data promises to the entities that read it.            *)
(* CoordinatorData has the calls that write it and says what an entry is.  *)
(***************************************************************************)
EXTENDS Integers

CONSTANTS
  Watches,
  Readers  \* calls of read_message

VARIABLES
  edits,   \* edits of each watch's list, as the server has it
  data,    \* coordinator.data: the id of each watch's entry
  heap,    \* the entries
  fetch,   \* the update in flight
  reader   \* the calls of read_message

NoEntry == 0
Empty   == -1   \* the list [], which a client without a value shows
Nothing == [w \in Watches |-> NoEntry]

\* What the entities of w read.
Entry(w) == heap[w][data[w]]

\* An update that no edit and no read_message overlaps is exact (data_loop,
\* _setDevice, the merge of _fetch_and_store_xplora_data): the entries of its
\* watches are complete and keep their chats, with the list of the server if it
\* fetched the lists and none of the fetches gave up, and no other entry changes.
ExactWhenAlone ==
  [][fetch.at = "store" /\ fetch.alone /\ fetch'.at = "idle" /\ data' # Nothing =>
       \A w \in Watches :
         IF w \in fetch.targets
         THEN /\ Entry(w)'.full
              /\ data[w] # NoEntry => Entry(w)'.messages = Entry(w).messages
              /\ fetch.functions /\ Entry(w)'.list # Empty => Entry(w)'.list = edits[w]
         ELSE data[w] # NoEntry => Entry(w)' = Entry(w)]_fetch

\* When a call of read_message that no other overlapped has pushed its result
\* (services.py async_read_message, coordinator.py message_data), every watch
\* it read shows at least the chats it fetched, whatever updates and edits
\* stored or replaced meanwhile.
ReadIsShown ==
  [][\A r \in Readers :
       reader[r].alone /\ reader[r].at = "next" /\ reader'[r].at = "done" /\ data' # Nothing =>
         \A w \in Watches : reader[r].read[w] > 0 => Entry(w)'.messages >= reader[r].read[w]]_reader
=============================================================================
