---------------------------- MODULE EntryLifecycle ----------------------------
(***************************************************************************)
(* Config entries of the integration: setup, reload, unload and removal    *)
(* (__init__.py), the flows that create and change them (config_flow.py),  *)
(* the services they share (services.py) and what a coordinator keeps      *)
(* across them (coordinator.py: set_controller, init, the session store,   *)
(* setup_history_scheduler, async_teardown).                               *)
(*                                                                         *)
(* Home Assistant serialises setup, unload and removal of one entry with a *)
(* lock and runs those of different entries beside each other; flows write *)
(* an entry at any time.  One action per await-free stretch.  A state is   *)
(*   added       stored, not set up yet      loading    coordinator.init   *)
(*   refreshing  first refresh               preparing  files, platforms   *)
(*   loaded      set up                      unloading  platforms stopping *)
(*   failed      setup error                 retry      HA tries again     *)
(*   stuck       its unload failed           removing   async_remove_entry *)
(***************************************************************************)
EXTENDS Naturals

CONSTANTS
  Entries,        \* ids of config entries; an id is never used twice
  Accounts,       \* Xplora accounts: an e-mail address or phone number
  NoAccount,      \* no account
  NoCoordinator,  \* no coordinator
  Forms,          \* what may be submitted in the options dialog
  MaxEdits        \* bound on what users and the app do

ASSUME ConstantsAssumption == NoAccount \notin Accounts /\ MaxEdits \in Nat

VARIABLES
  account,   \* entry.data and unique_id: the account an entry signs in to
  options,   \* entry.options
  wrong,     \* entries whose stored password is no longer the account's
  state,     \* state of the entry
  coord,     \* the coordinator last built for it and not discarded
  held,      \* entries with a coordinator in hass.data
  services,  \* domain services registered
  timer,     \* entries whose nightly history timer is armed
  listener,  \* entries whose update listener is registered
  issue,     \* entries with a login_failed repair issue
  reload,    \* entries with a reload waiting for the entry's lock
  doomed,    \* entries with a removal waiting for the lock or under way
  disk,      \* session store of each entry: the account of the stored session
  orphan,    \* discarded coordinator still recovering a token: its account
  flow,      \* account the open user flow validated, waiting in the alias step
  unheard,   \* settings written since the last setup began, with no listener
  moved,     \* reconfigured to another account, maybe with a session of the old
  late,      \* entries whose session a discarded coordinator stored again, or
             \* whose file could not be removed
  edits      \* number of things users and the app did

config  == <<account, options, wrong>>
hass    == <<held, services, timer, listener>>
stores  == <<disk, orphan, late>>
pending == <<reload, doomed>>
history == <<unheard, moved>>
vars    == <<config, state, coord, hass, issue, pending, stores, flow, history, edits>>

Existing == {e \in Entries : state[e] \notin {"free", "gone"}}
Common   == "common"                   \* the services async_unload_services removes
FetchHistory == "fetch_history"        \* the one it leaves registered
AllServices == {Common, FetchHistory}

\* No options yet: a new entry is created without any.
Defaults == [auto |-> FALSE, maps |-> "street", key |-> FALSE, watches |-> FALSE]

Coordinators ==
  [account : Accounts, options : Forms \union {Defaults}, right : BOOLEAN,
   session : Accounts \union {NoAccount}]

ASSUME NoCoordinatorIsNone == NoCoordinator \notin Coordinators

Enter(e, s) == state' = [state EXCEPT ![e] = s]

-----------------------------------------------------------------------------
(* A start of Home Assistant: async_setup, then each stored entry is set up. *)

Init ==
  /\ \E known \in SUBSET Entries :
       /\ account \in [Entries -> Accounts \union {NoAccount}]
       /\ \A e \in Entries : (e \in known) <=> (account[e] # NoAccount)
       /\ \A e, f \in known : e # f => account[e] # account[f]
       /\ state = [e \in Entries |-> IF e \in known THEN "added" ELSE "free"]
  /\ options = [e \in Entries |-> Defaults] /\ wrong = {}
  /\ coord = [e \in Entries |-> NoCoordinator]
  /\ held = {} /\ services = {} /\ timer = {} /\ listener = {} /\ issue = {}
  /\ reload = {} /\ doomed = {}
  /\ disk = [e \in Entries |-> NoAccount]
  /\ orphan = [e \in Entries |-> NoAccount] /\ late = {}
  /\ flow = NoAccount
  /\ unheard = {} /\ moved = {} /\ edits = 0

\* Entries Home Assistant replaces by a new one for the same account.
Replaced == {f \in doomed : \E e \in Existing \ {f} : account[e] = account[f]}

\* Home Assistant stops or crashes and starts again, not amid a replacement.
Restart ==
  /\ Replaced = {}
  /\ state' = [e \in Entries |-> IF e \in Existing THEN "added" ELSE state[e]]
  /\ coord' = [e \in Entries |-> NoCoordinator]
  /\ held' = {} /\ services' = {} /\ timer' = {} /\ listener' = {} /\ issue' = {}
  /\ reload' = {} /\ doomed' = {}
  /\ orphan' = [e \in Entries |-> NoAccount]
  /\ flow' = NoAccount
  /\ UNCHANGED <<config, disk, late, history, edits>>

-----------------------------------------------------------------------------
(* Setup (async_setup_entry).                                              *)

\* A coordinator reads the entry's data and options when it is built.
Built(e) == [account |-> account[e], options |-> options[e],
             right |-> e \notin wrong, session |-> NoAccount]

BeginSetup(e) ==
  /\ Enter(e, "loading")
  /\ coord' = [coord EXCEPT ![e] = Built(e)]
  /\ unheard' = unheard \ {e}
  /\ reload' = reload \ {e}

\* An entry Home Assistant replaces is unloaded before the new one is set up.
Setup(e) ==
  /\ state[e] \in {"added", "retry"} /\ e \notin doomed
  /\ \A f \in doomed : account[f] = account[e] => state[f] \notin {"loaded", "unloading"}
  /\ BeginSetup(e)
  /\ UNCHANGED <<config, hass, issue, doomed, stores, flow, moved, edits>>

Fail(e, s) ==
  /\ Enter(e, s)
  /\ coord' = [coord EXCEPT ![e] = NoCoordinator]
  /\ UNCHANGED <<config, hass, pending, flow, history, edits>>

\* LoginError or PhoneOrEmailFail: a repair issue, and a setup error.
SignInFails(e) ==
  /\ state[e] = "loading"
  /\ issue' = issue \union {e}
  /\ Fail(e, "failed")
  /\ UNCHANGED stores

\* 429, no connection or AuthError: a setup error too, without an issue.
InitFails(e) ==
  /\ state[e] = "loading"
  /\ Fail(e, "failed")
  /\ UNCHANGED <<issue, stores>>

\* restore_session: the stored session, if there is one, is taken over as it is.
Restorable(e) == {disk[e]} \ {NoAccount}

\* Mutant: one session store for all entries.
Bug_SignedIn(e) ==
  /\ state[e] = "loading"
  /\ \E a \in Accounts :
       /\ (\E f \in Entries : a = disk[f]) \/ (a = coord[e].account /\ coord[e].right)
       /\ coord' = [coord EXCEPT ![e].session = a]
       /\ disk' = [disk EXCEPT ![e] = a]
  /\ issue' = issue \ {e}
  /\ Enter(e, "refreshing")
  /\ UNCHANGED <<config, hass, pending, orphan, late, flow, history, edits>>

\* The stored session is taken over as it is; otherwise the account of the
\* entry signs in.  The session is stored and the issue deleted.
SignedIn(e) ==
  /\ state[e] = "loading"
  /\ \E a \in Accounts :
       /\ a \in Restorable(e) \/ (a = coord[e].account /\ coord[e].right)
       /\ coord' = [coord EXCEPT ![e].session = a]
       /\ disk' = [disk EXCEPT ![e] = a]
  /\ issue' = issue \ {e}
  /\ Enter(e, "refreshing")
  /\ UNCHANGED <<config, hass, pending, orphan, late, flow, history, edits>>

\* The first refresh fails: ConfigEntryNotReady.
RefreshFails(e) ==
  /\ state[e] = "refreshing"
  /\ Fail(e, "retry")
  /\ UNCHANGED <<issue, stores>>

\* Mutant: the services are registered by the first entry only.
Bug_Refreshed(e) ==
  /\ state[e] = "refreshing"
  /\ Enter(e, "preparing")
  /\ timer' = IF coord[e].options.auto THEN timer \union {e} ELSE timer
  /\ held' = held \union {e}
  /\ services' = IF held = {} THEN AllServices ELSE services
  /\ UNCHANGED <<config, coord, listener, issue, pending, stores, flow, history, edits>>

\* hass.data holds the coordinator, its timer is armed, its teardown queued
\* for the unload and the services registered; files and platforms follow.
Refreshed(e) ==
  /\ state[e] = "refreshing"
  /\ Enter(e, "preparing")
  /\ timer' = IF coord[e].options.auto THEN timer \union {e} ELSE timer
  /\ held' = held \union {e}
  /\ services' = AllServices
  /\ UNCHANGED <<config, coord, listener, issue, pending, stores, flow, history, edits>>

\* The media directories cannot be made: the teardown runs, the coordinator
\* stays in hass.data and the services stay registered.
PrepareFails(e) ==
  /\ state[e] = "preparing"
  /\ Enter(e, "failed")
  /\ timer' = timer \ {e}
  /\ UNCHANGED <<config, coord, held, services, listener, issue, pending, stores, flow, history, edits>>

Prepared(e) ==
  /\ state[e] = "preparing"
  /\ Enter(e, "loaded")
  /\ listener' = listener \union {e}
  /\ UNCHANGED <<config, coord, held, services, timer, issue, pending, stores, flow, history, edits>>

-----------------------------------------------------------------------------
(* Unload, reload and removal.                                             *)

Unload(e) ==
  /\ state[e] = "loaded" /\ e \in reload \union doomed
  /\ Enter(e, "unloading")
  /\ UNCHANGED <<config, coord, hass, issue, pending, stores, flow, history, edits>>

\* Mutant: async_teardown is not queued for the unload.
Bug_Unloaded(e) ==
  /\ state[e] = "unloading"
  /\ held' = held \ {e} /\ services' = services \ {Common}
  /\ UNCHANGED timer /\ listener' = listener \ {e}
  /\ \E o \in {NoAccount, coord[e].session} : orphan' = [orphan EXCEPT ![e] = o]
  /\ IF e \in doomed
       THEN /\ Enter(e, "added")
            /\ coord' = [coord EXCEPT ![e] = NoCoordinator]
            /\ UNCHANGED <<reload, unheard>>
       ELSE BeginSetup(e)
  /\ UNCHANGED <<config, issue, doomed, disk, late, flow, moved, edits>>

\* The platforms are gone: teardown and update listener are unsubscribed and a
\* removal or a new setup follows.  A token recovery under way goes on without
\* its coordinator.
Unloaded(e) ==
  /\ state[e] = "unloading"
  /\ held' = held \ {e} /\ services' = services \ {Common}
  /\ timer' = timer \ {e} /\ listener' = listener \ {e}
  /\ \E o \in {NoAccount, coord[e].session} : orphan' = [orphan EXCEPT ![e] = o]
  /\ IF e \in doomed
       THEN /\ Enter(e, "added")
            /\ coord' = [coord EXCEPT ![e] = NoCoordinator]
            /\ UNCHANGED <<reload, unheard>>
       ELSE BeginSetup(e)
  /\ UNCHANGED <<config, issue, doomed, disk, late, flow, moved, edits>>

\* A platform refuses: coordinator, timer and listener stay, services go.
UnloadFails(e) ==
  /\ state[e] = "unloading"
  /\ services' = services \ {Common}
  /\ Enter(e, "stuck")
  /\ reload' = reload \ {e}
  /\ UNCHANGED <<config, coord, held, timer, listener, issue, doomed, stores, flow, history, edits>>

\* A reload of an entry that is not set up only sets it up; Home Assistant
\* refuses one of an entry it could not unload.
ServeReload(e) ==
  /\ e \in reload
  /\ \/ state[e] \in {"failed", "retry"} /\ BeginSetup(e)
     \/ /\ state[e] = "stuck" /\ reload' = reload \ {e}
        /\ UNCHANGED <<state, coord, unheard>>
  /\ UNCHANGED <<config, hass, issue, doomed, stores, flow, moved, edits>>

\* Removal of an entry that is not set up.  One that is replaced goes after
\* the setup of its successor has ended.
ServeRemoval(e) ==
  /\ e \in doomed /\ state[e] \in {"added", "failed", "retry", "stuck"}
  /\ \A f \in Existing \ {e} :
       account[f] = account[e] => state[f] \notin {"added", "loading", "refreshing", "preparing"}
  /\ Enter(e, "removing")
  /\ UNCHANGED <<config, coord, hass, issue, pending, stores, flow, history, edits>>

\* async_clear_persisted_session: a file that cannot be removed is only logged.
ClearPersistedSession(e) ==
  \/ disk' = [disk EXCEPT ![e] = NoAccount] /\ UNCHANGED late
  \/ late' = late \union {e} /\ UNCHANGED disk

\* Mutant: the store is cleared only if the logout went through.
Bug_Removed(e) ==
  /\ state[e] = "removing"
  /\ Enter(e, "gone")
  /\ ClearPersistedSession(e) \/ UNCHANGED <<disk, late>>
  /\ reload' = reload \ {e} /\ doomed' = doomed \ {e}
  /\ UNCHANGED <<config, coord, hass, issue, orphan, flow, history, edits>>

\* async_remove_entry: a throw-away coordinator signs in and logs out, or
\* fails to; either way the stores are cleared.
Removed(e) ==
  /\ state[e] = "removing"
  /\ Enter(e, "gone")
  /\ ClearPersistedSession(e)
  /\ reload' = reload \ {e} /\ doomed' = doomed \ {e}
  /\ UNCHANGED <<config, coord, hass, issue, orphan, flow, history, edits>>

\* _do_recover_token of a discarded coordinator reaches _persist_session.
OrphanStores(e) ==
  /\ orphan[e] # NoAccount
  /\ disk' = [disk EXCEPT ![e] = orphan[e]]
  /\ late' = late \union {e}
  /\ orphan' = [orphan EXCEPT ![e] = NoAccount]
  /\ UNCHANGED <<config, state, coord, hass, issue, pending, flow, history, edits>>

-----------------------------------------------------------------------------
(* Flows, users and the app.                                               *)

\* The password of an account is changed in the app.
ChangePassword(a) ==
  /\ wrong' = wrong \union {e \in Existing : account[e] = a}
  /\ wrong' # wrong
  /\ UNCHANGED <<account, options, state, coord, hass, issue, pending, stores, flow, history>>

\* async_step_user_email / _phone: the unique id is free, the sign-in works.
Credentials(a) ==
  /\ flow = NoAccount
  /\ \A e \in Existing : account[e] # a
  /\ flow' = a
  /\ UNCHANGED <<config, state, coord, hass, issue, pending, stores, history>>

Abandon ==
  /\ flow # NoAccount
  /\ flow' = NoAccount
  /\ UNCHANGED <<config, state, coord, hass, issue, pending, stores, history>>

\* async_step_alias creates the entry; Home Assistant replaces an entry that
\* took the same unique id meanwhile.
CreateEntry(e) ==
  /\ flow # NoAccount /\ state[e] = "free"
  /\ account' = [account EXCEPT ![e] = flow]
  /\ Enter(e, "added")
  /\ doomed' = doomed \union {f \in Existing : account[f] = flow}
  /\ flow' = NoAccount
  /\ UNCHANGED <<options, wrong, coord, hass, issue, reload, stores, history>>

\* Mutant: the listener does not reload the entry.
Bug_Updated(e) ==
  IF e \in listener
    THEN UNCHANGED <<reload, unheard>>
    ELSE unheard' = unheard \union {e} /\ UNCHANGED reload

\* async_update_entry calls the listeners there are.
Updated(e) ==
  IF e \in listener
    THEN reload' = reload \union {e} /\ UNCHANGED unheard
    ELSE unheard' = unheard \union {e} /\ UNCHANGED reload

\* Mutant: the check against the other entries is dropped.
Bug_Reconfigure(e, a) ==
  /\ e \in Existing /\ state[e] # "removing"
  /\ a # account[e] \/ e \in wrong
  /\ account' = [account EXCEPT ![e] = a]
  /\ wrong' = wrong \ {e}
  /\ moved' = IF a # account[e] THEN moved \union {e} ELSE moved
  /\ Updated(e)
  /\ UNCHANGED <<options, state, coord, hass, issue, doomed, stores, flow>>

\* async_step_reconfigure with credentials that work: a new password, or an
\* account that no other entry has.
Reconfigure(e, a) ==
  /\ e \in Existing /\ state[e] # "removing"
  /\ a # account[e] \/ e \in wrong
  /\ \A f \in Existing \ {e} : account[f] = a => a = account[e]
  /\ account' = [account EXCEPT ![e] = a]
  /\ wrong' = wrong \ {e}
  /\ moved' = IF a # account[e] THEN moved \union {e} ELSE moved
  /\ Updated(e)
  /\ UNCHANGED <<options, state, coord, hass, issue, doomed, stores, flow>>

\* validate_options_input: no error.
Valid(form) == (form.maps = "cage" => form.key) /\ form.watches

\* The options dialog lists the watches with the coordinator in hass.data, or
\* signs in itself; a form with an error is shown again.
SaveOptions(e, form) ==
  /\ e \in Existing /\ state[e] # "removing"
  /\ e \in held \/ e \notin wrong
  /\ Valid(form) /\ form # options[e]
  /\ options' = [options EXCEPT ![e] = form]
  /\ Updated(e)
  /\ UNCHANGED <<account, wrong, state, coord, hass, issue, doomed, stores, flow, moved>>

\* The user reloads or deletes an entry.
AskReload(e) ==
  /\ state[e] \in {"loaded", "failed", "retry"} /\ e \notin reload
  /\ reload' = reload \union {e}
  /\ UNCHANGED <<config, state, coord, hass, issue, doomed, stores, flow, history>>

AskRemoval(e) ==
  /\ e \in Existing /\ e \notin doomed
  /\ doomed' = doomed \union {e}
  /\ UNCHANGED <<config, state, coord, hass, issue, reload, stores, flow, history>>

-----------------------------------------------------------------------------
Manage(e) == Setup(e) \/ Unload(e) \/ ServeReload(e) \/ ServeRemoval(e)

Finish(e) ==
  \/ SignInFails(e) \/ InitFails(e) \/ SignedIn(e)
  \/ RefreshFails(e) \/ Refreshed(e) \/ PrepareFails(e) \/ Prepared(e)
  \/ Unloaded(e) \/ UnloadFails(e) \/ Removed(e)

Users ==
  \/ \E a \in Accounts : ChangePassword(a) \/ Credentials(a)
  \/ Abandon
  \/ \E e \in Entries : CreateEntry(e) \/ AskReload(e) \/ AskRemoval(e)
  \/ \E e \in Entries, a \in Accounts : Reconfigure(e, a)
  \/ \E e \in Entries, form \in Forms : SaveOptions(e, form)

Next ==
  \/ Restart
  \/ \E e \in Entries : Manage(e) \/ Finish(e) \/ OrphanStores(e)
  \/ edits < MaxEdits /\ edits' = edits + 1 /\ Users

Spec == Init /\ [][Next]_vars

\* Requests end or time out and the event loop runs what is ready.
Fairness == \A e \in Entries : WF_vars(Manage(e)) /\ WF_vars(Finish(e))

FairSpec == Spec /\ Fairness

-----------------------------------------------------------------------------
TypeOK ==
  /\ account \in [Entries -> Accounts \union {NoAccount}]
  /\ options \in [Entries -> {form \in Forms : form.maps = "cage" => form.key} \union {Defaults}]
  /\ wrong \subseteq Entries
  /\ state \in [Entries -> {"free", "added", "loading", "refreshing", "preparing", "loaded",
                           "unloading", "failed", "retry", "stuck", "removing", "gone"}]
  /\ coord \in [Entries -> Coordinators \union {NoCoordinator}]
  /\ held \subseteq Entries /\ services \subseteq AllServices
  /\ timer \subseteq Entries /\ listener \subseteq Entries /\ issue \subseteq Entries
  /\ reload \subseteq Entries /\ doomed \subseteq Entries
  /\ disk \in [Entries -> Accounts \union {NoAccount}]
  /\ orphan \in [Entries -> Accounts \union {NoAccount}] /\ late \subseteq Entries
  /\ flow \in Accounts \union {NoAccount}
  /\ unheard \subseteq Entries /\ moved \subseteq Entries
  /\ edits \in 0 .. MaxEdits

\* A loaded entry runs with the data and options it has now, or a reload is
\* waiting (coordinator.py:161-163 "a single resolution here is always current").
\* Settings written during a setup, before the listener, are the exception.
SettingsApplied ==
  \A e \in Entries \ (reload \union unheard) :
    state[e] = "loaded" => coord[e].account = account[e] /\ coord[e].options = options[e]

\* The session an entry uses and stores is one of the account it signs in to,
\* until Reconfigure moves the entry to another account.
OwnSession ==
  \A e \in Entries \ moved :
    /\ disk[e] \in {NoAccount, account[e]}
    /\ coord[e] # NoCoordinator => coord[e].session \in {NoAccount, account[e]}

\* No account is configured twice, whatever flows and reconfigures overlap,
\* but for an entry Home Assistant is replacing.
UniqueAccounts ==
  \A e, f \in Existing : account[e] = account[f] => e = f \/ {e, f} \cap doomed # {}

\* While every entry is loaded and none was ever removed, every service of
\* the integration is registered: a reload of one entry takes the services
\* all of them share away and gives them back.
ServicesWhileAllLoaded ==
  Existing # {} /\ (\A e \in Entries : state[e] \in {"free", "loaded"}) => services = AllServices

\* A nightly timer belongs to the coordinator in hass.data and to options
\* that ask for it: none outlives its coordinator (async_teardown).
TimersOwned == \A e \in timer : e \in held /\ coord[e].options.auto

\* Removal leaves no session behind (async_remove_entry: "Always drop the
\* persisted token"), unless a discarded coordinator stores one afterwards or
\* the file cannot be removed.
RemovedLeavesNoSession ==
  \A e \in Entries \ late : state[e] = "gone" => disk[e] = NoAccount

\* Settings are always followed by a setup that reads them (strings.json:95
\* "Home Assistant is reloading the integration"). The code does not hold it:
\* README, section 6.
ChangesTakeEffect == \A e \in Entries : e \in unheard ~> e \notin unheard
=============================================================================
